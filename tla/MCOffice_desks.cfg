\* Billing: three requirements, three days in two financial years, three
\* finance requests.  Payroll: one worker's day, a run and two payouts.
SPECIFICATION OfficeSpec
CONSTANTS
  admin = admin
  client = client
  job = job
  q1 = q1
  q2 = q2
  q3 = q3
  Reqs = {q1, q2, q3}
  Sessions = {admin, client, job}
  Serves <- DeskServes
  Starts <- MCStarts
  ExtensionTerm = 1
  SpansMidnight = FALSE
  MaxQuotes = 4
  MaxDay = 3
  Clerks = {c1, c2, c3}
  YearOf <- MCYearOf
  s1 = s1
  s2 = s2
  Asgs = {a1}
  Rate <- MCRate
  Runs = {r1}
  Payouts = {p1, p2}
  LastDay = 1
  Periods <- MCPeriods
  Corrections = {"corrected", "absent"}
  Amounts = {2}
  MaxDeducted = 2
  Callers = {s1, s2}
  Calls <- OfficeCalls
SYMMETRY Symmetric
INVARIANTS WorkIsAgreed BilledIsCompleted CorrectionReachesItems NetFollowsDeductions PaidItemHasPayout
PROPERTIES ApprovedStands BookIsKept PaidGrossStands
CHECK_DEADLOCK FALSE
