SPECIFICATION DeskSpec
CONSTANTS
  s1 = s1
  s2 = s2
  Rows = {r1, r2, r3}
  PayIds = {p1, p2}
  Refs = {ref1, ref2}
  Sessions = {s1, s2}
  Serves <- OfficeServes
  Quote <- MCQuote
  ManualAmounts = {1, 2}
  ManualPurposes <- Charges
  MaxAmount = 2
  SingleCapture = TRUE
  NoRow = NoRow
  NoPay = NoPay
  NoRef = NoRef
  NoPayment = NoPayment
SYMMETRY Symmetric
INVARIANTS CreditMatchesCapture PaidOneAtATime
PROPERTIES PaymentIdKept SettlesOnce
CHECK_DEADLOCK FALSE
