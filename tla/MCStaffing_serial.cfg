SPECIFICATION Spec
CONSTANTS
  s1 = s1
  s2 = s2
  q1 = q1
  q2 = q2
  Reqs = {q1}
  Workers = {w1, w2}
  Slots = {a1, a2}
  Sessions = {s1}
  Serves <- SerialServes
  Needed <- MCNeeded
  Spans <- OpenSpans
  First <- MCFirst
  Last <- MCLast
  MaxDay = 3
  NoSession = NoSession
SYMMETRY Symmetric
INVARIANTS DeclinedReverts
PROPERTIES ClosedStaysClosed ExtensionReachesAll
CHECK_DEADLOCK FALSE
