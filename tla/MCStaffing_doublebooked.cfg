SPECIFICATION Spec
CONSTANTS
  s1 = s1
  s2 = s2
  q1 = q1
  q2 = q2
  Reqs = {q1, q2}
  Workers = {w1}
  Slots = {a1, a2}
  Sessions = {s1, s2}
  Serves <- AdminsServe
  Needed <- MCNeeded
  Spans <- MCSpans
  First <- MCFirst
  Last <- MCLast
  MaxDay = 2
  NoSession = NoSession
SYMMETRY Symmetric
INVARIANTS NotDoubleBooked
CHECK_DEADLOCK FALSE
