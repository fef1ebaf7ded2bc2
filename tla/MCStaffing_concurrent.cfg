SPECIFICATION Spec
CONSTANTS
  s1 = s1
  s2 = s2
  q1 = q1
  q2 = q2
  Reqs = {q1}
  Workers = {w1, w2, w3}
  Slots = {a1, a2, a3}
  Sessions = {s1, s2}
  Serves <- CrowdServes
  Needed <- MCNeeded
  Spans <- MCSpans
  First <- MCFirst
  Last <- MCLast
  MaxDay = 2
  NoSession = NoSession
SYMMETRY Symmetric
INVARIANTS DayCapacity WorkerOncePerDay OccupiedUnavailable
PROPERTIES RequirementMoves
CHECK_DEADLOCK FALSE
