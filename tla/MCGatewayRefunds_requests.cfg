SPECIFICATION FairSpec
CONSTANTS
  Sources = {p1}
  SourceAmount <- MCSourceAmount
  Keys = {k1, k2}
  Manuals = {m1}
  RefundAmounts = {2}
  Sessions = {s1, s2}
  Quote <- MCQuote
  ReqStatus = "completed"
  HttpErrors = {}
  Reordered = FALSE
  NoRow = NoRow
  NoSession = NoSession
INVARIANTS SourceNotOverRefunded AcceptedStaysReserved
PROPERTIES RefundsAreKept SettledRefundIsRecorded
CHECK_DEADLOCK FALSE
