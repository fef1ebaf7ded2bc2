SPECIFICATION Spec
CONSTANTS
  Sources = {p1}
  SourceAmount <- MCSourceAmount
  Keys = {k1, k2}
  Manuals = {}
  RefundAmounts = {1, 2}
  Sessions = {s1, s2}
  Quote <- MCQuote
  ReqStatus = "completed"
  HttpErrors = {"rejected", "late"}
  Reordered = TRUE
  NoRow = NoRow
  NoSession = NoSession
SYMMETRY Symmetric
INVARIANTS PaidRefundIsProcessed
CHECK_DEADLOCK FALSE
