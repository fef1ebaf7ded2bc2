SPECIFICATION GatewaySpec
CONSTANTS
  s1 = s1
  s2 = s2
  s3 = s3
  Rows = {r1, r2, r3}
  PayIds = {p1, p2, p3}
  Refs = {}
  Sessions = {s1, s2, s3}
  Serves <- GatewayServes
  Quote <- MCQuote
  ManualAmounts = {}
  ManualPurposes = {}
  MaxAmount = 2
  SingleCapture = TRUE
  NoRow = NoRow
  NoPay = NoPay
  NoRef = NoRef
  NoPayment = NoPayment
INVARIANTS PaidWithinQuote PendingIntentsDistinct
PROPERTIES CaptureIsRecorded
CHECK_DEADLOCK FALSE
