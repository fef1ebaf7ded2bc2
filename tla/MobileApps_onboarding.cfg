SPECIFICATION FairSpec
CONSTANTS
  Calls = {c1}
  MaxToken = 2
  MaxCode = 2
INVARIANTS TypeOK SignedOutForgets TokensAgree NeverAheadOfReview LockedUntilChecked NoAppWithoutProfile
PROPERTIES ApprovedLeavesReview
