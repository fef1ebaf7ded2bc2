SPECIFICATION FairSpec
CONSTANTS
  Calls = {c1}
  MaxToken = 2
  MaxCode = 2
PROPERTIES RefreshContinues
