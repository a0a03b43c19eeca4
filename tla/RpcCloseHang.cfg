CONSTANTS
  Requests = {r1}
  MaxGen = 1
  PipeCap = 1
  MaxPushed = 1
CHECK_DEADLOCK FALSE
SPECIFICATION FairSpec
PROPERTIES CloseReleasesRequests
