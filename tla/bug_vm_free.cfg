SPECIFICATION FairSpec
CONSTANTS
  N = 3
  Frames = 4
  Vpns = {0, 1, 2}
CHECK_DEADLOCK FALSE
PROPERTIES
  FreeReturns
