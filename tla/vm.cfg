SPECIFICATION Spec
CONSTANTS
  N = 3
  Frames = 2
  Vpns = {0, 1, 2, 4}
CHECK_DEADLOCK FALSE
INVARIANTS
  TypeOK
  MapcountsExact
  FirstDirectoryExact
  FullMeansFull
PROPERTIES
  SmallestFrame
