SPECIFICATION Spec
CONSTANTS
  N = 3
  Frames = 4
  Vpns = {0, 1, 2, 3, 4}
CHECK_DEADLOCK FALSE
INVARIANTS
  AllocatedReadable
