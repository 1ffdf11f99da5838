SPECIFICATION MCSpec
CONSTANTS
  Heads = {a, b}
  Nodes = {x, y, z}
  HHeads = {g, h}
  HNodes = {u, v, w}
  NULL = NULL
  POISON1 = POISON1
  POISON2 = POISON2
  stack = a
  Strings = {"s", "t"}
  FirstPushes = 3
  FirstPops = 2
  Pushes = 2
  Pops = 1
  PrintLimit = 2
  forkqueue = a
  Options = {"q", "S", "i", "h"}
  FileLines <- MCFileLines
  MaxInput = 5
SYMMETRY MCSymmetry
CHECK_DEADLOCK FALSE
INVARIANTS
  Rings
  ListCallsMean
  HListCallsMean
  LoopsVisit
  StackIsStack
  LoaderLoads
