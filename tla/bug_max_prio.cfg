SPECIFICATION Spec
CONSTANTS
  Procs = {1, 2, 3, 4}
  NR_RESOURCES = 1
  NULL = NULL
  FileOrder <- MCFileOrder
  Scheds = {"pa"}
  Scripts <- LongScripts
  MAX_PRIO = 3
  MAX_LIFESPAN = 10
  UINT = 64
  TickCap = 5
CHECK_DEADLOCK FALSE
INVARIANTS
  BoostedUpToMax
