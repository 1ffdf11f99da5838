SPECIFICATION Spec
CONSTANTS
  Procs = {1, 2, 3}
  NR_RESOURCES = 2
  NULL = NULL
  FileOrder <- MCFileOrder
  Scheds = {"pcp"}
  Scripts <- NestedScripts
  MAX_PRIO = 4
  MAX_LIFESPAN = 10
  UINT = 64
  TickCap = 1
CHECK_DEADLOCK FALSE
INVARIANTS
  BlockedIsQueued
