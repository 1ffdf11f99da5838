SPECIFICATION Spec
CONSTANTS
  Procs = {1, 2, 3}
  NR_RESOURCES = 1
  NULL = NULL
  FileOrder <- MCFileOrder
  Scheds = {"srtf"}
  Scripts <- SpreadScripts
  MAX_PRIO = 4
  MAX_LIFESPAN = 4
  UINT = 64
  TickCap = 2
CHECK_DEADLOCK FALSE
INVARIANTS
  ShortestRuns
