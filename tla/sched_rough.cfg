SPECIFICATION Spec
CONSTANTS
  Procs = {1, 2}
  NR_RESOURCES = 2
  NULL = NULL
  FileOrder <- MCFileOrder
  Scheds = {"fifo", "sjf", "srtf", "rr", "prio", "pa", "pcp", "pip"}
  Scripts <- RoughScripts
  MAX_PRIO = 4
  MAX_LIFESPAN = 10
  UINT = 64
  TickCap = 1
CHECK_DEADLOCK FALSE
INVARIANTS
  TypeOK
  ListIntegrity
  NoUseAfterFree
  NoLostProcess
