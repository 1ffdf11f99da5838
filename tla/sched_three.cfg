SPECIFICATION ThreeSpec
CONSTANTS
  Procs = {1, 2, 3}
  NR_RESOURCES = 2
  NULL = NULL
  FileOrder <- MCFileOrder
  Scheds = {"fifo", "sjf", "srtf", "rr", "prio", "pa", "pcp", "pip"}
  Scripts <- ThreeScripts
  MAX_PRIO = 4
  MAX_LIFESPAN = 10
  UINT = 64
  TickCap = 5
CHECK_DEADLOCK FALSE
INVARIANTS
  OwnerHolds
  NoAbort
  NoLostWakeup
  StrandedByCycle
  OrderedFinish
  AgingBound
  SrtfKey
  NeverWaits
  NoInversion
  PrioGivenBack
PROPERTIES
  SwitchedEachTick
  Termination
  WaitersFinish
  ImplementsProcessLife
