SPECIFICATION FairSpec
CONSTANTS
  Lines <- MCLines
  Dirs = {"home", "d1"}
  Home = "home"
  Capacity = 2
  MaxHistory = 3
  NONE = NONE
CHECK_DEADLOCK FALSE
INVARIANTS
  Sane
  AllCarried
  EndsAsTyped
  BackwardReplay
  CwdFromHistory
  RunsAsRecorded
PROPERTIES
  Returns
