SPECIFICATION FairSpec
CONSTANTS
  Keys = {0, 1, 2, 3}
  MaxLen = 4
  MAX_LIFESPAN = 2
CHECK_DEADLOCK FALSE
INVARIANTS
  PicksFirstMax
  PicksFirstMin
  PicksFirstBelow
PROPERTIES
  LoopsEnd
