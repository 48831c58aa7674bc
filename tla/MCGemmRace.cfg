SPECIFICATION FairSpec
CONSTANTS
  WARPS = 2
  STAGES = 2
  NK = 3
  TILES = 2
INVARIANT ReadsRight
CHECK_DEADLOCK FALSE
