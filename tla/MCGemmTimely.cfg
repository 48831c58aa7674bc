SPECIFICATION TimelySpec
CONSTANTS
  WARPS = 3
  STAGES = 3
  NK = 8
  TILES = 2
INVARIANTS TypeOK ReadsRight DrainedAtExit
PROPERTIES ImplementsPipeline AllTilesFinish
CHECK_DEADLOCK FALSE
