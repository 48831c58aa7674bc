SPECIFICATION FairSpec
CONSTANTS
  TILES = 5
  LAUNCHES = 2
  WARP = 2
  RESIDENT = 3
INVARIANTS TypeOK PublishedRight OffsetRight WalkEndsAtHead IndInv
PROPERTIES ScanSafety EveryLaunchFinishes ScanFull
CHECK_DEADLOCK FALSE
