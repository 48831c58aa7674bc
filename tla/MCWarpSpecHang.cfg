SPECIFICATION FairSpec
CONSTANTS
  CONSUMERS = 2
  FOLLOWERS = 1
  STAGES = 2
  NK = 5
PROPERTY EveryThreadFinishes
CHECK_DEADLOCK FALSE
