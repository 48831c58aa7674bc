SPECIFICATION FairSpec
CONSTANTS
  CONSUMERS = 2
  FOLLOWERS = 1
  STAGES = 2
  NK = 5
INVARIANTS TypeOK ReadsRight NoEarlyRelease
PROPERTIES ImplementsPipeline ConsumersFinish
CHECK_DEADLOCK FALSE
