SPECIFICATION MCSpec
CONSTANTS
  B = 2
  T = 3
  H = 2
  D = 2
  W = 2
  E = 4
  K = 2
  LAYERS = 2
CHECK_DEADLOCK FALSE
INVARIANTS TypeOK SplitsAgree CombinedRight PastOnly
PROPERTIES AllRanksFinish
