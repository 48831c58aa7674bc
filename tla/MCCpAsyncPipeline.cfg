SPECIFICATION Spec
CONSTANTS
  Thread = {t1, t2, t3}
  STAGES = 3
  NK = 6
CHECK_DEADLOCK FALSE
INVARIANTS TypeOK ReadsRight IndInv
PROPERTIES ImplementsPipeline
