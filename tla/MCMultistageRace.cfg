SPECIFICATION Spec
CONSTANTS
  Thread = {t1, t2}
  STAGES = 3
  NK = 4
CHECK_DEADLOCK FALSE
INVARIANTS ReadsRight
