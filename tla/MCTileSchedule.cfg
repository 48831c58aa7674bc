SPECIFICATION ScheduleSpec
CONSTANTS
  CTAS = 3
  SWIZ = 4
  MAXM = 8
  MAXN = 4
CHECK_DEADLOCK FALSE
INVARIANTS ScheduleTypeOK NothingMissing
PROPERTIES WritesOnce
