SPECIFICATION Spec
CONSTANTS
  Proc = {p, q}
  Dir = {1, 2}
  Printed <- MCPrinted
  HasAll <- MCHasAll
  EDITS = 1
  FAULTS = 1
  KILLS = 1
  MAKES = 3
CHECK_DEADLOCK FALSE
INVARIANTS TypeOK RefreshedByMake
PROPERTIES UntouchedIfUpToDate MakeGoesOn
