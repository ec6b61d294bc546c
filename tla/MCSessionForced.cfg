SPECIFICATION Spec
CONSTANTS
  MaxAsks = 3
  MaxPauses = 2
INVARIANTS
  NeverStranded
CHECK_DEADLOCK FALSE
