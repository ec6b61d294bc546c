SPECIFICATION FairSpec
CONSTANTS
  MaxAsks = 3
  MaxPauses = 2
INVARIANTS
  LeavesAsFound
  OneRestart
PROPERTIES
  SecondAskExits
CHECK_DEADLOCK FALSE
