SPECIFICATION FairSpec
CONSTANTS
  MaxLocks = 2
INVARIANTS
  TypeOK
PROPERTIES
  UnlockIsEarned
  GestureReturns
