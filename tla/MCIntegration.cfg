SPECIFICATION Spec
CONSTANTS
  p = p
  q = q
  Process = {p, q}
  OwnLock = OwnLock
  Nothing = Nothing
  Own = {"a", "b"}
  Found <- MCFound
  MaxRuns = 3
  MaxEvents = 2
  MaxUpgrade = 1
SYMMETRY Symmetric
INVARIANTS
  TypeOK
  LockStays
  NeverHalfIntegrated
  RemovalIsWhole
  RunsWhatItInstalled
  MenuStaysGood
CHECK_DEADLOCK FALSE
