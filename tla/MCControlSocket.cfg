SPECIFICATION FairSpec
CONSTANTS
  Process = {unit, standalone}
  Unit = {unit}
  Squatter = {squatter}
  MaxDeaths = 3
  MaxWipes = 1
  unit = unit
  standalone = standalone
  squatter = squatter
INVARIANTS
  TypeOK
  ServerIsReached
PROPERTIES
  NeverUnlinksLive
  EventuallyServed
CHECK_DEADLOCK FALSE
