SPECIFICATION FairSpec
CONSTANTS
  watch = watch
  headset = headset
  Peer = {watch, headset}
  Resolvable = {watch}
  Claims <- MCClaims
  RestoreAttempts = 2
  MaxKeys = 2
  MaxContacts = 3
INVARIANTS
  RestoredAsSaid
  OutcomeIsTruth
  OpenWindowIsTimed
PROPERTIES
  OnlyThePeersKey
  FormerIsLeftAlone
  FlowEnds
CHECK_DEADLOCK FALSE
