SPECIFICATION FairSpec
CONSTANTS
  watch = watch
  headset = headset
  Peer = {watch, headset}
  Resolvable = {watch}
  Claims <- MCClaims
  RestoreAttempts = 2
  MaxKeys = 2
  MaxContacts = 3
PROPERTIES
  WindowCloses
CHECK_DEADLOCK FALSE
