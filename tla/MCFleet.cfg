SPECIFICATION Spec
CONSTANTS
  watch = watch
  phone = phone
  Device = {watch, phone}
  PolicyOf <- MCPolicyOf
  Rule <- MCRule
  Rssi <- MCRssi
  Spacing = 2
  MaxClock = 5
INVARIANTS
  HonestEvidence
  AllowIsJustified
  DenialNamesObstacle
PROPERTIES
  FadingNeverDenies
  KeepsPromise
