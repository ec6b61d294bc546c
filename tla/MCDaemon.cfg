SPECIFICATION FairSpec
CONSTANTS
  watch = watch
  Device = {watch}
  PolicyOf <- MCPolicyOf
  Rule <- MCRule
  Rssi <- MCRssi
  Spacing = 1
  MaxClock = 2
  Timeout = 1
  MaxQueue = 2
  CountTo = 0
INVARIANTS
  TypeOK
  GrantWasDue
  StatusNeverInvents
  RevocationReachesPolicy
  LostScanForgets
PROPERTIES
  ImplementsFleet
  ExchangeEnds
  EvidenceIsLive
