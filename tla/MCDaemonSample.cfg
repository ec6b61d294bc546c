SPECIFICATION Spec
CONSTANTS
  watch = watch
  Device = {watch}
  PolicyOf <- MCPolicyOf
  Rule <- MCRule
  Rssi <- MCRssi
  Spacing = 1
  MaxClock = 2
  Timeout = 1
  MaxQueue = 2
  CountTo = 2
INVARIANTS
  OneAdvertisementIsOneSample
