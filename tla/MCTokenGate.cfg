SPECIFICATION GateSpec
CONSTANTS
  Requests = {r1, r2}
  BastionKeys = {b1}
  FrontendKey = f
  Foreign = x
  Garbage = garbage
  None = None
  Configs <- MCConfigs
  TTL = 2
  Lag = 1
  Horizon = 5
INVARIANTS
  KeyWasRecent
  PrincipalFollowsKey
  FailsClosed
  ConfiguredStaysConfigured
PROPERTIES
  RequestDecided
