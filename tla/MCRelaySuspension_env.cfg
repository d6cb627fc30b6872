CONSTANTS
  Peers = {1, 2, 3}
  Meshes <- Triangle
  MaxSeq <- OneMessage
  MaxNow = 2
  Skew <- ThirdBehind
  Ttl = 3
  ReliableExpiration = 1
  UnreliableExpiration = 1
  SuspensionDuration = 1
  Interval = 0
  RelayExpire = 2
  RequestExpiration = 1
  Env <- Anything
  None = None
SPECIFICATION SuspensionSpec
CHECK_DEADLOCK FALSE
INVARIANTS
  ReliableAtMostOnce
  NeverAllSuspended
  WithheldAsAsked
PROPERTIES
  ImplementsRouting
  ImplementsBroadcast
