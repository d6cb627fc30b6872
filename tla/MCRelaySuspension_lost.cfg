CONSTANTS
  Peers = {1, 2, 3, 4}
  Meshes <- Behind
  MaxSeq <- TwoMessages
  MaxNow = 1
  Skew <- Agree
  Ttl = 3
  ReliableExpiration = 0
  UnreliableExpiration = 1
  SuspensionDuration = 1
  Interval = 0
  RelayExpire = 2
  RequestExpiration = 1
  Env <- Suspending
  None = None
SPECIFICATION SuspensionSpec
CHECK_DEADLOCK FALSE
INVARIANTS
  PathRemains
