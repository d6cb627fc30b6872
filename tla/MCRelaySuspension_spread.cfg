CONSTANTS
  Peers = {1, 2, 3, 4}
  Meshes <- Shapes
  MaxSeq <- TwoMessages
  MaxNow = 1
  Skew <- Agree
  Ttl = 3
  ReliableExpiration = 1
  UnreliableExpiration = 1
  SuspensionDuration = 1
  Interval = 0
  RelayExpire = 2
  RequestExpiration = 1
  Env <- Suspending
  None = None
SPECIFICATION FairSuspensionSpec
CHECK_DEADLOCK FALSE
INVARIANTS
  RelayTypeOK
  PathsAreSimple
  NeverAllSuspended
  SuspensionHonoured
  NobodySkipped
PROPERTIES
  NeverBackInTime
  ImplementsBroadcast
  EveryoneReached
