CONSTANTS
  Peers = {1, 2, 3}
  Meshes <- Triangle
  MaxSeq <- TwoMessages
  MaxNow = 1
  Skew <- Agree
  Ttl = 3
  ReliableExpiration = 1
  UnreliableExpiration = 1
  SuspensionDuration = 1
  Env = {}
  None = None
SPECIFICATION Spec
CHECK_DEADLOCK FALSE
INVARIANTS
  OutdatedByItsType
