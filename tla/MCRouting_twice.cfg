CONSTANTS
  Peers = {1, 2, 3, 4}
  Meshes <- Square
  MaxSeq <- OneMessage
  MaxNow = 0
  Skew <- Agree
  Ttl = 3
  ReliableExpiration = 1
  UnreliableExpiration = 1
  SuspensionDuration = 1
  Env = {}
  None = None
SPECIFICATION Spec
CHECK_DEADLOCK FALSE
INVARIANTS
  UnreliableAtMostOnce
