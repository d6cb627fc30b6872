CONSTANTS
  Self = 2
  Peers = {1, 3}
  TargetConnections = 2
  MaxConnections = 2
  Reach = 1
  Far = 2
  Distances = {0, 1, 2}
  MaxCalls = 2
  Env = {"leave", "relay", "offer", "down", "reject", "disconnect"}
  None = None
SPECIFICATION FairSpec
CHECK_DEADLOCK FALSE
INVARIANTS
  TypeOK
  ReceivedAreKnown
  OneCallPerPeer
PROPERTIES
  ConnectsInReach
  SilentAfterDispose
  Descends
  ImplementsView
  UpdateEnds
