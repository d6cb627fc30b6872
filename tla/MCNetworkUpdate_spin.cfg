CONSTANTS
  Self = 2
  Peers = {1, 3}
  TargetConnections = 1
  MaxConnections = 1
  Reach = 1
  Far = 2
  Distances = {0, 1, 2}
  MaxCalls = 2
  Env = {"offer", "disconnect"}
  None = None
SPECIFICATION Spec
CHECK_DEADLOCK FALSE
INVARIANTS
  ExcessDiscarded
