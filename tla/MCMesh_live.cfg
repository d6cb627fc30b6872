CONSTANTS
  Peers = {1, 2}
  Conns <- Reoffer
  Env = {"overlap", "timeout", "disconnect", "reject"}
  None = None
SPECIFICATION FairSpec
CHECK_DEADLOCK FALSE
INVARIANTS
  TrackedOpen
PROPERTIES
  DeadDiscarded
  GoneForgotten
