CONSTANTS
  Peers = {1, 2}
  Conns <- Retry
  Env = {"disconnect", "reject", "refuse", "lose"}
  None = None
SPECIFICATION Spec
CHECK_DEADLOCK FALSE
INVARIANTS
  TypeOK
  ConnectedAcross
  InitiatedNeverLeaks
  LeakHasCause
