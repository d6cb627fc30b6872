CONSTANTS
  Peers = {1, 2}
  Conns <- BothWays
  Env = {"ice", "dispose"}
  None = None
SPECIFICATION Spec
CHECK_DEADLOCK FALSE
INVARIANTS
  DisposedIsSilent
PROPERTIES
  ImplementsView
