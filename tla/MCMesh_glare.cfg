CONSTANTS
  Peers = {1, 2}
  Conns <- BothWays
  Env = {}
  None = None
SPECIFICATION Spec
CHECK_DEADLOCK FALSE
INVARIANTS
  GlareResolved
