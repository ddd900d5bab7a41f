SPECIFICATION Spec
CONSTANTS
  Process = {p, q}
  Scope = {s, t}
  Files = 2
  Retries = 1
  MaxEdits = 1
  Reverting = FALSE
  MaxCrashes = 1
  Legacy = TRUE
  None = None
SYMMETRY Symmetry
INVARIANT
  DiscoveryInv
CHECK_DEADLOCK FALSE
