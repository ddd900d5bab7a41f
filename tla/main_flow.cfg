SPECIFICATION Spec
CONSTANTS
  Test = {t1, t2, t3}
  None = None
  MaxInterrupts = 2
  Hard = TRUE
SYMMETRY Symmetry
INVARIANT
  MainFlowInv
CHECK_DEADLOCK FALSE
