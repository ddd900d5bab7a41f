SPECIFICATION FairSpec
CONSTANTS
  Proc = {p1, p2}
  Content = {c1, c2}
  None = None
  Option <- AllOptions
  MaxStarts = 3
  MaxEdits = 1
  MaxFaults = 1
INVARIANTS
  CompileDirInv
  PassedHasOwnBuild
  SimulationsKeepBuild
PROPERTIES
  EveryoneGetsTheDirectory
CHECK_DEADLOCK FALSE
