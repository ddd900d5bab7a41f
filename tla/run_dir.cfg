SPECIFICATION FairSpec
CONSTANTS
  r1 = r1
  r2 = r2
  p1 = p1
  p2 = p2
  Run = {r1, r2}
  Process = {p1, p2}
  ProcessOf <- TwoJobs
  Option <- Options
  MaxFaults = 1
  None = None
INVARIANTS
  RunDirectoryInv
  PassedHasOwnArtifacts
PROPERTIES
  OthersUntouched
  JobsSettle
CHECK_DEADLOCK FALSE
