SPECIFICATION LocksFairSpec
CONSTANTS
  Process = {p, q}
  Benches = 3
  MaxInterrupts = 1
  MaxCrashes = 1
  NoBench = NoBench
INVARIANT
  UseIsExclusive
PROPERTIES
  CleanupNotInUse
  EveryRunEnds
CHECK_DEADLOCK FALSE
