SPECIFICATION StoreFairSpec
CONSTANTS
  Saver = {s1, s2}
  Reader = {h1}
  Old = {o1}
  Past = {past}
  Nil = Nil
  MaxRuns = 2
  MaxFaults = 1
  MaxClock = 1
INVARIANT
  HistoryInv
PROPERTY
  Finishes
CHECK_DEADLOCK FALSE
