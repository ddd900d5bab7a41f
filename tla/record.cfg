SPECIFICATION RecordSpec
CONSTANTS
  t1 = t1
  t2 = t2
  b1 = b1
  b2 = b2
  Test = {t1, t2}
  Bench = {b1, b2}
  BenchOf <- TwoBenches
  Interval <- Telling
  MaxRuns = 2
  TimedRuns = 1
  Absent = Absent
INVARIANTS
  RunRecordInv
  HistoryTellsTruth
CHECK_DEADLOCK FALSE
