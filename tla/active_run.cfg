SPECIFICATION RunsFairSpec
CONSTANTS
  Run = {a}
  Kinds <- OwnKinds
  MaxFailures = 1
  MaxQueries = 2
  Nil = Nil
INVARIANT
  ActiveRunInv
PROPERTIES
  RecordsStay
  RecordCatchesUp
CHECK_DEADLOCK FALSE
