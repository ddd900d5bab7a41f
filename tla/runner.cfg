CONSTANTS
  Timeout = 1
  TermGrace = 1
  KillGrace = 1
  OwnershipGrace = 1
  UsesStartFile = TRUE
  MaxPauses = 1
  MaxPausedTime = 1
  None = None
SPECIFICATION FairSpec
INVARIANTS
  IInv
  NoEarlyTimeout
  KillWakesGroup
PROPERTIES
  GraceBeforeSigkill
  ImplementsContract
  EventuallyDone
