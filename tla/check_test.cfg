SPECIFICATION CheckSpec
CONSTANTS
  Default <- DefaultSignatures
  Line <- AllLines
  Limits <- AllLimits
  MaxLines = 4
INVARIANT
  CheckTestInv
CHECK_DEADLOCK FALSE
