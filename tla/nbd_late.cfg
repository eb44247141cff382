SPECIFICATION Spec
CONSTANTS
  Offset <- MCOffset
  Count <- MCCount
  Patience = 2
  Window = 2
  Buffer = 4
INVARIANT AlwaysReadsRight
CHECK_DEADLOCK FALSE
