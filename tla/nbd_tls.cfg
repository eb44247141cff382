SPECIFICATION TlsSpec
CONSTANTS
  Offset <- MCOffset
  Count <- MCCount
  Patience = 2
  Window = 2
  Buffer = 4
  Cleartext = {}
INVARIANT AckAccepted
CHECK_DEADLOCK FALSE
