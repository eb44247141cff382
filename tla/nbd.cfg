SPECIFICATION UnionFairSpec
CONSTANTS
  Offset <- MCOffset
  Count <- MCCount
  Patience = 2
  Window = 1
  Buffer = 4
  Cleartext = {"info", "ack", "name"}
INVARIANTS TypeOK ReadsRight PlainInStep TlsInStep ClosedOnce
PROPERTIES CallsEnd
CHECK_DEADLOCK FALSE
