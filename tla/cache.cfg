SPECIFICATION FairSpec
CONSTANTS
  Block = {b1, b2, b3}
  Cursor = {c1, c2}
  Metablocks = 4
  Offset <- MCOffset
  NextOffset <- MCNextOffset
  Quota = 3
  QuotaBound = 4
  Nil = Nil
  Head = Head
INVARIANTS TypeOK ListShape PinsCounted TreeKeyed ScanSucceeds QuotaNotLost HeapOwned AllFreed IInv
PROPERTIES PinnedUntouched CallsReturn ImplementsBlockCache
CHECK_DEADLOCK FALSE
