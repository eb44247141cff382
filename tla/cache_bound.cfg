SPECIFICATION Spec
CONSTANTS
  Block = {b1, b2, b3, b4}
  Cursor = {c1, c2}
  Metablocks = 4
  Offset <- MCOffset
  NextOffset <- MCNextOffset
  Quota = 3
  QuotaBound = 4
  Nil = Nil
  Head = Head
INVARIANT QuotaIsMaximum
CHECK_DEADLOCK FALSE
