SPECIFICATION Spec
CONSTANTS
  o1 = o1
  o2 = o2
  o3 = o3
  Offset <- MCOffset
  Nil = Nil
INVARIANTS TypeOK UsesCounted Released
PROPERTIES UsesTwoCursors
CHECK_DEADLOCK FALSE
