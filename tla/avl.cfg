SPECIFICATION Spec
CONSTANTS
  Key <- MCKey
  MaxKey = 11
  MaxHeight = 5
  Nil = Nil
INVARIANTS TypeOK SearchOrder Balanced FindsContents
PROPERTIES DepthReported ImplementsKeySet
