SPECIFICATION Spec
CONSTANTS
  BlockSize = 3
  Wrap = 9
  MetaSize = 5
  WordSize = 2
  FragmentsPerMetablock = 2
  IdsPerMetablock = 4
  IdsDivisor = 2
  IdCount = 5
  File <- MCFile
  Fragment <- MCFragment
  Zero = Zero
  Garbage = Garbage
  None = None
INVARIANT FetchesAnyId
CHECK_DEADLOCK FALSE
