SPECIFICATION Spec
CONSTANTS
  Inode <- MCInode
  Root <- MCRoot
  Listing <- MCListing
  Path <- MCPathEmpty
  File <- MCFile
  MaxDepth = 2
INVARIANT PwdNamesDirectory
CHECK_DEADLOCK FALSE
