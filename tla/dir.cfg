SPECIFICATION FairSpec
CONSTANTS
  Inode <- MCInode
  Root <- MCRoot
  Listing <- MCListing
  Path <- MCPath
  File <- MCFile
  MaxDepth = 2
INVARIANTS TypeOK PwdNamesDirectory CdResolves InodeIsPwd ListingInStep
PROPERTIES CommandsReturn
CHECK_DEADLOCK FALSE
