\* Two users whose four descriptors share three entries.
CONSTANTS
  MAX_OPEN_FILE = 2
  SYS_OPEN_FILE = 3
  MAX_USER = 2
  Inode <- MCInode
  Flag <- MCFlag
  Offset <- MCOffset
SPECIFICATION Spec
INVARIANTS NoSharedEntry CountIsReferences
PROPERTY ImplementsFds
