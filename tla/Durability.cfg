\* A stack of four numbers in front of five inodes, and three data blocks.
CONSTANTS
  NICINOD = 4
  INODE_TOTAL = 6
  reserved_inodes = 1
  Block = {b1, b2, b3}
SPECIFICATION DSpec
SYMMETRY Symmetry
INVARIANTS StackIsFree NoneLost BlocksExact ImageAgrees
