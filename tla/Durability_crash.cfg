\* What the header of the engine says of a disk with an image.
CONSTANTS
  NICINOD = 4
  INODE_TOTAL = 6
  reserved_inodes = 1
  Block = {b1, b2, b3}
SPECIFICATION DSpec
SYMMETRY Symmetry
INVARIANT WritesSurvive
