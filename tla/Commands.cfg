\* Two names, one of them also in the other's directory, three inodes beside the
\* root, a disk of six blocks, three slots in a block, files of up to three
\* blocks that are all alike, three descriptors.
CONSTANTS
  Name = {"a", "b"}
  Path <- MCPath
  Args <- MCArgs
  Block = {"x"}
  INODES = 4
  BLOCKS = 6
  DIR_ENTRIES_PER_BLK = 3
  LENGTH = 3
  NOFILE = 3
  HOPS = 2
  Liberties = {}
SPECIFICATION CommandsSpec
INVARIANTS CopyKeepsData CopyExact DoneForAll NothingLeftOpen
PROPERTY OnlyTargets
