\* Two files that reach the double indirect block and the end of the disk.
CONSTANTS
  File <- MCFile
  DIRECT_ADDR = 1
  SINGLES = 1
  PTRS_PER_BLK = 2
  DATA_BLK_NUM = 7
  Datum <- MCDatum
  Lengths <- MCLengths
  MAX_OPEN_FILE = 2
  TruncatesOpen = FALSE
SPECIFICATION Spec
INVARIANT BlocksPartition
PROPERTY ImplementsBytes
