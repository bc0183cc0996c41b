\* Any payload, and callers that ask on a full disk once they left zeros in it.
CONSTANTS
  NICFREE = 3
  DATA_BLK_NUM = 7
  reserved_blocks = 1
  INVALID_BLK = 65535
  Payloads <- MCPayloads
  AsksWhenFull = TRUE
SPECIFICATION Spec
INVARIANTS WalkFindsFreeBlocks CountExact
PROPERTY ImplementsPool
CONSTRAINTS WritesAtOnce ZeroedWhenSpent
