\* Callers that take no liberty; hard links and files that are open and written.
CONSTANTS
  NONE = NONE
  Ino = {i1, i2, i3, i4}
  root_ino = i1
  etc_ino = i2
  home_ino = i3
  Name <- MCName
  DIR_ENTRIES_PER_BLK = 3
  DATA_BLKS = 6
  MAX_OPEN_FILE = 1
  HOPS = 2
  Paths <- MCPaths
  Targets <- NoTargets
  Flags <- MCFlags
  MaxFileBlks = 1
  MaxPath = 4
  Liberties = {}
SPECIFICATION Spec
INVARIANTS LinkCounts DirectoryTree NothingLost OpenFilesLive PwdNamesCwd
