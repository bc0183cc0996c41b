\* Directories and files of several blocks, written in parts through a descriptor,
\* down to the last cluster.
CONSTANTS
  CLUSTERS = 3
  ENTRIES = 2
  GUARD = 4
  MAX_OPEN_FILE = 1
  Name = {A1, A2}
  Short <- Whole
  Paths <- MCPaths
  Flags <- MCFlags
  Lengths <- Parts
  Liberties = {}
SPECIFICATION Spec
INVARIANTS ClustersOwned DotsLead PwdNamesCwd SizeWithinChain SizeKeptInEntry OpenFilesLive
PROPERTIES ImplementsTree ImplementsBytes
SYMMETRY Symmetry
