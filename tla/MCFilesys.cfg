CONSTANTS
  a = a
  b = b
  h1 = h1
  h2 = h2
  long = long
  NULL = NULL
  Names = {a, b}
  LongNames = {long}
  NumSectors = 8
  BLOCK_SECTOR_SIZE = 2
  DirEntries = 2
  Sizes = {0, 1, 3}
  Transfers = {2}
  Seeks = {1}
  Handles = {h1, h2}
  Failures = {"root", "inode"}
  Programs <- mcPrograms
SYMMETRY Symm
SPECIFICATION Spec
INVARIANTS FilesWhole CrashSafe CountsRight
PROPERTIES ImplementsStore
CHECK_DEADLOCK FALSE
