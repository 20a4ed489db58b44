CONSTANTS
  NULL = NULL
  NONE = NONE
  NoTable = NoTable
  Writers = {w1, w2}
  Readers = {r1, r2}
  INTQ_BUFSIZE = 3
  Loads <- mcLoads
  DiskUsers = {u1, u2}
  DiskSectors = {0, 1}
  Partitions <- mcPartitions
  NoChar = NoChar
  Keyboards <- mcKeys
  COL_CNT = 3
  ROW_CNT = 2
  TAB = 2
  MaxLines = 4
  WORD = 8
  Layouts <- mcLayouts
  MaxStack = 4
SPECIFICATION DevicesSpec
INVARIANTS CharsInOrder LinesWhole DisksRight TerminalRight
PROPERTIES DevicesServe
CHECK_DEADLOCK FALSE
