CONSTANTS
  ea = ea
  eb = eb
  ec = ec
  ed = ed
  ListElems = {ea, eb, ec, ed}
  ListNames = {l, m}
  Key <- mcListKey
  NULL = NULL
  HashElems = {10, 11, 20, 30, 40}
  HKey <- mcKey
  HashOf <- mcHashOf
  MIN_BUCKETS = 1
  BEST_ELEMS_PER_BUCKET = 1
  NOELEM = 0
  CharBytes = {1, 2}
  StringLen = 3
  MemorySize = 5
  MaxCnt = 5
  Values = {1, 2, 3}
  IntMax = 15
  W = 4
  Dividends <- mcDividends
  Bits <- mcBits
  BUF_SIZE = 12
  per_line = 4
  KILO = 3
  Conversions <- mcConversions
  NameSize = 4
  FieldSize = 4
  LongMax = 511
  ScratchSize = 6
  Archived <- mcArchived
  OldSectors <- mcGarbage
  Radix <- mcRadix
  LastMoment = 50
  PassTicks = 3
  PIT_HZ = 1193180
  TIMER_FREQ = 10
  THOUSAND = 10
  FIRST_LOOPS = 16
  REFINED = 4
  PAGE = 4
  USER_TOP = 24
  ADDRESSES = 32
  FileLength = 14
  Executables <- mcExecutables
  BITS = 12
  MEMORY = 60
  GPIO = 2048
  DATA = 112
  StackValues = {0}
  PrefixOf <- mcPrefixOf
  SourceTexts <- mcLoop02
  NOBODY = NOBODY
  NIL = NIL
  NoEntry = NoEntry
  Allocators = {a1, a2}
  page_cnt = 3
  Counts = {1, 2}
  Callers = {c1, c2}
  PGSIZE = 9
  HEADER = 4
  MIN_BLOCK = 2
  PoolPages = 2
  MallocSizes = {2, 6}
  CallocPairs <- mcPairs
  SIZE_WORD = 16
  Contents = {"v"}
  Procs = {p1, p2}
  Frames = {1, 2}
  KernelPages = 8
  UserPages = {1, 3}
  StackPage = 3
  Executed <- mcExecuted
SPECIFICATION LibrarySpec
INVARIANT LabelsWhereWritten
CHECK_DEADLOCK FALSE
