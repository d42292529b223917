SPECIFICATION AllSpec
CONSTANTS
  block_num = 8
  MAX_ORDER = 5
  Pow2 <- MCPow2
  MaxRequest = 9
  Init1 = p1
  Procs = {p1, p2, p3}
  NPAGES = 13
  MaxPages = 3
  TableSpan = 2
  Increments = {3}
  NULL = NULL
  PageBytes = 2
  MAXVA = 6
  WORD = 2
SYMMETRY Symmetry
VIEW View
INVARIANTS NoOverlap Covers FreeBlocksExact PagesOwnedOnce CopiesFlat
PROPERTY PoolSpec
