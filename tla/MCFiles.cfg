SPECIFICATION BothSpec
CONSTANTS
  Procs = {p1, p2}
  Names = {"a", "c"}
  Calls <- MCCalls
  NINODES = 3
  NBLOCKS = 3
  NULL = NULL
  Writers = {"p1", "p2", "p3"}
  OpenFiles = {"f1", "f2"}
  FileOf <- MCFileOf
  BSIZE = 2
  NDIRECT = 2
  NINDIRECT = 3
  MAXOPBLOCKS = 6
  UINT = 16
  Disk = 5
  Sizes = {3, 7}
  MaxWrites = 2
  MaxReads = 2
  MaxFaults = 1
  MaxTruncs = 1
SYMMETRY Symmetry
INVARIANTS RefsExact DiskConsistent InUseNotFreed FileIsFlat TransactionFits
