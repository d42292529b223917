SPECIFICATION AllSpec
CONSTANTS
  NPROC = 6
  NOFILE = 5
  NFILE = 6
  NPIPE = 2
  PIPESIZE = 1
  MAXARGS = 3
  Programs <- MCPrograms
  Input <- MCInput
  Procs = {w1, w2}
  Pollers = {c1, c2}
  Depth = 3
  N = 2
  NULL = NULL
  Limit = 11
  Grain = 3
  Units = {1, 2, 4}
  GrepBuf = 4
  WcBuf = 3
  W = 8
  BufSize = 4
  MaxLine = 4
INVARIANTS RefsMatchDescriptors NoOverrun ParsesLines HeapTiled FunctionsRight
PROPERTIES EveryJobEnds WritesEnd
CHECK_DEADLOCK FALSE
