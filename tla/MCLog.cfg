SPECIFICATION Spec
CONSTANTS
  Procs = {p1, p2}
  Blocks = {b1, b2, b3, b4}
  v0 = v0
  Vals = {v0, v1}
  Initial <- MCInitial
  LOGBLOCKS = 4
  MAXOPBLOCKS = 2
  OpBlocks = 1
  NULL = NULL
INVARIANT LogHasRoom
PROPERTIES AtomicCommit SleepersWoken
