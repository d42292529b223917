SPECIFICATION Spec
CONSTANTS
  Procs = {p1, p2}
  Names = {"a", "c"}
  Calls <- DotDotCalls
  NINODES = 3
  NBLOCKS = 3
  NULL = NULL
INVARIANT InUseNotFreed
