SPECIFICATION Spec
CONSTANTS
  Init1 = p1
  Procs = {p1, p2}
  NPAGES = 8
  MaxPages = 3
  TableSpan = 2
  Increments = {1, 3}
  NULL = NULL
INVARIANT NoPageLost
