SPECIFICATION Spec
CONSTANTS
  Procs = {p1, p2, p3}
  Blocks = {n1, n2, n3}
  v0 = v0
  Vals = {v0, v1}
  Initial <- MCInitial
  Bufs = {a1, a2, a3}
  NBUF = 1
  NULL = NULL
SYMMETRY Symmetry
INVARIANTS BufferStaysMine ReadsLatest
