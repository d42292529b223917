SPECIFICATION AllSpec
CONSTANTS
  Procs = {p1, p2}
  Blocks = {b1, b2, b3}
  Sizes = {0, 1, 2}
  Classes = {2}
  NULL = NULL
  MIN_BUFFER_SIZE = 32
  MAX_BUFFER_SIZE = 131072
  NUM_BUFFER_CACHES = 13
  BLOCK_SIZE = 4096
  SlabHeader = 48
  ObjectHeader = 16
  Requests <- MCRequests
  Users = {b1, b2, b3}
  RingSizes = {4, 5, 6}
SYMMETRY Symmetry
INVARIANTS SlabsOnTheirList BlocksAccounted ObjectsOwnedOnce SizesFit RequestInOnePlace NoLostWakeup
