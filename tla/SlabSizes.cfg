SPECIFICATION Spec
CONSTANTS
  MIN_BUFFER_SIZE = 32
  MAX_BUFFER_SIZE = 131072
  NUM_BUFFER_CACHES = 13
  BLOCK_SIZE = 4096
  SlabHeader = 48
  ObjectHeader = 16
  Requests = {32, 33, 1024, 4096, 16384, 32768, 32769, 65536, 65537, 131072, 131073}
INVARIANT ClassServes
