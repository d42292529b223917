SPECIFICATION FairSpec
CONSTANTS
  Procs = {p1, p2, p3}
  Roles <- OneEnd
  PIPESIZE = 2
  WORD = 4
  Sizes = {1, 3}
  MaxBytes = 5
  Killable = {p1}
  NULL = NULL
INVARIANTS StreamIntact NoLostWakeup
PROPERTIES EofMeansEnd CloseUnblocks
CHECK_DEADLOCK FALSE
