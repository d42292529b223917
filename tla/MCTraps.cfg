SPECIFICATION BothSpec
CONSTANTS
  Procs = {"p1", "p2"}
  CPUs = {"c0", "c1"}
  Cpu0 = "c0"
  Waits = {1}
  WORD = 2
  NULL = "none"
  Readers = {"r1", "r2"}
  INPUT_BUF_SIZE = 3
  INDICES = 6
  Letters = {"a", "b"}
  NL = "NL"
  CR = "CR"
  EOF = "EOF"
  Sizes = {1, 2, 3}
INVARIANTS NoffExact FlagFollowsProcess NoRaceWithWfi NoLostInput
PROPERTY EditsLines
