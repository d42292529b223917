SPECIFICATION Spec
CONSTANTS
  NPROC = 4
  CPUs = {c1, c2}
INVARIANTS NoLostChild RunsOnOneCpu
SYMMETRY Symmetry
