------------------------------ MODULE MCBcache ------------------------------
(* Model checking of Bcache: a disk of blocks that all hold v0 at first.    *)
EXTENDS Bcache, TLC

CONSTANT v0

MCInitial == [n \in Blocks |-> v0]
Symmetry == Permutations(Procs) \cup Permutations(Blocks) \cup Permutations(Bufs)
=============================================================================
