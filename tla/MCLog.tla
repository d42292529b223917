-------------------------------- MODULE MCLog --------------------------------
(* Model checking of Log: a disk of blocks that all hold v0 at first.       *)
EXTENDS Log

CONSTANT v0

MCInitial == [b \in Blocks |-> v0]
=============================================================================
