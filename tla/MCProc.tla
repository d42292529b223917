------------------------------- MODULE MCProc -------------------------------
(* Model checking of Proc: CPUs are interchangeable.                        *)
EXTENDS Proc, TLC

Symmetry == Permutations(CPUs)
=============================================================================
