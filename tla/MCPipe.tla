------------------------------- MODULE MCPipe -------------------------------
(* Model checking of Pipe: each process inherits one of the two ends.       *)
EXTENDS Pipe

OneEnd == {r \in [Procs -> {{"r"}, {"w"}}] :
             \E p, q \in Procs : r[p] # r[q]}
=============================================================================
