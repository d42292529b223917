-------------------------------- MODULE MCFs --------------------------------
(* Model checking of Fs: a directory a, and a file that is a/c, c or both.  *)
EXTENDS Fs, TLC

Call(op, path) == [op |-> op, path |-> path, new |-> <<>>]

MCCalls ==
  { Call("mkdir", <<"a">>), Call("create", <<"a", "c">>), Call("open", <<"c">>),
    Call("unlink", <<"a">>), Call("unlink", <<"a", "c">>), Call("unlink", <<"c">>),
    [op |-> "link", path |-> <<"a", "c">>, new |-> <<"c">>] }

\* A walk that leaves a directory through "..".
DotDotCalls ==
  { Call("mkdir", <<"a">>), Call("mkdir", <<"a", "c">>), Call("open", <<"a", "c", "..">>),
    Call("unlink", <<"a">>), Call("unlink", <<"a", "c">>) }

Symmetry == Permutations(Procs)
=============================================================================
