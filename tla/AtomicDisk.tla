----------------------------- MODULE AtomicDisk -----------------------------
(***************************************************************************)
(* What kernel/log.c promises the file system: the updates of the system   *)
(* calls in progress become durable together, after all of them have       *)
(* ended, and a crash loses exactly what is not durable yet.               *)
(***************************************************************************)
EXTENDS Naturals

CONSTANTS Blocks, Vals, Initial

VARIABLES
  mem,       \* what a system call reading a block sees
  durable,   \* what it would see after a crash
  active     \* number of system calls between begin_op and end_op

vars == <<mem, durable, active>>

Init == mem = Initial /\ durable = Initial /\ active = 0

Begin == active' = active + 1 /\ UNCHANGED <<mem, durable>>

Write(b, v) ==
  /\ active > 0
  /\ mem' = [mem EXCEPT ![b] = v]
  /\ UNCHANGED <<durable, active>>

End == active > 0 /\ active' = active - 1 /\ UNCHANGED <<mem, durable>>

Commit == active = 0 /\ durable' = mem /\ UNCHANGED <<mem, active>>

Crash == mem' = durable /\ active' = 0 /\ UNCHANGED durable

Next == Begin \/ End \/ Commit \/ Crash \/ \E b \in Blocks, v \in Vals : Write(b, v)

Spec == Init /\ [][Next]_vars
=============================================================================
