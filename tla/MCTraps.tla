------------------------------- MODULE MCTraps -------------------------------
(***************************************************************************)
(* Model checking of interrupts, spinlocks and context switches (Trap) and *)
(* of the driver that interrupts feed with input, the console (Console).   *)
(* They share no state, so one run checks them side by side: part says     *)
(* which one runs.                                                         *)
(***************************************************************************)
EXTENDS Trap

CONSTANTS Readers, INPUT_BUF_SIZE, INDICES, Letters, NL, CR, EOF, Sizes   \* Console

VARIABLES part, buf, r, w, e, lock, pc

console_vars == <<buf, r, w, e, lock, pc>>

C == INSTANCE Console WITH Procs <- Readers, WORD <- INDICES

ASSUME C!ConsoleAssumption

BothInit == part \in {"traps", "console"} /\ Init /\ C!Init

BothNext ==
  /\ UNCHANGED part
  /\ \/ part = "traps" /\ Next /\ UNCHANGED console_vars
     \/ part = "console" /\ C!Next /\ UNCHANGED vars

BothSpec == BothInit /\ [][BothNext]_<<part, vars, console_vars>>

\* The console's circular buffer with its three wrapping indices is a line editor:
\* keys change only the line under edit, complete lines reach the readers in order,
\* and an end-of-file is consumed by a call that returns 0 bytes.
EditsLines == C!EditsLines

\* A reader of the console sleeps only when there is nothing to read, and a full
\* buffer can be read (the two tests of consoleintr).
NoLostInput == C!NoLostInput
=============================================================================
