----------------------------- MODULE LineEditor -----------------------------
(***************************************************************************)
(* What the console promises its readers (kernel/console.c), without the   *)
(* circular buffer: characters are edited on a line, and complete lines    *)
(* queue up for the readers.                                               *)
(***************************************************************************)
EXTENDS Sequences, Naturals

CONSTANTS Chars, NL, EOF, Capacity

VARIABLES
  ready,   \* characters readers can have
  line     \* the line being edited

vars == <<ready, line>>

Init == ready = <<>> /\ line = <<>>

\* A full buffer completes the line as a newline or an end-of-file does.
Type(c) ==
  /\ Len(ready) + Len(line) < Capacity
  /\ IF c \in {NL, EOF} \/ Len(ready) + Len(line) + 1 = Capacity
     THEN ready' = ready \o Append(line, c) /\ line' = <<>>
     ELSE line' = Append(line, c) /\ UNCHANGED ready

Erase == line # <<>> /\ line' = SubSeq(line, 1, Len(line) - 1) /\ UNCHANGED ready

EraseLine == line' = <<>> /\ UNCHANGED ready

Take == ready # <<>> /\ ready' = Tail(ready) /\ UNCHANGED line

Next == (\E c \in Chars : Type(c)) \/ Erase \/ EraseLine \/ Take

Spec == Init /\ [][Next]_vars
=============================================================================
