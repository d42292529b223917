------------------------------- MODULE Console -------------------------------
(***************************************************************************)
(* Console input (kernel/console.c): the interrupt handler edits a line in *)
(* a circular buffer, consoleread hands out complete lines.                *)
(*                                                                         *)
(* A step of consoleread is one character, or going to sleep; consoleintr  *)
(* is one critical section of cons->lock.  Echoing is left out.            *)
(***************************************************************************)
EXTENDS Integers, Sequences

CONSTANTS
  Procs,
  INPUT_BUF_SIZE,
  WORD,               \* the indices are modulo WORD (2^32 in C)
  Letters,            \* ordinary characters
  NL, CR, EOF,        \* '\n', '\r', C('D')
  Sizes,              \* byte counts of the calls
  NULL

ConsoleAssumption ==
  /\ INPUT_BUF_SIZE \in Nat \ {0} /\ WORD \in Nat
  /\ WORD > INPUT_BUF_SIZE /\ WORD % INPUT_BUF_SIZE = 0
  /\ Sizes \subseteq Nat \ {0} /\ NULL \notin Procs

VARIABLES
  buf, r, w, e,   \* struct console
  lock,           \* the reader holding cons->lock, or NULL
  pc              \* of each reader: [at, n, got]

vars == <<buf, r, w, e, lock, pc>>

Idle == [at |-> "idle", n |-> 0, got |-> 0]

Init ==
  /\ buf = [k \in 0..(INPUT_BUF_SIZE - 1) |-> NL]
  /\ r = 0 /\ w = 0 /\ e = 0
  /\ lock = NULL /\ pc = [p \in Procs |-> Idle]

At(p, at) == pc[p].at = at

-----------------------------------------------------------------------------
(* consoleintr                                                             *)

Used == (e - r) % WORD

\* C('H') and delete.
Backspace == /\ e # w /\ e' = (e - 1) % WORD

Erase ==
  /\ lock = NULL /\ Backspace
  /\ UNCHANGED <<buf, r, w, lock, pc>>

\* C('U'): back to the start of the line, or to a newline before that.
KillLine ==
  LET stop == CHOOSE k \in 0..((e - w) % WORD) :
                /\ k = (e - w) % WORD \/ buf[(e - k - 1) % INPUT_BUF_SIZE] = NL
                /\ \A j \in 0..(k - 1) : buf[(e - j - 1) % INPUT_BUF_SIZE] # NL
  IN
  /\ lock = NULL
  /\ e' = (e - stop) % WORD
  /\ UNCHANGED <<buf, r, w, lock, pc>>

\* Fault: a full buffer is not handed to the readers.
Complete_LineOnly(c, used) == c \in {NL, EOF}

Complete(c, used) == c \in {NL, EOF} \/ used = INPUT_BUF_SIZE

\* wakeup(&cons->r)
WakeReaders == [p \in Procs |-> IF At(p, "asleep") THEN [pc[p] EXCEPT !.at = "woken"] ELSE pc[p]]

\* Fault: a carriage return is stored as it is.
Converted_Not(typed) == typed

Converted(typed) == IF typed = CR THEN NL ELSE typed

\* Any other character, if there is room for it.
Store(typed) ==
  LET c == Converted(typed) IN
  /\ lock = NULL /\ Used < INPUT_BUF_SIZE
  /\ buf' = [buf EXCEPT ![e % INPUT_BUF_SIZE] = c]
  /\ e' = (e + 1) % WORD
  /\ IF Complete(c, Used + 1)
     THEN w' = e' /\ pc' = WakeReaders
     ELSE UNCHANGED <<w, pc>>
  /\ UNCHANGED <<r, lock>>

-----------------------------------------------------------------------------
(* consoleread                                                             *)

consoleread(p, n) ==
  /\ At(p, "idle") /\ lock = NULL
  /\ lock' = p
  /\ pc' = [pc EXCEPT ![p] = [at |-> "read", n |-> n, got |-> 0]]
  /\ UNCHANGED <<buf, r, w, e>>

\* No input: sleep.
Sleep(p) ==
  /\ At(p, "read") /\ r = w
  /\ lock' = NULL
  /\ pc' = [pc EXCEPT ![p].at = "asleep"]
  /\ UNCHANGED <<buf, r, w, e>>

\* No input and killed, found before sleeping or after kkill woke it.
Killed(p) ==
  /\ At(p, "read") /\ r = w
  /\ lock' = NULL /\ pc' = [pc EXCEPT ![p] = Idle]
  /\ UNCHANGED <<buf, r, w, e>>

\* The end of sleep, after consoleintr's wakeup or kkill's.
Resume(p) ==
  /\ pc[p].at \in {"asleep", "woken"} /\ lock = NULL
  /\ lock' = p
  /\ pc' = [pc EXCEPT ![p].at = "read"]
  /\ UNCHANGED <<buf, r, w, e>>

\* Copy a character out; the call ends at a newline, when it has all it asked
\* for, or when copyout fails, which loses the character.
ReadChar(p) ==
  LET c == buf[r % INPUT_BUF_SIZE] IN
  /\ At(p, "read") /\ r # w /\ c # EOF
  /\ r' = (r + 1) % WORD
  /\ \/ /\ c # NL /\ pc[p].got + 1 < pc[p].n
        /\ pc' = [pc EXCEPT ![p].got = @ + 1]
        /\ UNCHANGED lock
     \/ pc' = [pc EXCEPT ![p] = Idle] /\ lock' = NULL
  /\ UNCHANGED <<buf, w, e>>

\* Fault: the end-of-file is consumed by the call that has read something.
EofTaken_Always(got) == TRUE

\* It is saved for the next call unless this one has read nothing.
EofTaken(got) == got = 0

ReadEof(p) ==
  /\ At(p, "read") /\ r # w /\ buf[r % INPUT_BUF_SIZE] = EOF
  /\ r' = IF EofTaken(pc[p].got) THEN (r + 1) % WORD ELSE r
  /\ lock' = NULL /\ pc' = [pc EXCEPT ![p] = Idle]
  /\ UNCHANGED <<buf, w, e>>

-----------------------------------------------------------------------------
Next ==
  \/ \E c \in Letters \cup {NL, CR, EOF} : Store(c)
  \/ Erase \/ KillLine
  \/ \E p \in Procs, n \in Sizes : consoleread(p, n)
  \/ \E p \in Procs : Sleep(p) \/ Killed(p) \/ Resume(p) \/ ReadChar(p) \/ ReadEof(p)

Spec == Init /\ [][Next]_vars

-----------------------------------------------------------------------------
(* Properties.                                                             *)

\* What lies in the buffer from index i up to index j.
Contents(i, j) == [k \in 1..((j - i) % WORD) |-> buf[(i + k - 1) % INPUT_BUF_SIZE]]

Line == INSTANCE LineEditor WITH
          Chars <- Letters \cup {NL, EOF}, Capacity <- INPUT_BUF_SIZE,
          ready <- Contents(r, w), line <- Contents(w, e)

\* The circular buffer with its three wrapping indices is a line editor: keys
\* change only the line under edit, complete lines reach the readers in order,
\* and an end-of-file is consumed by a call that returns 0 bytes ("to make sure
\* caller gets a 0-byte result").
EditsLines ==
  /\ Line!Spec
  /\ [][r # w /\ buf[r % INPUT_BUF_SIZE] = EOF /\ r' # r => pc[lock].got = 0]_vars

\* A reader sleeps only when there is nothing to read, and a full buffer can be
\* read: input is never both refused for lack of room and withheld for lack of
\* a newline, which would last for ever (the two tests of consoleintr).
NoLostInput ==
  /\ lock = NULL => \A p \in Procs : At(p, "asleep") => r = w
  /\ Used = INPUT_BUF_SIZE => r # w
=============================================================================
