-------------------------------- MODULE Pipe --------------------------------
(***************************************************************************)
(* One pipe (kernel/pipe.c) shared by processes that hold its two ends.    *)
(*                                                                         *)
(* A step is what happens between two operations on pi->lock, or one       *)
(* iteration of the copy loops, so that a kill can fall anywhere.  sleep   *)
(* releases pi->lock and blocks in one step: all wakeups of a pipe are     *)
(* made with pi->lock held (Proc.tla opens sleep and wakeup up).           *)
(***************************************************************************)
EXTENDS Integers, Sequences, FiniteSets

CONSTANTS
  Procs,
  Roles,     \* possible assignments of the ends "r", "w" to processes
  PIPESIZE,
  WORD,      \* the counters nread, nwrite are modulo WORD (2^32 in C)
  Sizes,     \* byte counts of the calls
  MaxBytes,  \* bound: bytes ever written
  Killable,  \* bound: the processes that may be killed
  NULL

ASSUME PipeAssumption ==
  /\ PIPESIZE \in Nat \ {0} /\ WORD \in Nat /\ WORD > PIPESIZE /\ WORD % PIPESIZE = 0
  /\ Roles \subseteq [Procs -> SUBSET {"r", "w"}]
  /\ Sizes \subseteq Nat \ {0} /\ Killable \subseteq Procs /\ NULL \notin Procs

VARIABLES
  nread, nwrite, data, readopen, writeopen,   \* struct pipe
  lock,     \* holder of pi->lock
  freed,    \* how often the pipe's memory has been freed
  ends,     \* the ends each process has open
  pc,       \* [at, i, n]: place in a call, bytes done, bytes asked for
  killed,
  sent,     \* history: bytes written; byte number k has value k
  got       \* history: bytes handed to readers

vars == <<nread, nwrite, data, readopen, writeopen, lock, freed, ends, pc, killed, sent, got>>
pipe == <<nread, nwrite, data, readopen, writeopen>>

Idle == [at |-> "idle", i |-> 0, n |-> 0]

Init ==
  /\ nread = 0 /\ nwrite = 0 /\ data = [k \in 0..(PIPESIZE - 1) |-> 0]
  /\ readopen = TRUE /\ writeopen = TRUE
  /\ lock = NULL /\ freed = 0
  /\ ends \in Roles
  /\ pc = [p \in Procs |-> Idle]
  /\ killed = {} /\ sent = 0 /\ got = <<>>

At(p, at) == pc[p].at = at
Goto(p, at) == pc' = [pc EXCEPT ![p].at = at]
Holds(e) == {p \in Procs : e \in ends[p]}

\* wakeup(&pi->nread), wakeup(&pi->nwrite), and p goes on at "at".
WakeAndGoto(chan, again, p, at) ==
  pc' = [q \in Procs |-> IF q = p THEN (IF at = "idle" THEN Idle ELSE [pc[q] EXCEPT !.at = at])
                         ELSE IF pc[q].at = chan THEN [pc[q] EXCEPT !.at = again]
                         ELSE pc[q]]
WakeReaders(p, at) == WakeAndGoto("nread", "rwake", p, at)
WakeWriters(p, at) == WakeAndGoto("nwrite", "wacq", p, at)

\* Fault: piperead tests its condition with an if.
AfterSleep_If == "read"

\* piperead tests its condition again after sleep.
AfterSleep == "wait"

\* acquire(&pi->lock), at the start of a call or at the end of sleep.
Acquire(p) ==
  /\ lock = NULL
  /\ \E s \in {<<"wacq", "write">>, <<"racq", "wait">>, <<"rwake", AfterSleep>>, <<"cacq", "close">>} :
       At(p, s[1]) /\ Goto(p, s[2])
  /\ lock' = p
  /\ UNCHANGED <<pipe, freed, ends, killed, sent, got>>

\* sleep(chan, &pi->lock)
Sleep(p) ==
  /\ \E s \in {<<"wsleep", "nwrite">>, <<"rsleep", "nread">>} : At(p, s[1]) /\ Goto(p, s[2])
  /\ lock' = NULL
  /\ UNCHANGED <<pipe, freed, ends, killed, sent, got>>

-----------------------------------------------------------------------------
(* pipewrite                                                               *)

Full == nwrite = (nread + PIPESIZE) % WORD

pipewrite(p, n) ==
  /\ At(p, "idle") /\ "w" \in ends[p]
  /\ pc' = [pc EXCEPT ![p] = [at |-> "wacq", i |-> 0, n |-> n]]
  /\ UNCHANGED <<pipe, lock, freed, ends, killed, sent, got>>

Writing(p) == At(p, "write") /\ pc[p].i < pc[p].n

WriteClosed(p) ==
  /\ Writing(p) /\ (~readopen \/ p \in killed)
  /\ lock' = NULL /\ pc' = [pc EXCEPT ![p] = Idle]
  /\ UNCHANGED <<pipe, freed, ends, killed, sent, got>>

WriteFull(p) ==
  /\ Writing(p) /\ readopen /\ p \notin killed /\ Full
  /\ WakeReaders(p, "wsleep")
  /\ UNCHANGED <<pipe, lock, freed, ends, killed, sent, got>>

WriteByte(p) ==
  /\ Writing(p) /\ readopen /\ p \notin killed /\ ~Full /\ sent < MaxBytes
  /\ data' = [data EXCEPT ![nwrite % PIPESIZE] = sent + 1]
  /\ nwrite' = (nwrite + 1) % WORD
  /\ pc' = [pc EXCEPT ![p].i = @ + 1]
  /\ sent' = sent + 1
  /\ UNCHANGED <<nread, readopen, writeopen, lock, freed, ends, killed, got>>

\* All bytes written, or copyin failed.
WriteEnd(p) ==
  /\ At(p, "write")
  /\ pc[p].i < pc[p].n => readopen /\ p \notin killed /\ ~Full
  /\ WakeReaders(p, "idle")
  /\ lock' = NULL
  /\ UNCHANGED <<pipe, freed, ends, killed, sent, got>>

-----------------------------------------------------------------------------
(* piperead                                                                *)

Empty == nread = nwrite

piperead(p, n) ==
  /\ At(p, "idle") /\ "r" \in ends[p]
  /\ pc' = [pc EXCEPT ![p] = [at |-> "racq", i |-> 0, n |-> n]]
  /\ UNCHANGED <<pipe, lock, freed, ends, killed, sent, got>>

ReadKilled(p) ==
  /\ At(p, "wait") /\ Empty /\ writeopen /\ p \in killed
  /\ lock' = NULL /\ pc' = [pc EXCEPT ![p] = Idle]
  /\ UNCHANGED <<pipe, freed, ends, killed, sent, got>>

ReadWait(p) ==
  /\ At(p, "wait") /\ Empty /\ writeopen /\ p \notin killed
  /\ Goto(p, "rsleep")
  /\ UNCHANGED <<pipe, lock, freed, ends, killed, sent, got>>

ReadStart(p) ==
  /\ At(p, "wait") /\ ~(Empty /\ writeopen)
  /\ Goto(p, "read")
  /\ UNCHANGED <<pipe, lock, freed, ends, killed, sent, got>>

ReadByte(p) ==
  /\ At(p, "read") /\ pc[p].i < pc[p].n /\ ~Empty
  /\ got' = Append(got, data[nread % PIPESIZE])
  /\ nread' = (nread + 1) % WORD
  /\ pc' = [pc EXCEPT ![p].i = @ + 1]
  /\ UNCHANGED <<nwrite, data, readopen, writeopen, lock, freed, ends, killed, sent>>

\* Fault: a read of a full pipe does not wake the writers up.
ReadEnd_Silent(p) ==
  /\ At(p, "read")
  /\ lock' = NULL /\ pc' = [pc EXCEPT ![p] = Idle]
  /\ UNCHANGED <<pipe, freed, ends, killed, sent, got>>

\* Fault: a byte that could not be copied out is skipped.
ReadEnd_Skips(p) ==
  /\ At(p, "read")
  /\ nread' = IF pc[p].i < pc[p].n /\ ~Empty THEN (nread + 1) % WORD ELSE nread
  /\ WakeWriters(p, "idle")
  /\ lock' = NULL
  /\ UNCHANGED <<nwrite, data, readopen, writeopen, freed, ends, killed, sent, got>>

\* All bytes read, the pipe is empty, or copyout failed.
ReadEnd(p) ==
  /\ At(p, "read")
  /\ WakeWriters(p, "idle")
  /\ lock' = NULL
  /\ UNCHANGED <<pipe, freed, ends, killed, sent, got>>

-----------------------------------------------------------------------------
(* Closing                                                                 *)

\* fileclose: the last process to close an end calls pipeclose.
fileclose(p, e) ==
  /\ At(p, "idle") /\ e \in ends[p]
  /\ ends' = [ends EXCEPT ![p] = @ \ {e}]
  /\ pc' = IF Holds(e) = {p} THEN [pc EXCEPT ![p] = [at |-> "cacq", i |-> 0, n |-> e]] ELSE pc
  /\ UNCHANGED <<pipe, lock, freed, killed, sent, got>>

\* Fault: the end is only marked closed.
CloseWrite_Silent(p, at) == Goto(p, at)

CloseWrite(p, at) == WakeReaders(p, at)

\* Fault: each side frees the memory.
Unused_EitherSide(r, w) == ~r \/ ~w

\* Neither end is open.
Unused(r, w) == ~r /\ ~w

pipeclose(p) ==
  LET w == pc[p].n = "w" IN
  /\ At(p, "close")
  /\ writeopen' = (writeopen /\ ~w) /\ readopen' = (readopen /\ w)
  /\ LET at == IF Unused(readopen', writeopen') THEN "kfree" ELSE "idle" IN
     IF w THEN CloseWrite(p, at) ELSE WakeWriters(p, at)
  /\ lock' = NULL
  /\ UNCHANGED <<nread, nwrite, data, freed, ends, killed, sent, got>>

kfree(p) ==
  /\ At(p, "kfree")
  /\ freed' = freed + 1
  /\ pc' = [pc EXCEPT ![p] = Idle]
  /\ UNCHANGED <<pipe, lock, ends, killed, sent, got>>

\* kkill marks the process and wakes it if it sleeps.
kkill(p) ==
  /\ p \notin killed /\ killed' = killed \cup {p}
  /\ pc' = [pc EXCEPT ![p].at = IF @ = "nread" THEN "rwake" ELSE IF @ = "nwrite" THEN "wacq" ELSE @]
  /\ UNCHANGED <<pipe, lock, freed, ends, sent, got>>

-----------------------------------------------------------------------------
Step(p) ==
  \/ Sleep(p)
  \/ WriteClosed(p) \/ WriteFull(p) \/ WriteByte(p) \/ WriteEnd(p)
  \/ ReadKilled(p) \/ ReadWait(p) \/ ReadStart(p) \/ ReadByte(p) \/ ReadEnd(p)
  \/ pipeclose(p) \/ kfree(p)

Next ==
  \/ \E p \in Procs : Acquire(p) \/ Step(p)
  \/ \E p \in Procs, n \in Sizes : pipewrite(p, n) \/ piperead(p, n)
  \/ \E p \in Procs, e \in {"r", "w"} : fileclose(p, e)
  \/ \E p \in Killable : kkill(p)

Spec == Init /\ [][Next]_vars

\* The scheduler runs every runnable process, and the spinlock is obtained
\* by a process that keeps trying while it is free again and again.
FairSpec == Spec /\ \A p \in Procs : WF_vars(Step(p)) /\ SF_vars(Acquire(p))

-----------------------------------------------------------------------------
(* Properties.                                                             *)

\* Bytes come out of the pipe in the order in which they went in, none lost,
\* doubled or overwritten, while the counters of pipewrite and piperead wrap;
\* and pipeclose frees the pipe once, when no process can use it any more.
StreamIntact ==
  /\ freed <= 1 /\ (freed = 1 => \A p \in Procs : ends[p] = {} /\ At(p, "idle"))
  /\ \A k \in 1..Len(got) : got[k] = k
  /\ (nwrite - nread) % WORD = sent - Len(got)
  /\ \A k \in 1..(sent - Len(got)) : data[(nread + k - 1) % PIPESIZE] = Len(got) + k

\* While nobody holds the lock, a reader sleeps only on a pipe that can still
\* be written, and a writer only on a full one that can be read: no room and
\* no close is missed between piperead, pipewrite and pipeclose.  No byte is
\* missed either unless a writer was killed.
NoLostWakeup ==
  lock = NULL =>
    /\ \A p \in Procs : At(p, "nread") =>
         (Empty \/ killed # {}) /\ (writeopen \/ \E q \in Procs : At(q, "cacq"))
    /\ \A p \in Procs : At(p, "nwrite") =>
         Full /\ (readopen \/ \E q \in Procs : At(q, "cacq"))

\* A read that returns 0 means the end: the write end is closed and every
\* byte has been read.  Another reader may empty the pipe between the wakeup
\* of a reader and its turn.
EofMeansEnd ==
  [][\A p \in Procs :
       ~At(p, "read") /\ pc'[p].at = "read" /\ Empty => ~writeopen /\ Len(got) = sent]_vars

\* Once an end is closed, every process blocked in a call on the other end
\* comes back from it.
CloseUnblocks ==
  /\ \A p \in Procs : (pc[p].at \in {"racq", "rwake", "wait", "rsleep", "nread", "read"} /\ ~writeopen) ~> At(p, "idle")
  /\ \A p \in Procs : (pc[p].at \in {"wacq", "write", "wsleep", "nwrite"} /\ ~readopen) ~> At(p, "idle")
=============================================================================
