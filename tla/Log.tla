--------------------------------- MODULE Log ---------------------------------
(***************************************************************************)
(* The write-ahead log of kernel/log.c, with the buffer cache as far as    *)
(* the log depends on it, and a disk that survives crashes.                *)
(*                                                                         *)
(* A block write is atomic and synchronous, as bwrite is.  The buffers of  *)
(* the log's own blocks are always equal to the disk and are left out;     *)
(* those of home blocks may be recycled whenever nobody refers to them.    *)
(* One process at a time commits (or, at boot, recovers): its position is  *)
(* phase and tail.                                                         *)
(***************************************************************************)
EXTENDS Integers, Sequences, FiniteSets

CONSTANTS
  Procs,         \* processes making file system calls
  Blocks,        \* home locations of blocks
  Vals,          \* contents of a block
  Initial,       \* contents of the disk made by mkfs
  LOGBLOCKS, MAXOPBLOCKS,
  OpBlocks,      \* the most distinct blocks a system call writes
  NULL

ASSUME LogAssumption ==
  /\ {OpBlocks, MAXOPBLOCKS, LOGBLOCKS} \subseteq Nat
  /\ OpBlocks < MAXOPBLOCKS /\ MAXOPBLOCKS <= LOGBLOCKS
  /\ IsFiniteSet(Procs) /\ Vals # {} /\ Initial \in [Blocks -> Vals]
  /\ NULL \notin Blocks \cup Vals

VARIABLES
  home, dlog, dhead,   \* disk: home locations, log blocks, header block
  buf,                 \* buffer of a home block, or NULL when not cached
  pin,                 \* references to it taken by bpin
  lh,                  \* log.lh, the block numbers in the transaction
  outstanding, committing,
  phase, tail,         \* progress of commit() or recover_from_log()
  pc,                  \* what each process is doing
  wrote,               \* blocks its system call has logged
  holds,               \* block whose buffer it has locked and modified, or NULL
  panicked

disk == <<home, dlog, dhead>>
cache == <<buf, pin>>
log == <<lh, outstanding, committing>>
vars == <<disk, cache, log, phase, tail, pc, wrote, holds, panicked>>

\* bread: the cached contents, or those on disk.
Read(b) == IF buf[b] = NULL THEN home[b] ELSE buf[b]

ElemsOf(s) == {s[i] : i \in DOMAIN s}

wakeup == [p \in Procs |-> IF pc[p] = "asleep" THEN "begin" ELSE pc[p]]

Init ==
  /\ home = Initial
  /\ dlog = [i \in 1..LOGBLOCKS |-> CHOOSE v \in Vals : TRUE]
  /\ dhead = <<>>
  /\ buf = [b \in Blocks |-> NULL]
  /\ pin = [b \in Blocks |-> 0]
  /\ lh = <<>>
  /\ outstanding = 0 /\ committing = FALSE
  /\ phase = "read_head" /\ tail = 0
  /\ pc = [p \in Procs |-> "idle"]
  /\ wrote = [p \in Procs |-> {}]
  /\ holds = [p \in Procs |-> NULL]
  /\ panicked = FALSE

Booting == phase \in {"read_head", "recover"}

-----------------------------------------------------------------------------
(* System calls.                                                           *)

\* Fault: the space the new call itself may need is not counted.
NoSpace_Others == Len(lh) + outstanding * MAXOPBLOCKS > LOGBLOCKS

NoSpace == Len(lh) + (outstanding + 1) * MAXOPBLOCKS > LOGBLOCKS

begin_op(p) ==
  /\ ~Booting /\ pc[p] \in {"idle", "begin"}
  /\ IF committing \/ NoSpace
     THEN pc' = [pc EXCEPT ![p] = "asleep"] /\ UNCHANGED outstanding
     ELSE pc' = [pc EXCEPT ![p] = "op"] /\ outstanding' = outstanding + 1
  /\ UNCHANGED <<disk, cache, lh, committing, phase, tail, wrote, holds, panicked>>

\* bread a block and modify its buffer.
Modify(p, b, v) ==
  /\ pc[p] = "op" /\ holds[p] = NULL
  /\ \A q \in Procs : holds[q] # b
  /\ Cardinality(wrote[p] \cup {b}) <= OpBlocks
  /\ buf' = [buf EXCEPT ![b] = v]
  /\ holds' = [holds EXCEPT ![p] = b]
  /\ UNCHANGED <<disk, pin, log, phase, tail, pc, wrote, panicked>>

\* Fault: a block that is absorbed is pinned once more.
Record_PinsAgain(b) ==
  /\ lh' = IF b \in ElemsOf(lh) THEN lh ELSE Append(lh, b)
  /\ pin' = [pin EXCEPT ![b] = @ + 1]

\* Absorb a block already in the transaction, or add and pin it.
Record(b) ==
  IF b \in ElemsOf(lh)
  THEN UNCHANGED <<lh, pin>>
  ELSE lh' = Append(lh, b) /\ pin' = [pin EXCEPT ![b] = @ + 1]

\* log_write, then brelse.
log_write(p) ==
  LET b == holds[p] IN
  /\ b # NULL
  /\ IF Len(lh) >= LOGBLOCKS \/ outstanding < 1
     THEN panicked' = TRUE /\ UNCHANGED <<lh, pin, wrote, holds>>
     ELSE /\ Record(b)
          /\ wrote' = [wrote EXCEPT ![p] = @ \cup {b}]
          /\ holds' = [holds EXCEPT ![p] = NULL]
          /\ UNCHANGED panicked
  /\ UNCHANGED <<disk, buf, outstanding, committing, phase, tail, pc>>

end_op(p) ==
  /\ pc[p] = "op" /\ holds[p] = NULL
  /\ outstanding' = outstanding - 1
  /\ wrote' = [wrote EXCEPT ![p] = {}]
  /\ panicked' = committing
  /\ IF outstanding' = 0
     THEN /\ committing' = TRUE
          /\ pc' = [pc EXCEPT ![p] = "commit"]
          /\ phase' = IF lh = <<>> THEN "done" ELSE "write_log"
     ELSE /\ pc' = [wakeup EXCEPT ![p] = "idle"]
          /\ UNCHANGED <<committing, phase>>
  /\ UNCHANGED <<disk, cache, lh, tail, holds>>

-----------------------------------------------------------------------------
(* commit().                                                               *)

write_log ==
  /\ phase = "write_log" /\ tail < Len(lh)
  /\ dlog' = [dlog EXCEPT ![tail + 1] = Read(lh[tail + 1])]
  /\ tail' = tail + 1
  /\ UNCHANGED <<home, dhead, cache, log, phase, pc, wrote, holds, panicked>>

\* Fault: the header is written before all the log blocks are.
CommitHead_Early ==
  /\ phase = "write_log"
  /\ dhead' = lh
  /\ phase' = "install" /\ tail' = 0
  /\ UNCHANGED <<home, dlog, cache, log, pc, wrote, holds, panicked>>

\* write_head: the real commit.
CommitHead ==
  /\ phase = "write_log" /\ tail = Len(lh)
  /\ dhead' = lh
  /\ phase' = "install" /\ tail' = 0
  /\ UNCHANGED <<home, dlog, cache, log, pc, wrote, holds, panicked>>

Unpins == IF phase = "install" THEN 1 ELSE 0

\* One iteration of install_trans; only a commit has pinned the buffer.
install_trans ==
  LET b == lh[tail + 1] IN
  /\ phase \in {"install", "recover"} /\ tail < Len(lh)
  /\ home' = [home EXCEPT ![b] = dlog[tail + 1]]
  /\ buf' = [buf EXCEPT ![b] = dlog[tail + 1]]
  /\ pin' = [pin EXCEPT ![b] = @ - Unpins]
  /\ tail' = tail + 1
  /\ UNCHANGED <<dlog, dhead, log, phase, pc, wrote, holds, panicked>>

\* log.lh.n = 0 and write_head: erase the transaction.
ClearHead ==
  /\ phase \in {"install", "recover"} /\ tail = Len(lh)
  /\ lh' = <<>> /\ dhead' = <<>>
  /\ phase' = IF phase = "install" THEN "done" ELSE "idle"
  /\ tail' = 0
  /\ UNCHANGED <<home, dlog, cache, outstanding, committing, pc, wrote, holds, panicked>>

\* Fault: nobody is woken.
EndCommit_Silent(p) ==
  /\ pc[p] = "commit" /\ phase = "done"
  /\ committing' = FALSE
  /\ phase' = "idle"
  /\ pc' = [pc EXCEPT ![p] = "idle"]
  /\ UNCHANGED <<disk, cache, lh, outstanding, tail, wrote, holds, panicked>>

EndCommit(p) ==
  /\ pc[p] = "commit" /\ phase = "done"
  /\ committing' = FALSE
  /\ phase' = "idle"
  /\ pc' = [wakeup EXCEPT ![p] = "idle"]
  /\ UNCHANGED <<disk, cache, lh, outstanding, tail, wrote, holds, panicked>>

-----------------------------------------------------------------------------
(* The rest of the machine.                                                *)

\* The buffer cache reuses a buffer nobody refers to.
Recycle(b) ==
  /\ buf[b] # NULL /\ pin[b] = 0 /\ \A p \in Procs : holds[p] # b
  /\ buf' = [buf EXCEPT ![b] = NULL]
  /\ UNCHANGED <<disk, pin, log, phase, tail, pc, wrote, holds, panicked>>

\* The machine stops, at any point of commit or recovery, and reboots.
Crash ==
  /\ buf' = [b \in Blocks |-> NULL] /\ pin' = [b \in Blocks |-> 0]
  /\ lh' = <<>> /\ outstanding' = 0 /\ committing' = FALSE
  /\ phase' = "read_head" /\ tail' = 0
  /\ pc' = [p \in Procs |-> "idle"]
  /\ wrote' = [p \in Procs |-> {}]
  /\ holds' = [p \in Procs |-> NULL]
  /\ panicked' = FALSE
  /\ UNCHANGED disk

read_head ==
  /\ phase = "read_head"
  /\ lh' = dhead
  /\ phase' = "recover"
  /\ UNCHANGED <<disk, cache, outstanding, committing, tail, pc, wrote, holds, panicked>>

-----------------------------------------------------------------------------
Commit == write_log \/ CommitHead \/ install_trans \/ ClearHead \/ read_head

SysCall(p) == log_write(p) \/ end_op(p) \/ EndCommit(p)

Next ==
  \/ ~panicked /\ \/ \E p \in Procs : begin_op(p) \/ SysCall(p)
                  \/ \E p \in Procs, b \in Blocks, v \in Vals : Modify(p, b, v)
                  \/ Commit
                  \/ \E b \in Blocks : Recycle(b)
  \/ Crash

\* A process that runs takes its steps; a system call ends (it writes
\* finitely often), and a woken process runs again.
Fairness ==
  /\ WF_vars(Commit)
  /\ \A p \in Procs : SF_vars(end_op(p)) /\ WF_vars(log_write(p)) /\ WF_vars(EndCommit(p))

Spec == Init /\ [][Next]_vars /\ Fairness

-----------------------------------------------------------------------------
(* Properties.                                                             *)

\* The panics of log_write ("too big a transaction", "log_write outside of
\* trans") and end_op ("log.committing") cannot happen, however many system
\* calls start while others have reserved but not yet used their log space.  A
\* buffer of a logged block stays pinned exactly until commit has copied the
\* block home, so that it is neither recycled before nor pinned for ever after
\* (bpin in log_write, bunpin in install_trans).
LogHasRoom ==
  /\ ~panicked
  /\ ~Booting => \A b \in Blocks :
       pin[b] = Cardinality({i \in DOMAIN lh : lh[i] = b /\ (phase = "install" => i > tail)})

\* What a reboot would make of the disk.
Recovered ==
  [b \in Blocks |->
     IF b \in ElemsOf(dhead)
     THEN dlog[CHOOSE i \in DOMAIN dhead : dhead[i] = b] ELSE home[b]]

Disk == INSTANCE AtomicDisk WITH
          mem <- IF Booting THEN Recovered ELSE [b \in Blocks |-> Read(b)],
          durable <- Recovered,
          active <- outstanding

\* System calls are atomic with respect to crashes: the disk a reboot recovers
\* changes only when no call is in progress, and then to what all the calls
\* that ended have written; no crash between two block writes of commit or of
\* recovery, and no reuse of a buffer, shows part of a call or loses one.
AtomicCommit == Disk!Spec

\* A process asleep in begin_op is woken: a commit or the end of another
\* system call always follows, and wakes it.
SleepersWoken == \A p \in Procs : pc[p] = "asleep" ~> pc[p] # "asleep"
=============================================================================
