------------------------------ MODULE LogProofs ------------------------------
(***************************************************************************)
(* The inductive invariant of Log, and from it that the log never          *)
(* overflows and that it implements AtomicDisk, for any number of          *)
(* processes and blocks and any size of the log.                           *)
(***************************************************************************)
EXTENDS Log, FiniteSetTheorems, TLAPS

NoRepeats(s) == \A i, j \in 1..Len(s) : s[i] = s[j] => i = j

Ops == {p \in Procs : pc[p] = "op"}

TypeOK ==
  /\ home \in [Blocks -> Vals] /\ dlog \in [1..LOGBLOCKS -> Vals]
  /\ dhead \in Seq(Blocks) /\ lh \in Seq(Blocks)
  /\ buf \in [Blocks -> Vals \cup {NULL}] /\ pin \in [Blocks -> Nat]
  /\ outstanding \in Nat /\ committing \in BOOLEAN /\ panicked \in BOOLEAN
  /\ phase \in {"read_head", "recover", "idle", "write_log", "install", "done"}
  /\ tail \in Nat
  /\ pc \in [Procs -> {"idle", "begin", "asleep", "op", "commit"}]
  /\ wrote \in [Procs -> SUBSET Blocks] /\ holds \in [Procs -> Blocks \cup {NULL}]

\* The transaction in memory and the one on disk fit the log, name no block
\* twice, and commit or recovery is somewhere in them.
Lists ==
  /\ Len(lh) <= LOGBLOCKS /\ Len(dhead) <= LOGBLOCKS /\ tail <= Len(lh)
  /\ NoRepeats(lh) /\ NoRepeats(dhead)

\* Nobody is in a system call while the log is committed or recovered.
Quiet ==
  /\ outstanding = Cardinality(Ops)
  /\ phase # "idle" => outstanding = 0
  /\ committing <=> phase \in {"write_log", "install", "done"}
  /\ \A p \in Procs : holds[p] # NULL => pc[p] = "op"

\* Blocks of the transaction whose new contents are not yet at home.
Dirty ==
  {b \in Blocks : /\ ~Booting
                  /\ \E i \in 1..Len(lh) : lh[i] = b /\ (phase = "install" => i > tail)}

Clean(b) == buf[b] = NULL \/ buf[b] = home[b]

\* The buffer of a dirty block is pinned, once, and holds its contents; every
\* other buffer that nobody is changing can be dropped.
Buffers ==
  \A b \in Blocks :
    /\ pin[b] = IF b \in Dirty THEN 1 ELSE 0
    /\ b \in Dirty => buf[b] # NULL
    /\ b \notin Dirty /\ (\A p \in Procs : holds[p] # b) => Clean(b)
    /\ \A p \in Procs : holds[p] = b => buf[b] # NULL

\* What commit and recovery have done so far, phase by phase.
Progress ==
  /\ phase = "read_head" => lh = <<>>
  /\ phase = "recover" => lh = dhead
  /\ phase = "install" => /\ lh = dhead
                          /\ \A i \in 1..Len(lh) : i > tail => buf[lh[i]] = dlog[i]
  /\ phase \in {"recover", "install"} => \A i \in 1..tail : home[lh[i]] = dlog[i]
  /\ phase = "write_log" => \A i \in 1..tail : dlog[i] = buf[lh[i]]
  /\ phase \in {"idle", "write_log", "done"} => dhead = <<>>
  /\ phase = "done" => lh = <<>>
  /\ phase \in {"read_head", "idle", "done"} => tail = 0

Recoverable == TypeOK /\ Lists /\ Quiet /\ Buffers /\ Progress

-----------------------------------------------------------------------------
\* The sizes, as numbers.
LEMMA Sizes ==
  ASSUME LogAssumption
  PROVE  /\ OpBlocks \in Nat /\ MAXOPBLOCKS \in Nat /\ LOGBLOCKS \in Nat
         /\ OpBlocks < MAXOPBLOCKS /\ MAXOPBLOCKS <= LOGBLOCKS
BY Zenon DEF LogAssumption

\* The transaction, as a list of blocks.
LEMMA Listed ==
  ASSUME TypeOK
  PROVE  /\ lh \in Seq(Blocks) /\ DOMAIN lh = 1..Len(lh) /\ Len(lh) \in Nat
         /\ \A i \in 1..Len(lh) : lh[i] \in Blocks
<1>1. lh \in Seq(Blocks)
  BY Zenon DEF TypeOK
<1> QED BY ONLY <1>1

\* The machine boots with an empty log.
LEMMA RecoverableInit ==
  ASSUME LogAssumption, Init
  PROVE  Recoverable
<1>1. TypeOK
  <2>1. (CHOOSE v \in Vals : TRUE) \in Vals
    BY Zenon DEF LogAssumption
  <2>2. home \in [Blocks -> Vals] /\ dlog \in [1..LOGBLOCKS -> Vals]
    BY <2>1, Zenon DEF Init, LogAssumption
  <2>3. /\ dhead \in Seq(Blocks) /\ lh \in Seq(Blocks) /\ outstanding \in Nat /\ tail \in Nat
        /\ phase = "read_head" /\ committing = FALSE /\ panicked = FALSE
    BY DEF Init
  <2>4. buf \in [Blocks -> Vals \cup {NULL}] /\ pin \in [Blocks -> Nat]
    BY Zenon DEF Init
  <2>5. /\ pc \in [Procs -> {"idle", "begin", "asleep", "op", "commit"}]
        /\ wrote \in [Procs -> SUBSET Blocks] /\ holds \in [Procs -> Blocks \cup {NULL}]
    BY Zenon DEF Init
  <2> QED BY <2>2, <2>3, <2>4, <2>5, Zenon DEF TypeOK
<1>2. Lists
  BY DEF Init, Lists, NoRepeats, LogAssumption
<1>3. Quiet
  <2>1. Ops = {}
    BY Zenon DEF Init, Ops
  <2>2. outstanding = Cardinality(Ops)
    BY <2>1, FS_EmptySet, Zenon DEF Init
  <2> QED BY <2>2, Zenon DEF Init, Quiet
<1>4. Buffers
  <2>1. Dirty = {}
    BY Zenon DEF Init, Dirty, Booting
  <2> QED BY <2>1, Zenon DEF Init, Buffers, Clean, LogAssumption
<1>5. Progress
  BY Zenon DEF Init, Progress
<1> QED BY <1>1, <1>2, <1>3, <1>4, <1>5, Zenon DEF Recoverable

\* How the number of system calls in progress follows their places.
LEMMA OpsCount ==
  ASSUME LogAssumption, TypeOK
  PROVE  /\ IsFiniteSet(Ops) /\ Cardinality(Ops) \in Nat
         /\ \A p \in Procs \ Ops : Cardinality(Ops \cup {p}) = Cardinality(Ops) + 1
         /\ \A p \in Ops : Cardinality(Ops \ {p}) = Cardinality(Ops) - 1 /\ Cardinality(Ops) >= 1
<1>1. IsFiniteSet(Ops)
  BY FS_Subset, Zenon DEF LogAssumption, Ops
<1>2. Cardinality(Ops) \in Nat
  BY <1>1, FS_CardinalityType, Zenon
<1>3. ASSUME NEW p \in Procs \ Ops PROVE Cardinality(Ops \cup {p}) = Cardinality(Ops) + 1
  BY <1>1, FS_AddElement, Zenon
<1>4. ASSUME NEW p \in Ops
      PROVE  Cardinality(Ops \ {p}) = Cardinality(Ops) - 1 /\ Cardinality(Ops) >= 1
  <2>1. IsFiniteSet(Ops \ {p}) /\ Cardinality(Ops \ {p}) = Cardinality(Ops) - 1
    BY <1>1, FS_RemoveElement, Zenon
  <2>2. Cardinality(Ops \ {p}) \in Nat
    BY <2>1, FS_CardinalityType, Zenon
  <2> QED BY ONLY <2>1, <2>2, <1>2
<1> QED BY <1>1, <1>2, <1>3, <1>4, Zenon

\* A process in a system call keeps the log from committing.
LEMMA InCall ==
  ASSUME LogAssumption, Recoverable, NEW p \in Procs, pc[p] = "op"
  PROVE  outstanding >= 1 /\ phase = "idle" /\ committing = FALSE /\ ~Booting
<1>1. p \in Ops
  BY Zenon DEF Ops
<1>2. outstanding >= 1
  BY <1>1, OpsCount, Zenon DEF Recoverable, Quiet
<1>3. phase = "idle"
  BY <1>2 DEF Recoverable, Quiet
<1> QED BY <1>2, <1>3, Zenon DEF Recoverable, Quiet, Booting, TypeOK

\* begin_op reserves space or goes to sleep; it reads and writes no block.
LEMMA BeginStep ==
  ASSUME LogAssumption, Recoverable, NEW p \in Procs, begin_op(p)
  PROVE  Recoverable'
<1> USE DEF Recoverable
<1>1. /\ ~Booting /\ pc[p] \in {"idle", "begin"}
      /\ UNCHANGED <<home, dlog, dhead, buf, pin, lh, committing, phase, tail, wrote, holds, panicked>>
  BY Zenon DEF begin_op, disk, cache
<1>2. CASE committing \/ NoSpace
  <2>1. pc' = [pc EXCEPT ![p] = "asleep"] /\ UNCHANGED outstanding
    BY <1>2, Zenon DEF begin_op
  <2>2. Ops' = Ops
    BY <1>1, <2>1, Zenon DEF Ops, TypeOK
  <2>3. TypeOK'
    BY <1>1, <2>1, Zenon DEF TypeOK
  <2>4. Quiet'
    BY <1>1, <2>1, <2>2, Zenon DEF Quiet, TypeOK
  <2>5. Lists' /\ Buffers' /\ Progress'
    BY <1>1 DEF Lists, NoRepeats, Buffers, Dirty, Booting, Clean, Progress
  <2> QED BY <2>3, <2>4, <2>5, Zenon
<1>3. CASE ~(committing \/ NoSpace)
  <2>1. pc' = [pc EXCEPT ![p] = "op"] /\ outstanding' = outstanding + 1
    BY <1>3, Zenon DEF begin_op
  <2>2. Ops' = Ops \cup {p} /\ p \notin Ops
    BY <1>1, <2>1 DEF Ops, TypeOK
  <2>3. TypeOK'
    BY <1>1, <2>1 DEF TypeOK
  <2>4. phase = "idle"
    BY <1>1, <1>3, Zenon DEF Quiet, Booting, TypeOK
  <2>5. outstanding' = Cardinality(Ops')
    BY <2>1, <2>2, OpsCount, Zenon DEF Quiet
  <2>6. Quiet'
    BY <1>1, <2>1, <2>4, <2>5, Zenon DEF Quiet, TypeOK
  <2>7. Lists' /\ Buffers' /\ Progress'
    BY <1>1 DEF Lists, NoRepeats, Buffers, Dirty, Booting, Clean, Progress
  <2> QED BY <2>3, <2>6, <2>7, Zenon
<1> QED BY <1>2, <1>3, Zenon

\* A system call changes a buffer it holds, while the log is idle.
LEMMA ModifyStep ==
  ASSUME LogAssumption, Recoverable, NEW p \in Procs, NEW b \in Blocks, NEW v \in Vals,
         Modify(p, b, v)
  PROVE  Recoverable'
<1> USE DEF Recoverable
<1>1. /\ pc[p] = "op" /\ holds[p] = NULL /\ \A q \in Procs : holds[q] # b
      /\ buf' = [buf EXCEPT ![b] = v] /\ holds' = [holds EXCEPT ![p] = b]
      /\ UNCHANGED <<home, dlog, dhead, pin, lh, outstanding, committing, phase, tail, pc, wrote, panicked>>
  BY Zenon DEF Modify, disk, log
<1>2. phase = "idle"
  BY <1>1, InCall, Zenon
<1>3. /\ buf'[b] = v /\ \A c \in Blocks : c # b => buf'[c] = buf[c]
      /\ holds'[p] = b /\ \A q \in Procs : q # p => holds'[q] = holds[q]
  BY <1>1, Zenon DEF TypeOK
<1>4. TypeOK'
  BY <1>1, Zenon DEF TypeOK
<1>5. Lists'
  BY <1>1, Zenon DEF Lists, NoRepeats
<1>6. Quiet'
  <2>1. Ops' = Ops
    BY <1>1, Zenon DEF Ops
  <2> QED BY <1>1, <1>3, <2>1, Zenon DEF Quiet
<1>7. Buffers'
  <2>1. Dirty' = Dirty /\ v # NULL
    BY <1>1, Zenon DEF Dirty, Booting, LogAssumption
  <2> SUFFICES ASSUME NEW c \in Blocks
               PROVE  /\ pin'[c] = IF c \in Dirty' THEN 1 ELSE 0
                      /\ c \in Dirty' => buf'[c] # NULL
                      /\ c \notin Dirty' /\ (\A q \in Procs : holds'[q] # c) => Clean(c)'
                      /\ \A q \in Procs : holds'[q] = c => buf'[c] # NULL
    BY Zenon DEF Buffers
  <2>2. CASE c = b
    BY <1>1, <1>3, <2>1, <2>2, Zenon DEF Buffers, Clean
  <2>3. CASE c # b
    BY <1>1, <1>3, <2>1, <2>3 DEF Buffers, Clean, LogAssumption
  <2> QED BY <2>2, <2>3, Zenon
<1>8. Progress'
  BY <1>1, <1>2, Zenon DEF Progress
<1> QED BY <1>4, <1>5, <1>6, <1>7, <1>8, Zenon

\* log_write adds the block to the transaction and pins it, once.
LEMMA LogWriteStep ==
  ASSUME LogAssumption, Recoverable, NEW p \in Procs, log_write(p)
  PROVE  Recoverable'
<1> USE DEF Recoverable
<1> DEFINE b == holds[p]
<1>1. /\ b \in Blocks /\ pc[p] = "op"
      /\ UNCHANGED <<home, dlog, dhead, buf, outstanding, committing, phase, tail, pc>>
  BY Zenon DEF log_write, disk, TypeOK, Quiet
<1>2. phase = "idle" /\ tail = 0
  BY <1>1, InCall, Zenon DEF Progress
<1>3. Ops' = Ops
  BY <1>1, Zenon DEF Ops
<1>4. CASE Len(lh) >= LOGBLOCKS \/ outstanding < 1
  <2>1. panicked' = TRUE /\ UNCHANGED <<lh, pin, wrote, holds>>
    BY <1>4, Zenon DEF log_write
  <2>2. TypeOK'
    BY <1>1, <2>1, Zenon DEF TypeOK
  <2>3. Lists' /\ Quiet'
    BY <1>1, <1>3, <2>1, Zenon DEF Lists, NoRepeats, Quiet
  <2>4. Buffers' /\ Progress'
    BY <1>1, <2>1 DEF Buffers, Dirty, Booting, Clean, Progress
  <2> QED BY <2>2, <2>3, <2>4, Zenon
<1>5. CASE ~(Len(lh) >= LOGBLOCKS \/ outstanding < 1)
  <2>1. /\ Record(b) /\ UNCHANGED panicked
        /\ wrote' = [wrote EXCEPT ![p] = @ \cup {b}] /\ holds' = [holds EXCEPT ![p] = NULL]
    BY <1>5, Zenon DEF log_write
  <2> HIDE DEF b
  <2>2. /\ holds'[p] = NULL /\ \A q \in Procs : q # p => holds'[q] = holds[q]
        /\ holds' \in [Procs -> Blocks \cup {NULL}] /\ wrote' \in [Procs -> SUBSET Blocks]
    BY <1>1, <2>1, Zenon DEF TypeOK
  <2>3. Quiet'
    BY <1>1, <1>3, <2>2, Zenon DEF Quiet
  <2>4. b = holds[p] /\ b \in Blocks
    BY <1>1, Zenon DEF b
  <2>5. CASE b \in ElemsOf(lh)
    <3>1. UNCHANGED <<lh, pin>>
      BY <2>1, <2>5, Zenon DEF Record
    <3>2. Dirty' = Dirty /\ b \in Dirty
      <4>1. PICK i \in 1..Len(lh) : lh[i] = b
        BY ONLY <2>5 DEF ElemsOf, TypeOK
      <4>2. b \in Dirty
        BY <1>2, <2>4, <4>1, Zenon DEF Dirty, Booting
      <4> QED BY <1>1, <3>1, <4>2, Zenon DEF Dirty, Booting
    <3>3. TypeOK'
      BY <1>1, <2>1, <2>2, <3>1, Zenon DEF TypeOK
    <3>4. Lists' /\ Progress'
      BY <1>1, <3>1 DEF Lists, NoRepeats, Progress
    <3>5. Buffers'
      BY <1>1, <2>2, <2>4, <3>1, <3>2 DEF Buffers, Clean
    <3> QED BY <2>3, <3>3, <3>4, <3>5, Zenon
  <2>6. CASE b \notin ElemsOf(lh)
    <3>1. lh' = Append(lh, b) /\ pin' = [pin EXCEPT ![b] = @ + 1]
      BY <2>1, <2>6, Zenon DEF Record
    <3>2. /\ lh' \in Seq(Blocks) /\ Len(lh') = Len(lh) + 1 /\ lh'[Len(lh) + 1] = b
          /\ \A i \in 1..Len(lh) : lh'[i] = lh[i] /\ lh[i] # b
      BY <2>4, <2>6, <3>1 DEF TypeOK, ElemsOf
    <3>3. Dirty' = Dirty \cup {b} /\ b \notin Dirty
      <4> Len(lh) \in Nat
        BY DEF TypeOK
      <4>1. \A c \in Blocks : c \in Dirty <=> \E i \in 1..Len(lh) : lh[i] = c
        BY <1>2, Zenon DEF Dirty, Booting
      <4>2. \A c \in Blocks : c \in Dirty' <=> \E i \in 1..(Len(lh) + 1) : lh'[i] = c
        BY <1>1, <1>2, <3>2, Zenon DEF Dirty, Booting
      <4>3. \A c \in Blocks : c \in Dirty' <=> c \in Dirty \/ c = b
        <5> SUFFICES ASSUME NEW c \in Blocks PROVE c \in Dirty' <=> c \in Dirty \/ c = b
          BY Zenon
        <5>1. \A i \in 1..(Len(lh) + 1) : i \in 1..Len(lh) \/ i = Len(lh) + 1
          OBVIOUS
        <5>2. Len(lh) + 1 \in 1..(Len(lh) + 1) /\ \A i \in 1..Len(lh) : i \in 1..(Len(lh) + 1)
          OBVIOUS
        <5> QED BY <3>2, <4>1, <4>2, <5>1, <5>2, Zenon
      <4>4. b \notin Dirty
        BY <2>4, <3>2, <4>1, Zenon
      <4>5. Dirty' \subseteq Blocks /\ Dirty \subseteq Blocks
        BY Zenon DEF Dirty
      <4> QED BY <2>4, <4>3, <4>4, <4>5, Zenon
    <3>4. /\ pin' \in [Blocks -> Nat] /\ pin'[b] = pin[b] + 1
          /\ \A c \in Blocks : c # b => pin'[c] = pin[c]
      BY <2>4, <3>1 DEF TypeOK
    <3>5. TypeOK'
      BY <1>1, <2>1, <2>2, <3>2, <3>4, Zenon DEF TypeOK
    <3>6. Lists'
      <4>1. Len(lh') <= LOGBLOCKS
        BY <1>5, <3>2 DEF TypeOK, LogAssumption
      <4>2. NoRepeats(lh')
        <5> SUFFICES ASSUME NEW i \in 1..Len(lh'), NEW j \in 1..Len(lh'), lh'[i] = lh'[j]
                     PROVE  i = j
          BY Zenon DEF NoRepeats
        <5>1. Len(lh) \in Nat /\ \A k \in 1..Len(lh') : k \in 1..Len(lh) \/ k = Len(lh) + 1
          BY ONLY <3>2 DEF TypeOK
        <5>2. i \in 1..Len(lh) /\ j \in 1..Len(lh) => lh[i] = lh[j]
          BY <3>2, Zenon
        <5> QED BY <3>2, <5>1, <5>2, Zenon DEF Lists, NoRepeats
      <4> QED BY <1>1, <1>2, <3>2, <4>1, <4>2 DEF Lists, TypeOK, NoRepeats
    <3>7. Progress'
      BY <1>1, <1>2, Zenon DEF Progress
    <3>8. Buffers'
      <4>1. pin[b] = 0
        BY <2>4, <3>3, Zenon DEF Buffers
      <4> SUFFICES ASSUME NEW c \in Blocks
                   PROVE  /\ pin'[c] = IF c \in Dirty' THEN 1 ELSE 0
                          /\ c \in Dirty' => buf'[c] # NULL
                          /\ c \notin Dirty' /\ (\A q \in Procs : holds'[q] # c) => Clean(c)'
                          /\ \A q \in Procs : holds'[q] = c => buf'[c] # NULL
        BY Zenon DEF Buffers
      <4>2. CASE c = b
        BY <1>1, <2>2, <2>4, <3>3, <3>4, <4>1, <4>2 DEF Buffers
      <4>3. CASE c # b
        BY <1>1, <2>2, <2>4, <3>3, <3>4, <4>3 DEF Buffers, Clean, LogAssumption
      <4> QED BY <4>2, <4>3, Zenon
    <3> QED BY <2>3, <3>5, <3>6, <3>7, <3>8, Zenon
  <2> QED BY <2>5, <2>6, Zenon
<1> QED BY <1>4, <1>5, Zenon

\* end_op of the last system call starts the commit.
LEMMA EndStep ==
  ASSUME LogAssumption, Recoverable, NEW p \in Procs, end_op(p)
  PROVE  Recoverable' /\ panicked' = FALSE
<1> USE DEF Recoverable
<1>1. /\ pc[p] = "op" /\ holds[p] = NULL /\ outstanding' = outstanding - 1
      /\ wrote' = [wrote EXCEPT ![p] = {}] /\ panicked' = committing
      /\ UNCHANGED <<home, dlog, dhead, buf, pin, lh, tail, holds>>
  BY Zenon DEF end_op, disk, cache
<1>2. outstanding >= 1 /\ phase = "idle" /\ committing = FALSE /\ ~Booting
  BY <1>1, InCall, Zenon
<1>3. panicked' = FALSE
  BY <1>1, <1>2, Zenon
<1>4. /\ pc' \in [Procs -> {"idle", "begin", "asleep", "op", "commit"}]
      /\ \A q \in Procs : pc'[q] = "op" <=> q # p /\ pc[q] = "op"
  BY <1>1, Zenon DEF end_op, wakeup, TypeOK
<1>5. Ops' = Ops \ {p} /\ p \in Ops
  BY <1>1, <1>4, Zenon DEF Ops
<1>6. outstanding' = Cardinality(Ops') /\ outstanding' \in Nat
  BY <1>1, <1>2, <1>5, OpsCount DEF Quiet, TypeOK
<1>7. CASE outstanding' = 0
  <2>1. committing' = TRUE /\ phase' = IF lh = <<>> THEN "done" ELSE "write_log"
    BY <1>7, Zenon DEF end_op
  <2>2. TypeOK'
    BY <1>1, <1>3, <1>4, <1>6, <2>1, Zenon DEF TypeOK
  <2>3. Quiet'
    BY <1>1, <1>4, <1>6, <1>7, <2>1, Zenon DEF Quiet
  <2>4. Lists'
    BY <1>1, Zenon DEF Lists, NoRepeats
  <2>5. tail = 0 /\ dhead = <<>>
    BY <1>2, Zenon DEF Progress
  <2>6. Progress'
    BY ONLY <1>1, <2>1, <2>5 DEF Progress
  <2>7. Dirty' = Dirty
    BY <1>1, <1>2, <2>1, Zenon DEF Dirty, Booting
  <2>8. Buffers'
    BY <1>1, <2>7, Zenon DEF Buffers, Clean
  <2> QED BY <1>3, <2>2, <2>3, <2>4, <2>6, <2>8, Zenon
<1>8. CASE outstanding' # 0
  <2>1. UNCHANGED <<committing, phase>>
    BY <1>8, Zenon DEF end_op
  <2>2. TypeOK'
    BY <1>1, <1>3, <1>4, <1>6, <2>1, Zenon DEF TypeOK
  <2>3. Quiet'
    BY <1>1, <1>2, <1>4, <1>6, <2>1, Zenon DEF Quiet
  <2>4. Lists' /\ Progress' /\ Buffers'
    BY <1>1, <2>1 DEF Lists, NoRepeats, Progress, Buffers, Dirty, Booting, Clean
  <2> QED BY <1>3, <2>2, <2>3, <2>4, Zenon
<1> QED BY <1>7, <1>8, Zenon

\* write_log copies the next block of the transaction to the log.
LEMMA WriteLogStep ==
  ASSUME LogAssumption, Recoverable, write_log
  PROVE  Recoverable'
<1> USE DEF Recoverable
<1> DEFINE t == tail + 1
<1>1. /\ phase = "write_log" /\ tail < Len(lh) /\ tail' = t
      /\ dlog' = [dlog EXCEPT ![t] = Read(lh[t])]
      /\ UNCHANGED <<home, dhead, buf, pin, lh, outstanding, committing, phase, pc, wrote, holds, panicked>>
  BY Zenon DEF write_log, cache, log
<1>2. t \in 1..Len(lh) /\ lh[t] \in Blocks /\ t \in 1..LOGBLOCKS /\ t \in Nat
  BY <1>1 DEF TypeOK, Lists, LogAssumption
<1> HIDE DEF t
<1>3. lh[t] \in Dirty
  BY <1>1, <1>2, Zenon DEF Dirty, Booting
<1>4. Read(lh[t]) = buf[lh[t]] /\ buf[lh[t]] \in Vals
  BY <1>2, <1>3, Zenon DEF Buffers, Read, TypeOK
<1>5. /\ dlog' \in [1..LOGBLOCKS -> Vals] /\ dlog'[t] = buf[lh[t]]
      /\ \A i \in 1..LOGBLOCKS : i # t => dlog'[i] = dlog[i]
  BY <1>1, <1>2, <1>4, Zenon DEF TypeOK
<1>6. TypeOK'
  BY <1>1, <1>2, <1>5, Zenon DEF TypeOK
<1>7. Lists'
  BY <1>1, <1>2 DEF Lists, NoRepeats
<1>8. Quiet'
  <2>1. Ops' = Ops
    BY <1>1, Zenon DEF Ops
  <2> QED BY <1>1, <2>1, Zenon DEF Quiet
<1>9. Buffers'
  <2>1. Dirty' = Dirty
    BY <1>1, Zenon DEF Dirty, Booting
  <2> QED BY <1>1, <2>1, Zenon DEF Buffers, Clean
<1>10. Progress'
  <2>1. ASSUME NEW i \in 1..tail' PROVE dlog'[i] = buf[lh[i]]
    <3>1. i \in 1..LOGBLOCKS /\ (i = t \/ i \in 1..tail)
      BY <1>1, <1>2 DEF t, TypeOK, Lists, LogAssumption
    <3> QED BY <1>1, <1>5, <3>1, Zenon DEF Progress
  <2> QED BY <1>1, <2>1 DEF Progress
<1> QED BY <1>6, <1>7, <1>8, <1>9, <1>10, Zenon

\* write_head commits: all blocks of the transaction are in the log.
LEMMA CommitHeadStep ==
  ASSUME LogAssumption, Recoverable, CommitHead
  PROVE  Recoverable'
<1> USE DEF Recoverable
<1>1. /\ phase = "write_log" /\ tail = Len(lh) /\ dhead' = lh /\ phase' = "install" /\ tail' = 0
      /\ UNCHANGED <<home, dlog, buf, pin, lh, outstanding, committing, pc, wrote, holds, panicked>>
  BY Zenon DEF CommitHead, cache, log
<1>2. TypeOK'
  BY <1>1, Zenon DEF TypeOK
<1>3. Lists'
  BY <1>1 DEF Lists, NoRepeats, TypeOK
<1>4. Quiet'
  <2>1. Ops' = Ops
    BY <1>1, Zenon DEF Ops
  <2> QED BY <1>1, <2>1, Zenon DEF Quiet
<1>5. Buffers'
  <2>1. Dirty' = Dirty
    BY ONLY <1>1 DEF Dirty, Booting
  <2> QED BY <1>1, <2>1, Zenon DEF Buffers, Clean
<1>6. Progress'
  BY <1>1 DEF Progress
<1> QED BY <1>2, <1>3, <1>4, <1>5, <1>6, Zenon

\* install_trans copies the next block home; a commit unpins its buffer.
LEMMA InstallStep ==
  ASSUME LogAssumption, Recoverable, install_trans
  PROVE  Recoverable'
<1> USE DEF Recoverable
<1> DEFINE t == tail + 1
           b == lh[t]
<1>1. /\ phase \in {"install", "recover"} /\ tail < Len(lh) /\ tail' = t
      /\ home' = [home EXCEPT ![b] = dlog[t]] /\ buf' = [buf EXCEPT ![b] = dlog[t]]
      /\ pin' = [pin EXCEPT ![b] = @ - Unpins]
      /\ UNCHANGED <<dlog, dhead, lh, outstanding, committing, phase, pc, wrote, holds, panicked>>
  BY Zenon DEF install_trans, log
<1>2. /\ t \in 1..Len(lh) /\ b \in Blocks /\ t \in 1..LOGBLOCKS /\ t \in Nat /\ lh = dhead
      /\ t = tail + 1 /\ b = lh[t] /\ dlog[t] \in Vals /\ dlog[t] # NULL
  <2>1. t \in 1..Len(lh) /\ t \in 1..LOGBLOCKS /\ t \in Nat
    BY <1>1 DEF TypeOK, Lists, LogAssumption
  <2>2. b \in Blocks /\ lh = dhead
    BY <1>1, <2>1 DEF TypeOK, Progress
  <2>3. dlog[t] \in Vals /\ dlog[t] # NULL
    BY <2>1 DEF TypeOK, LogAssumption
  <2> QED BY <2>1, <2>2, <2>3, Zenon
<1> HIDE DEF t, b
<1>3. /\ home' \in [Blocks -> Vals] /\ home'[b] = dlog[t]
      /\ \A c \in Blocks : c # b => home'[c] = home[c]
      /\ buf' \in [Blocks -> Vals \cup {NULL}] /\ buf'[b] = dlog[t]
      /\ \A c \in Blocks : c # b => buf'[c] = buf[c]
  BY <1>1, <1>2, Zenon DEF TypeOK
<1>4. \A p \in Procs : holds[p] = NULL
  <2>1. Ops = {}
    <3>1. outstanding = 0
      BY <1>1, Zenon DEF Quiet
    <3> QED BY <3>1, OpsCount, FS_EmptySet, Zenon DEF Quiet
  <2> QED BY <2>1, Zenon DEF Quiet, Ops
<1>5. \A i \in 1..Len(lh) : i # t => lh[i] # b /\ lh[i] \in Blocks
  BY <1>2 DEF Lists, NoRepeats, TypeOK
<1>6. Dirty' = Dirty \ {b} /\ (b \in Dirty <=> phase = "install")
  <2>1. CASE phase = "recover"
    BY <1>1, <2>1, Zenon DEF Dirty, Booting
  <2>2. CASE phase = "install"
    <3>1. b \in Dirty
      BY <1>2, <2>2 DEF Dirty, Booting, TypeOK
    <3>2. \A i \in 1..Len(lh) : i > t <=> i > tail /\ i # t
      BY <1>2 DEF TypeOK
    <3>3. \A c \in Blocks : c \in Dirty' <=> \E i \in 1..Len(lh) : lh[i] = c /\ i > t
      BY <1>1, <2>2, Zenon DEF Dirty, Booting
    <3>4. \A c \in Blocks : c \in Dirty <=> \E i \in 1..Len(lh) : lh[i] = c /\ i > tail
      BY <2>2, Zenon DEF Dirty, Booting
    <3>5. \A c \in Blocks : c \in Dirty' <=> c \in Dirty /\ c # b
      BY ONLY <1>2, <1>5, <3>2, <3>3, <3>4
    <3>6. Dirty' \subseteq Blocks /\ Dirty \subseteq Blocks
      BY Zenon DEF Dirty
    <3> QED BY <2>2, <3>1, <3>5, <3>6, Zenon
  <2> QED BY <1>1, <2>1, <2>2, Zenon
<1>7. /\ pin' \in [Blocks -> Nat] /\ pin'[b] = 0
      /\ \A c \in Blocks : c # b => pin'[c] = pin[c]
  <2>1. pin[b] = Unpins
    BY <1>1, <1>2, <1>6, Zenon DEF Buffers, Unpins
  <2> QED BY <1>1, <1>2, <2>1 DEF TypeOK, Unpins
<1>8. TypeOK'
  BY <1>1, <1>2, <1>3, <1>7, Zenon DEF TypeOK
<1>9. Lists'
  BY <1>1, <1>2 DEF Lists, NoRepeats
<1>10. Quiet'
  <2>1. Ops' = Ops
    BY <1>1, Zenon DEF Ops
  <2> QED BY <1>1, <2>1, Zenon DEF Quiet
<1>11. Buffers'
  <2> SUFFICES ASSUME NEW c \in Blocks
               PROVE  /\ pin'[c] = IF c \in Dirty' THEN 1 ELSE 0
                      /\ c \in Dirty' => buf'[c] # NULL
                      /\ c \notin Dirty' /\ (\A q \in Procs : holds'[q] # c) => Clean(c)'
                      /\ \A q \in Procs : holds'[q] = c => buf'[c] # NULL
    BY Zenon DEF Buffers
  <2>1. CASE c = b
    BY <1>1, <1>2, <1>3, <1>6, <1>7, <2>1, Zenon DEF Buffers, Clean
  <2>2. CASE c # b
    BY <1>1, <1>3, <1>6, <1>7, <2>2 DEF Buffers, Clean
  <2> QED BY <2>1, <2>2, Zenon
<1>12. Progress'
  <2>1. ASSUME NEW i \in 1..tail' PROVE home'[lh[i]] = dlog[i]
    <3>1. i \in 1..Len(lh) /\ (i = t \/ (i # t /\ i \in 1..tail))
      BY <1>1, <1>2 DEF TypeOK
    <3> QED BY <1>1, <1>2, <1>3, <1>5, <3>1 DEF Progress
  <2>2. ASSUME phase = "install", NEW i \in 1..Len(lh), i > tail' PROVE buf'[lh[i]] = dlog[i]
    <3>1. i # t /\ i > tail
      BY <1>1, <1>2, <2>2 DEF TypeOK
    <3> QED BY <1>3, <1>5, <2>2, <3>1, Zenon DEF Progress
  <2> QED BY ONLY <1>1, <1>2, <2>1, <2>2 DEF Progress
<1> QED BY <1>8, <1>9, <1>10, <1>11, <1>12, Zenon

\* The header is cleared once every block is at home.
LEMMA ClearHeadStep ==
  ASSUME LogAssumption, Recoverable, ClearHead
  PROVE  Recoverable'
<1> USE DEF Recoverable
<1>1. /\ phase \in {"install", "recover"} /\ tail = Len(lh) /\ lh' = <<>> /\ dhead' = <<>>
      /\ phase' = (IF phase = "install" THEN "done" ELSE "idle") /\ tail' = 0
      /\ UNCHANGED <<home, dlog, buf, pin, outstanding, committing, pc, wrote, holds, panicked>>
  BY Zenon DEF ClearHead, cache
<1>2. TypeOK'
  BY <1>1 DEF TypeOK
<1>3. Lists'
  BY <1>1 DEF Lists, NoRepeats, LogAssumption
<1>4. Quiet'
  <2>1. Ops' = Ops
    BY <1>1, Zenon DEF Ops
  <2>2. committing' <=> phase' \in {"write_log", "install", "done"}
    BY <1>1, Zenon DEF Quiet
  <2> QED BY <1>1, <2>1, <2>2, Zenon DEF Quiet
<1>5. Buffers'
  <2>1. Dirty' = {} /\ Dirty = {}
    BY ONLY <1>1 DEF Dirty, Booting, TypeOK
  <2> QED BY <1>1, <2>1, Zenon DEF Buffers, Clean
<1>6. Progress'
  BY <1>1, Zenon DEF Progress
<1> QED BY <1>2, <1>3, <1>4, <1>5, <1>6, Zenon

\* The end of a commit lets system calls in again.
LEMMA EndCommitStep ==
  ASSUME LogAssumption, Recoverable, NEW p \in Procs, EndCommit(p)
  PROVE  Recoverable'
<1> USE DEF Recoverable
<1>1. /\ pc[p] = "commit" /\ phase = "done" /\ phase' = "idle" /\ committing' = FALSE
      /\ UNCHANGED <<home, dlog, dhead, buf, pin, lh, outstanding, tail, wrote, holds, panicked>>
  BY Zenon DEF EndCommit, disk, cache
<1>2. /\ pc' \in [Procs -> {"idle", "begin", "asleep", "op", "commit"}]
      /\ \A q \in Procs : pc'[q] = "op" <=> pc[q] = "op"
  BY <1>1, Zenon DEF EndCommit, wakeup, TypeOK
<1>3. TypeOK'
  BY <1>1, <1>2, Zenon DEF TypeOK
<1>4. Lists'
  BY <1>1, Zenon DEF Lists, NoRepeats
<1>5. Quiet'
  <2>1. Ops' = Ops
    BY <1>2, Zenon DEF Ops
  <2> QED BY <1>1, <1>2, <2>1, Zenon DEF Quiet
<1>6. Buffers'
  <2>1. Dirty' = Dirty
    BY <1>1, Zenon DEF Dirty, Booting
  <2> QED BY <1>1, <2>1, Zenon DEF Buffers, Clean
<1>7. Progress'
  BY <1>1, Zenon DEF Progress
<1> QED BY <1>3, <1>4, <1>5, <1>6, <1>7, Zenon

\* The cache drops a buffer that is neither pinned nor held: it was clean.
LEMMA RecycleStep ==
  ASSUME LogAssumption, Recoverable, NEW b \in Blocks, Recycle(b)
  PROVE  Recoverable' /\ Clean(b) /\ b \notin Dirty
<1> USE DEF Recoverable
<1>1. /\ pin[b] = 0 /\ (\A p \in Procs : holds[p] # b) /\ buf' = [buf EXCEPT ![b] = NULL]
      /\ UNCHANGED <<home, dlog, dhead, pin, lh, outstanding, committing, phase, tail, pc, wrote, holds, panicked>>
  BY Zenon DEF Recycle, disk, log
<1>2. Clean(b) /\ b \notin Dirty
  BY <1>1 DEF Buffers
<1>3. buf'[b] = NULL /\ \A c \in Blocks : c # b => buf'[c] = buf[c]
  BY <1>1, Zenon DEF TypeOK
<1>4. TypeOK'
  BY <1>1, Zenon DEF TypeOK
<1>5. Lists'
  BY <1>1 DEF Lists, NoRepeats
<1>6. Quiet'
  <2>1. Ops' = Ops
    BY <1>1, Zenon DEF Ops
  <2> QED BY <1>1, <2>1, Zenon DEF Quiet
<1>7. Buffers'
  <2>1. Dirty' = Dirty
    BY <1>1, Zenon DEF Dirty, Booting
  <2> QED BY <1>1, <1>2, <1>3, <2>1, Zenon DEF Buffers, Clean
<1>8. Progress'
  <2>1. ASSUME phase \in {"install", "write_log"}, NEW i \in 1..Len(lh),
               phase = "install" => i > tail
        PROVE  buf'[lh[i]] = buf[lh[i]]
    <3>1. lh[i] \in Dirty
      BY <2>1 DEF Dirty, Booting, TypeOK
    <3> QED BY <1>2, <1>3, <3>1, Zenon DEF Dirty
  <2>2. \A i \in 1..tail : i \in 1..Len(lh)
    BY DEF TypeOK, Lists
  <2> QED BY <1>1, <2>1, <2>2 DEF Progress
<1> QED BY <1>2, <1>4, <1>5, <1>6, <1>7, <1>8, Zenon

\* A crash leaves the disk, and nothing else.
LEMMA CrashStep ==
  ASSUME LogAssumption, Recoverable, Crash
  PROVE  Recoverable'
<1> USE DEF Recoverable
<1>1. /\ buf' = [b \in Blocks |-> NULL] /\ pin' = [b \in Blocks |-> 0] /\ lh' = <<>>
      /\ outstanding' = 0 /\ committing' = FALSE /\ phase' = "read_head" /\ tail' = 0
      /\ pc' = [p \in Procs |-> "idle"] /\ wrote' = [p \in Procs |-> {}]
      /\ holds' = [p \in Procs |-> NULL] /\ panicked' = FALSE
      /\ UNCHANGED <<home, dlog, dhead>>
  BY Zenon DEF Crash, disk
<1>2. TypeOK'
  <2>1. /\ buf' \in [Blocks -> Vals \cup {NULL}] /\ pin' \in [Blocks -> Nat]
        /\ holds' \in [Procs -> Blocks \cup {NULL}]
    BY <1>1, Zenon
  <2>2. /\ pc' \in [Procs -> {"idle", "begin", "asleep", "op", "commit"}]
        /\ wrote' \in [Procs -> SUBSET Blocks]
    BY <1>1, Zenon
  <2>3. <<>> \in Seq(Blocks)
    OBVIOUS
  <2> QED BY <1>1, <2>1, <2>2, <2>3, Zenon DEF TypeOK
<1>3. Lists'
  BY <1>1 DEF Lists, NoRepeats, LogAssumption
<1>4. Quiet'
  <2>1. Ops' = {}
    BY <1>1, Zenon DEF Ops
  <2>2. outstanding' = Cardinality(Ops')
    BY <1>1, <2>1, FS_EmptySet, Zenon
  <2>3. \A p \in Procs : holds'[p] = NULL
    BY <1>1, Zenon
  <2> QED BY <1>1, <2>2, <2>3, Zenon DEF Quiet
<1>5. Buffers'
  <2>1. Dirty' = {}
    BY <1>1, Zenon DEF Dirty, Booting
  <2> QED BY <1>1, <2>1, Zenon DEF Buffers, Clean, LogAssumption
<1>6. Progress'
  BY <1>1, Zenon DEF Progress
<1> QED BY <1>2, <1>3, <1>4, <1>5, <1>6, Zenon

\* Recovery begins with the transaction found on disk.
LEMMA ReadHeadStep ==
  ASSUME LogAssumption, Recoverable, read_head
  PROVE  Recoverable'
<1> USE DEF Recoverable
<1>1. /\ phase = "read_head" /\ lh' = dhead /\ phase' = "recover"
      /\ UNCHANGED <<home, dlog, dhead, buf, pin, outstanding, committing, tail, pc, wrote, holds, panicked>>
  BY Zenon DEF read_head, disk, cache
<1>2. tail = 0
  BY <1>1, Zenon DEF Progress
<1>3. TypeOK'
  BY <1>1, Zenon DEF TypeOK
<1>4. Lists'
  BY <1>1, <1>2 DEF Lists, NoRepeats, TypeOK
<1>5. Quiet'
  <2>1. Ops' = Ops
    BY <1>1, Zenon DEF Ops
  <2> QED BY <1>1, <2>1, Zenon DEF Quiet
<1>6. Buffers'
  <2>1. Dirty' = Dirty
    BY <1>1, Zenon DEF Dirty, Booting
  <2> QED BY <1>1, <2>1, Zenon DEF Buffers, Clean
<1>7. Progress'
  BY ONLY <1>1, <1>2 DEF Progress
<1> QED BY <1>3, <1>4, <1>5, <1>6, <1>7, Zenon

\* Every step keeps the log recoverable.
LEMMA RecoverableStep ==
  ASSUME LogAssumption, Recoverable, [Next]_vars
  PROVE  Recoverable'
<1>1. CASE UNCHANGED vars
  <2>1. UNCHANGED <<home, dlog, dhead, buf, pin, lh, outstanding, committing, phase, tail, pc,
                    wrote, holds, panicked>>
    BY <1>1, Zenon DEF vars, disk, cache, log
  <2>2. TypeOK' /\ Lists'
    BY <2>1, Zenon DEF Recoverable, TypeOK, Lists, NoRepeats
  <2>3. Quiet' /\ Progress'
    BY <2>1, Zenon DEF Recoverable, Quiet, Ops, Progress
  <2>4. Buffers'
    <3>1. Dirty' = Dirty /\ \A b \in Blocks : Clean(b)' <=> Clean(b)
      BY <2>1, Zenon DEF Dirty, Booting, Clean
    <3> QED BY <2>1, <3>1, Zenon DEF Recoverable, Buffers
  <2> QED BY <2>2, <2>3, <2>4, Zenon DEF Recoverable
<1>2. CASE Next
  BY <1>2, BeginStep, ModifyStep, LogWriteStep, EndStep, WriteLogStep, CommitHeadStep, InstallStep,
     ClearHeadStep, EndCommitStep, RecycleStep, CrashStep, ReadHeadStep, Zenon
     DEF Next, SysCall, Commit
<1> QED BY <1>1, <1>2, Zenon

-----------------------------------------------------------------------------
(* The log has room.                                                       *)

\* The log slots reserved by begin_op that the calls in progress have not used:
\* call p may use slot <<p, k>> for the k-th distinct block it logs.
Left == {s \in Ops \X (1..MAXOPBLOCKS) : s[2] > Cardinality(wrote[s[1]])}

\* The transaction and the unused reservations fit the log, every call stays
\* within its limit, and the blocks it has logged are in the transaction.
Room ==
  /\ ~panicked
  /\ Len(lh) + Cardinality(Left) <= LOGBLOCKS
  /\ \A p \in Procs :
       /\ IsFiniteSet(wrote[p]) /\ Cardinality(wrote[p]) <= OpBlocks
       /\ wrote[p] \subseteq ElemsOf(lh)
       /\ pc[p] # "op" => wrote[p] = {}
       /\ holds[p] # NULL => Cardinality(wrote[p] \cup {holds[p]}) <= OpBlocks

\* There are finitely many unused slots, no more than were reserved.
LEMMA LeftFinite ==
  ASSUME LogAssumption, TypeOK
  PROVE  /\ IsFiniteSet(Left) /\ Cardinality(Left) \in Nat
         /\ Cardinality(Left) <= Cardinality(Ops) * MAXOPBLOCKS
<1>1. IsFiniteSet(Ops) /\ Cardinality(Ops) \in Nat
  BY OpsCount, Zenon
<1>2. MAXOPBLOCKS \in Nat
  BY Zenon DEF LogAssumption
<1>3. IsFiniteSet(1..MAXOPBLOCKS) /\ Cardinality(1..MAXOPBLOCKS) = MAXOPBLOCKS
  BY ONLY <1>2, FS_Interval
<1>4. /\ IsFiniteSet(Ops \X (1..MAXOPBLOCKS))
      /\ Cardinality(Ops \X (1..MAXOPBLOCKS)) = Cardinality(Ops) * MAXOPBLOCKS
  BY <1>1, <1>3, FS_Product, Zenon
<1>5. Left \in SUBSET (Ops \X (1..MAXOPBLOCKS))
  BY Zenon DEF Left
<1>6. IsFiniteSet(Left) /\ Cardinality(Left) <= Cardinality(Ops \X (1..MAXOPBLOCKS))
  BY <1>4, <1>5, FS_Subset, Zenon
<1> QED BY <1>4, <1>6, FS_CardinalityType, Zenon

\* The same, as a step leaves it.
LEMMA LeftNextFinite ==
  ASSUME LogAssumption, TypeOK'
  PROVE  /\ IsFiniteSet(Left') /\ Cardinality(Left') \in Nat
         /\ Cardinality(Left') <= Cardinality(Ops') * MAXOPBLOCKS
<1>1. IsFiniteSet(Ops')
  BY FS_Subset, Zenon DEF LogAssumption, Ops
<1>2. MAXOPBLOCKS \in Nat
  BY Zenon DEF LogAssumption
<1>3. IsFiniteSet(1..MAXOPBLOCKS) /\ Cardinality(1..MAXOPBLOCKS) = MAXOPBLOCKS
  BY ONLY <1>2, FS_Interval
<1>4. /\ IsFiniteSet(Ops' \X (1..MAXOPBLOCKS))
      /\ Cardinality(Ops' \X (1..MAXOPBLOCKS)) = Cardinality(Ops') * MAXOPBLOCKS
  BY <1>1, <1>3, FS_Product, Zenon
<1>5. Left' \in SUBSET (Ops' \X (1..MAXOPBLOCKS))
  BY Zenon DEF Left
<1>6. IsFiniteSet(Left') /\ Cardinality(Left') <= Cardinality(Ops' \X (1..MAXOPBLOCKS))
  BY <1>4, <1>5, FS_Subset, Zenon
<1> QED BY <1>4, <1>6, FS_CardinalityType, Zenon

\* The invariant once nobody is in a system call: nothing is reserved.
LEMMA RoomWhenQuiet ==
  ASSUME LogAssumption, Recoverable', outstanding' = 0, ~panicked',
         \A p \in Procs : wrote'[p] = {} /\ holds'[p] = NULL
  PROVE  Room'
<1>1. Cardinality(Ops') = 0
  BY Zenon DEF Recoverable, Quiet
<1>2. Cardinality(Left') = 0
  <2>1. Cardinality(Left') \in Nat /\ Cardinality(Left') <= 0 * MAXOPBLOCKS
    BY <1>1, LeftNextFinite, Zenon DEF Recoverable
  <2> QED BY <2>1 DEF LogAssumption
<1>3. Len(lh') + Cardinality(Left') <= LOGBLOCKS
  <2>1. lh' \in Seq(Blocks) /\ Len(lh') <= LOGBLOCKS
    BY Zenon DEF Recoverable, TypeOK, Lists
  <2>2. Len(lh') \in Nat
    BY ONLY <2>1
  <2> QED BY ONLY <1>2, <2>1, <2>2
<1>4. IsFiniteSet({}) /\ Cardinality({}) = 0
  BY FS_EmptySet, Zenon
<1>5. \A p \in Procs :
        /\ IsFiniteSet(wrote'[p]) /\ Cardinality(wrote'[p]) <= OpBlocks
        /\ wrote'[p] \subseteq ElemsOf(lh)' /\ wrote'[p] = {} /\ holds'[p] = NULL
  BY <1>4 DEF LogAssumption
<1> QED BY <1>3, <1>5, Zenon DEF Room

\* A call has a slot left until it has logged as many blocks as it may.
LEMMA SlotLeft ==
  ASSUME LogAssumption, Recoverable, Room, NEW p \in Procs, holds[p] # NULL
  PROVE  /\ Len(lh) < LOGBLOCKS /\ outstanding >= 1 /\ pc[p] = "op"
         /\ holds[p] \in Blocks
<1>1. pc[p] = "op" /\ holds[p] \in Blocks
  BY Zenon DEF Recoverable, Quiet, TypeOK
<1>2. outstanding >= 1
  BY <1>1, InCall, Zenon
<1>3. Cardinality(wrote[p]) \in Nat /\ Cardinality(wrote[p]) <= OpBlocks
  BY FS_CardinalityType, Zenon DEF Room
<1>4. <<p, MAXOPBLOCKS>> \in Left
  <2>1. p \in Ops
    BY <1>1, Zenon DEF Ops
  <2>2. MAXOPBLOCKS \in 1..MAXOPBLOCKS /\ MAXOPBLOCKS > Cardinality(wrote[p])
    BY <1>3, Sizes
  <2> QED BY <2>1, <2>2, Zenon DEF Left
<1>5. Cardinality(Left) \in Nat /\ Cardinality(Left) # 0
  BY <1>4, LeftFinite, FS_EmptySet, Zenon DEF Recoverable
<1>6. Len(lh) \in Nat /\ LOGBLOCKS \in Nat
  BY DEF Recoverable, TypeOK, LogAssumption
<1> QED BY <1>1, <1>2, <1>5, <1>6 DEF Room

\* begin_op reserves slots only when they fit beside all those reserved.
LEMMA RoomBegin ==
  ASSUME LogAssumption, Recoverable, Recoverable', Room, NEW p \in Procs, begin_op(p)
  PROVE  Room'
<1>1. UNCHANGED <<lh, wrote, holds, panicked>>
  BY Zenon DEF begin_op
<1>2. CASE committing \/ NoSpace
  <2>1. Ops' = Ops /\ \A q \in Procs : pc'[q] # "op" => pc[q] # "op"
    BY <1>2 DEF begin_op, Ops, Recoverable, TypeOK
  <2>2. Left' = Left
    BY <1>1, <2>1, Zenon DEF Left
  <2> QED BY <1>1, <2>1, <2>2 DEF Room, ElemsOf
<1>3. CASE ~(committing \/ NoSpace)
  <2>1. outstanding' = outstanding + 1 /\ pc' = [pc EXCEPT ![p] = "op"]
    BY <1>3, Zenon DEF begin_op
  <2>2. Cardinality(Left') \in Nat /\ Cardinality(Left') <= outstanding' * MAXOPBLOCKS
    BY LeftNextFinite, Zenon DEF Recoverable, Quiet
  <2>3. Len(lh) + (outstanding + 1) * MAXOPBLOCKS <= LOGBLOCKS
    <3>1. (outstanding + 1) * MAXOPBLOCKS \in Nat /\ Len(lh) \in Nat /\ LOGBLOCKS \in Nat
      <4>1. outstanding \in Nat /\ TypeOK
        BY Zenon DEF Recoverable, TypeOK
      <4> QED BY <4>1, Listed, Sizes
    <3>2. ~(Len(lh) + (outstanding + 1) * MAXOPBLOCKS > LOGBLOCKS)
      BY <1>3, Zenon DEF NoSpace
    <3> HIDE DEF NoSpace
    <3> QED BY ONLY <3>1, <3>2
  <2>4. Len(lh') + Cardinality(Left') <= LOGBLOCKS
    <3>1. (outstanding + 1) * MAXOPBLOCKS \in Nat /\ Len(lh) \in Nat /\ LOGBLOCKS \in Nat
      <4>1. outstanding \in Nat /\ TypeOK
        BY Zenon DEF Recoverable, TypeOK
      <4> QED BY <4>1, Listed, Sizes
    <3> DEFINE r == (outstanding + 1) * MAXOPBLOCKS
    <3>2. Cardinality(Left') <= r /\ Len(lh) + r <= LOGBLOCKS /\ r \in Nat
      BY <2>1, <2>2, <2>3, <3>1, Zenon
    <3> HIDE DEF r
    <3> QED BY ONLY <1>1, <2>2, <3>1, <3>2
  <2>5. \A q \in Procs : pc'[q] # "op" => pc[q] # "op"
    BY <2>1, Zenon DEF Recoverable, TypeOK
  <2> QED BY <1>1, <2>4, <2>5 DEF Room, ElemsOf
<1> QED BY <1>2, <1>3, Zenon

\* log_write uses up a slot for a block that is new to the transaction.
LEMMA RoomLogWrite ==
  ASSUME LogAssumption, Recoverable, Recoverable', Room, NEW p \in Procs, log_write(p)
  PROVE  Room'
<1> DEFINE b == holds[p]
           n == Cardinality(wrote[p])
<1>1. b # NULL
  BY Zenon DEF log_write
<1>2. Len(lh) < LOGBLOCKS /\ outstanding >= 1 /\ pc[p] = "op" /\ b \in Blocks
  BY <1>1, SlotLeft, Zenon
<1>3. /\ Record(b) /\ wrote' = [wrote EXCEPT ![p] = @ \cup {b}]
      /\ holds' = [holds EXCEPT ![p] = NULL] /\ UNCHANGED <<panicked, pc>>
  <2>1. TypeOK /\ outstanding \in Nat
    BY Zenon DEF Recoverable, TypeOK
  <2>2. ~(Len(lh) >= LOGBLOCKS \/ outstanding < 1)
    BY <1>2, <2>1, Listed, Sizes
  <2> QED BY <2>2, Zenon DEF log_write
<1>4. /\ IsFiniteSet(wrote[p] \cup {b}) /\ n \in Nat /\ n <= OpBlocks
      /\ Cardinality(wrote[p] \cup {b}) = (IF b \in wrote[p] THEN n ELSE n + 1)
      /\ Cardinality(wrote[p] \cup {b}) <= OpBlocks
  BY <1>1, FS_AddElement, FS_CardinalityType, Zenon DEF Room
<1>5. wrote \in [Procs -> SUBSET Blocks] /\ holds \in [Procs -> Blocks \cup {NULL}]
      /\ lh \in Seq(Blocks) /\ DOMAIN lh = 1..Len(lh) /\ Len(lh) \in Nat /\ LOGBLOCKS \in Nat
  <2>1. /\ TypeOK /\ wrote \in [Procs -> SUBSET Blocks]
        /\ holds \in [Procs -> Blocks \cup {NULL}]
    BY Zenon DEF Recoverable, TypeOK
  <2> QED BY <2>1, Listed, Sizes, Zenon
<1>6. /\ ElemsOf(lh') = ElemsOf(lh) \cup {b}
      /\ Len(lh') = (IF b \in ElemsOf(lh) THEN Len(lh) ELSE Len(lh) + 1)
  <2>1. CASE b \in ElemsOf(lh)
    BY <1>3, <2>1, Zenon DEF Record, ElemsOf
  <2>2. CASE b \notin ElemsOf(lh)
    <3>1. lh' = Append(lh, b)
      BY <1>3, <2>2, Zenon DEF Record
    <3>2. /\ Len(lh') = Len(lh) + 1 /\ DOMAIN lh' = 1..(Len(lh) + 1)
          /\ lh'[Len(lh) + 1] = b /\ \A i \in 1..Len(lh) : lh'[i] = lh[i]
      <4>1. lh \in Seq(Blocks) /\ b \in Blocks
        BY <1>2, <1>5, Zenon
      <4> HIDE DEF b
      <4> QED BY ONLY <3>1, <4>1
    <3>3. /\ \A i \in 1..Len(lh) : i \in 1..(Len(lh) + 1)
          /\ Len(lh) + 1 \in 1..(Len(lh) + 1)
          /\ \A i \in 1..(Len(lh) + 1) : i \in 1..Len(lh) \/ i = Len(lh) + 1
      BY ONLY <1>5
    <3>4. ElemsOf(lh') \subseteq ElemsOf(lh) \cup {b}
      BY <1>5, <3>2, <3>3, Zenon DEF ElemsOf
    <3>5. ElemsOf(lh) \subseteq ElemsOf(lh')
      BY <1>5, <3>2, <3>3, Zenon DEF ElemsOf
    <3>6. b \in ElemsOf(lh')
      BY <3>2, <3>3, Zenon DEF ElemsOf
    <3> QED BY <2>2, <3>2, <3>4, <3>5, <3>6, Zenon
  <2> QED BY <2>1, <2>2, Zenon
<1>7. /\ Cardinality(Left) \in Nat /\ IsFiniteSet(Left) /\ Cardinality(Left') \in Nat
      /\ Ops' = Ops
  BY <1>3, LeftFinite, LeftNextFinite, Zenon DEF Recoverable, Ops
<1>8. \A q \in Procs : q # p => wrote'[q] = wrote[q] /\ holds'[q] = holds[q]
  BY <1>3, <1>5, Zenon
<1>9. wrote'[p] = wrote[p] \cup {b} /\ holds'[p] = NULL
  BY <1>3, <1>5, Zenon
<1> HIDE DEF b, n
<1>10. Left' \subseteq Left
  <2> SUFFICES ASSUME NEW q \in Ops, NEW k \in 1..MAXOPBLOCKS, k > Cardinality(wrote'[q])
               PROVE  k > Cardinality(wrote[q])
    BY <1>7, Zenon DEF Left
  <2>1. CASE q = p
    <3>1. Cardinality(wrote'[q]) \in Nat /\ Cardinality(wrote[q]) <= Cardinality(wrote'[q])
      <4>1. wrote'[q] = wrote[p] \cup {b} /\ n = Cardinality(wrote[q])
        BY <1>9, <2>1, Zenon DEF n
      <4>2. CASE b \in wrote[p]
        BY ONLY <1>4, <4>1, <4>2
      <4>3. CASE b \notin wrote[p]
        BY ONLY <1>4, <4>1, <4>3
      <4> QED BY <4>2, <4>3, Zenon
    <3>2. Cardinality(wrote[q]) \in Nat
      BY <1>4, <2>1, Zenon DEF n
    <3> QED BY <3>1, <3>2, Sizes
  <2>2. CASE q # p
    BY <1>8, <2>2, Zenon DEF Ops
  <2> QED BY <2>1, <2>2, Zenon
<1>11. Len(lh') + Cardinality(Left') <= LOGBLOCKS
  <2>1. CASE b \in ElemsOf(lh)
    <3>1. Cardinality(Left') <= Cardinality(Left)
      BY <1>7, <1>10, FS_Subset, Zenon
    <3>2. Len(lh) + Cardinality(Left) <= LOGBLOCKS /\ Len(lh') = Len(lh)
      BY <1>6, <2>1, Zenon DEF Room
    <3> QED BY ONLY <1>5, <1>7, <3>1, <3>2
  <2>2. CASE b \notin ElemsOf(lh)
    <3>1. b \notin wrote[p]
      BY <2>2, Zenon DEF Room
    <3>2. n + 1 <= OpBlocks /\ Cardinality(wrote'[p]) = n + 1
      BY <1>4, <1>9, <3>1, Zenon
    <3>3. <<p, n + 1>> \in Left
      <4>1. p \in Ops
        BY <1>2, Zenon DEF Ops
      <4>2. n + 1 \in 1..MAXOPBLOCKS /\ n + 1 > Cardinality(wrote[p])
        <5>1. n \in Nat /\ n + 1 <= OpBlocks /\ n = Cardinality(wrote[p])
          BY <1>4, <3>2, Zenon DEF n
        <5> HIDE DEF n
        <5> QED BY <5>1, Sizes
      <4> QED BY <4>1, <4>2, Zenon DEF Left
    <3>4. <<p, n + 1>> \notin Left'
      <4>1. ~(n + 1 > Cardinality(wrote'[p]))
        BY ONLY <1>4, <3>2
      <4> QED BY <4>1, Zenon DEF Left
    <3>5. Left' \subseteq Left \ {<<p, n + 1>>}
      BY <1>10, <3>4, Zenon
    <3>6. /\ IsFiniteSet(Left \ {<<p, n + 1>>})
          /\ Cardinality(Left \ {<<p, n + 1>>}) = Cardinality(Left) - 1
      BY <1>7, <3>3, FS_RemoveElement, Zenon
    <3>7. Cardinality(Left') <= Cardinality(Left) - 1
      BY ONLY <3>5, <3>6, FS_Subset
    <3>8. Len(lh) + Cardinality(Left) <= LOGBLOCKS /\ Len(lh') = Len(lh) + 1
      BY <1>6, <2>2, Zenon DEF Room
    <3> QED BY ONLY <1>5, <1>7, <3>7, <3>8
  <2> QED BY <2>1, <2>2, Zenon
<1>12. ASSUME NEW q \in Procs
       PROVE  /\ IsFiniteSet(wrote'[q]) /\ Cardinality(wrote'[q]) <= OpBlocks
              /\ wrote'[q] \subseteq ElemsOf(lh')
              /\ pc'[q] # "op" => wrote'[q] = {}
              /\ holds'[q] # NULL => Cardinality(wrote'[q] \cup {holds'[q]}) <= OpBlocks
  <2>1. CASE q = p
    BY <1>2, <1>3, <1>4, <1>6, <1>9, <2>1, Zenon DEF Room
  <2>2. CASE q # p
    BY <1>3, <1>6, <1>8, <2>2, Zenon DEF Room
  <2> QED BY <2>1, <2>2, Zenon
<1> QED BY <1>3, <1>11, <1>12, Zenon DEF Room, ElemsOf

\* end_op gives back the slots of its call.
LEMMA RoomEnd ==
  ASSUME LogAssumption, Recoverable, Recoverable', Room, NEW p \in Procs, end_op(p)
  PROVE  Room'
<1>1. /\ pc[p] = "op" /\ holds[p] = NULL /\ wrote' = [wrote EXCEPT ![p] = {}]
      /\ panicked' = committing /\ UNCHANGED <<lh, holds>>
  BY Zenon DEF end_op
<1>2. \A q \in Procs : pc'[q] = "op" <=> q # p /\ pc[q] = "op"
  <2>1. \/ pc' = [pc EXCEPT ![p] = "commit"]
        \/ pc' = [wakeup EXCEPT ![p] = "idle"]
    BY Zenon DEF end_op
  <2>2. /\ pc \in [Procs -> {"idle", "begin", "asleep", "op", "commit"}]
        /\ wakeup = [q \in Procs |-> IF pc[q] = "asleep" THEN "begin" ELSE pc[q]]
    BY Zenon DEF Recoverable, TypeOK, wakeup
  <2> QED BY <2>1, <2>2, Zenon
<1>3. ~panicked'
  BY <1>1, InCall, Zenon
<1>4. \A q \in Procs : wrote'[q] = IF q = p THEN {} ELSE wrote[q]
  BY <1>1, Zenon DEF Recoverable, TypeOK
<1>5. Left' \subseteq Left
  <2>1. ASSUME NEW q \in Ops' PROVE q \in Ops /\ wrote'[q] = wrote[q]
    BY <1>2, <1>4, <2>1, Zenon DEF Ops
  <2> QED BY <2>1, Zenon DEF Left
<1>6. /\ Cardinality(Left) \in Nat /\ IsFiniteSet(Left) /\ Cardinality(Left') \in Nat
      /\ Len(lh) \in Nat /\ LOGBLOCKS \in Nat
  <2>1. TypeOK /\ TypeOK'
    BY Zenon DEF Recoverable
  <2> QED BY <2>1, LeftFinite, LeftNextFinite, Listed, Sizes, Zenon
<1>7. Cardinality(Left') <= Cardinality(Left)
  BY <1>5, <1>6, FS_Subset, Zenon
<1>8. Len(lh') + Cardinality(Left') <= LOGBLOCKS
  <2>1. Len(lh) + Cardinality(Left) <= LOGBLOCKS /\ lh' = lh
    BY <1>1, Zenon DEF Room
  <2> QED BY ONLY <1>6, <1>7, <2>1
<1>9. ASSUME NEW q \in Procs
      PROVE  /\ IsFiniteSet(wrote'[q]) /\ Cardinality(wrote'[q]) <= OpBlocks
             /\ wrote'[q] \subseteq ElemsOf(lh)
             /\ pc'[q] # "op" => wrote'[q] = {}
             /\ holds'[q] # NULL => Cardinality(wrote'[q] \cup {holds'[q]}) <= OpBlocks
  <2>1. CASE q = p
    <3>1. wrote'[q] = {} /\ holds'[q] = NULL
      BY <1>1, <1>4, <2>1, Zenon
    <3>2. IsFiniteSet({}) /\ Cardinality({}) = 0 /\ 0 <= OpBlocks
      BY FS_EmptySet, Sizes
    <3> QED BY <3>1, <3>2, Zenon
  <2>2. CASE q # p
    BY <1>1, <1>2, <1>4, <2>2, Zenon DEF Room
  <2> QED BY <2>1, <2>2, Zenon
<1>10. ElemsOf(lh)' = ElemsOf(lh)
  BY <1>1, Zenon DEF ElemsOf
<1> QED BY <1>3, <1>8, <1>9, <1>10, Zenon DEF Room

\* Modify keeps its call within its limit; nothing else touches reservations.
LEMMA RoomStep ==
  ASSUME LogAssumption, Recoverable, Room, [Next]_vars
  PROVE  Room'
<1>1. Recoverable'
  BY RecoverableStep, Zenon
<1>2. ASSUME UNCHANGED <<lh, pc, wrote, holds, panicked>> PROVE Room'
  <2>1. Left' = Left /\ ElemsOf(lh)' = ElemsOf(lh)
    BY <1>2, Zenon DEF Left, Ops, ElemsOf
  <2> QED BY <1>2, <2>1, Zenon DEF Room
<1>3. ASSUME NEW p \in Procs, NEW b \in Blocks, NEW v \in Vals, Modify(p, b, v) PROVE Room'
  <2>1. /\ Cardinality(wrote[p] \cup {b}) <= OpBlocks /\ holds' = [holds EXCEPT ![p] = b]
        /\ UNCHANGED <<lh, pc, wrote, panicked>>
    BY <1>3, Zenon DEF Modify, log
  <2>2. Left' = Left /\ ElemsOf(lh)' = ElemsOf(lh)
    BY <2>1, Zenon DEF Left, Ops, ElemsOf
  <2>3. \A q \in Procs : holds'[q] = IF q = p THEN b ELSE holds[q]
    BY <2>1, Zenon DEF Recoverable, TypeOK
  <2> QED BY <2>1, <2>2, <2>3, Zenon DEF Room
<1>4. ASSUME NEW p \in Procs, EndCommit(p) PROVE Room'
  <2>1. pc[p] = "commit" /\ pc' = [wakeup EXCEPT ![p] = "idle"]
        /\ UNCHANGED <<lh, wrote, holds, panicked>>
    BY <1>4, Zenon DEF EndCommit
  <2>2. \A q \in Procs : pc'[q] = "op" <=> pc[q] = "op"
    <3>1. /\ pc \in [Procs -> {"idle", "begin", "asleep", "op", "commit"}]
          /\ wakeup = [q \in Procs |-> IF pc[q] = "asleep" THEN "begin" ELSE pc[q]]
      BY Zenon DEF Recoverable, TypeOK, wakeup
    <3> QED BY <2>1, <3>1, Zenon
  <2>3. Left' = Left /\ ElemsOf(lh)' = ElemsOf(lh)
    BY <2>1, <2>2, Zenon DEF Left, Ops, ElemsOf
  <2> QED BY <2>1, <2>2, <2>3, Zenon DEF Room
<1>5. ASSUME ClearHead \/ read_head PROVE Room'
  <2>1. phase # "idle" /\ UNCHANGED <<outstanding, pc, wrote, holds, panicked>>
    BY <1>5, Zenon DEF ClearHead, read_head
  <2>2. outstanding = 0 /\ Ops = {}
    BY <2>1, OpsCount, FS_EmptySet, Zenon DEF Recoverable, Quiet
  <2>3. \A p \in Procs : wrote[p] = {} /\ holds[p] = NULL
    BY <2>2, Zenon DEF Room, Ops, Recoverable, Quiet
  <2> QED BY <1>1, <2>1, <2>2, <2>3, RoomWhenQuiet, Zenon DEF Room
<1>6. ASSUME Crash PROVE Room'
  BY <1>1, <1>6, RoomWhenQuiet, Zenon DEF Crash
<1>7. ASSUME Commit PROVE Room'
  BY <1>2, <1>5, <1>7, Zenon DEF Commit, write_log, CommitHead, install_trans, log
<1>8. ASSUME NEW b \in Blocks, Recycle(b) PROVE Room'
  BY <1>2, <1>8, Zenon DEF Recycle, log
<1>9. ASSUME UNCHANGED vars PROVE Room'
  BY <1>2, <1>9, Zenon DEF vars, log
<1> QED BY <1>1, <1>3, <1>4, <1>6, <1>7, <1>8, <1>9, RoomBegin, RoomLogWrite, RoomEnd, Zenon
        DEF Next, SysCall

\* A logged block appears once in the transaction, so that its one pin is the
\* one install_trans drops.
LEMMA RoomImplies ==
  ASSUME LogAssumption, Recoverable, Room
  PROVE  LogHasRoom
<1>1. ASSUME ~Booting, NEW b \in Blocks
      PROVE  pin[b] = Cardinality({i \in DOMAIN lh : lh[i] = b /\ (phase = "install" => i > tail)})
  <2> DEFINE S == {i \in DOMAIN lh : lh[i] = b /\ (phase = "install" => i > tail)}
  <2>1. DOMAIN lh = 1..Len(lh)
    BY DEF Recoverable, TypeOK
  <2>2. CASE b \in Dirty
    <3>1. PICK i \in 1..Len(lh) : lh[i] = b /\ (phase = "install" => i > tail)
      BY <2>2, Zenon DEF Dirty
    <3>2. S = {i}
      BY <2>1, <3>1, Zenon DEF Recoverable, Lists, NoRepeats
    <3>3. pin[b] = 1
      BY <2>2, Zenon DEF Recoverable, Buffers
    <3> QED BY <3>2, <3>3, FS_Singleton, Zenon
  <2>3. CASE b \notin Dirty
    <3>1. S = {}
      BY <1>1, <2>1, <2>3, Zenon DEF Dirty
    <3>2. pin[b] = 0
      BY <2>3, Zenon DEF Recoverable, Buffers
    <3> QED BY <3>1, <3>2, FS_EmptySet, Zenon
  <2> QED BY <2>2, <2>3, Zenon
<1> QED BY <1>1, Zenon DEF LogHasRoom, Room

\* For any number of processes and any sizes, log_write and end_op never panic
\* and every logged block is pinned exactly until it is installed.
THEOREM LogNeverFull ==
  ASSUME LogAssumption
  PROVE  Spec => []LogHasRoom
<1>1. Init => Recoverable /\ Room
  <2> SUFFICES ASSUME Init PROVE Recoverable /\ Room
    BY Zenon
  <2>1. Recoverable
    BY RecoverableInit, Zenon
  <2>2. Cardinality(Ops) = 0 /\ outstanding = 0
    BY <2>1, Zenon DEF Recoverable, Quiet, Init
  <2>3. Cardinality(Left) = 0
    <3>1. Cardinality(Left) \in Nat /\ Cardinality(Left) <= 0 * MAXOPBLOCKS
      BY <2>1, <2>2, LeftFinite, Zenon DEF Recoverable
    <3> QED BY <3>1 DEF LogAssumption
  <2>4. \A p \in Procs : wrote[p] = {} /\ holds[p] = NULL
    BY Zenon DEF Init
  <2>5. Len(lh) = 0 /\ ~panicked /\ IsFiniteSet({}) /\ Cardinality({}) = 0
    BY FS_EmptySet, Zenon DEF Init
  <2>6. 0 <= OpBlocks /\ 0 + 0 <= LOGBLOCKS
    BY DEF LogAssumption
  <2> QED BY <2>1, <2>3, <2>4, <2>5, <2>6, Zenon DEF Room
<1>2. Recoverable /\ Room /\ [Next]_vars => (Recoverable /\ Room)'
  BY RecoverableStep, RoomStep, Zenon
<1>3. Recoverable /\ Room => LogHasRoom
  BY RoomImplies, Zenon
<1> QED BY <1>1, <1>2, <1>3, PTL DEF Spec

-----------------------------------------------------------------------------
(* The log implements AtomicDisk.  The state between two steps of commit   *)
(* is mapped by what a reboot would make of the disk.                      *)

\* What a system call, or recovery, sees: the mem of AtomicDisk.
Mem == IF Booting THEN Recovered ELSE [b \in Blocks |-> Read(b)]

\* A step that AtomicDisk does not see.
Hidden == Mem' = Mem /\ Recovered' = Recovered /\ outstanding' = outstanding

\* The contents h names in the log l, over those at home in d.
Overlaid(h, l, d) ==
  [b \in Blocks |-> IF b \in ElemsOf(h) THEN l[CHOOSE i \in DOMAIN h : h[i] = b] ELSE d[b]]

\* The header decides for every block whether the log or home has it.
LEMMA OverlaidIs ==
  ASSUME LOGBLOCKS \in Nat, NEW h \in Seq(Blocks), NEW l \in [1..LOGBLOCKS -> Vals],
         NEW d \in [Blocks -> Vals], Len(h) <= LOGBLOCKS, NoRepeats(h)
  PROVE  /\ Overlaid(h, l, d) \in [Blocks -> Vals]
         /\ \A i \in 1..Len(h) : Overlaid(h, l, d)[h[i]] = l[i]
         /\ \A b \in Blocks : (\A i \in 1..Len(h) : h[i] # b) => Overlaid(h, l, d)[b] = d[b]
<1>1. DOMAIN h = 1..Len(h) /\ Len(h) \in Nat /\ \A i \in 1..Len(h) : h[i] \in Blocks
  OBVIOUS
<1>2. \A i \in 1..Len(h) : i \in 1..LOGBLOCKS
  BY <1>1
<1>3. ASSUME NEW b \in Blocks, NEW i \in 1..Len(h), h[i] = b
      PROVE  Overlaid(h, l, d)[b] = l[i]
  <2>1. b \in ElemsOf(h)
    BY <1>1, <1>3, Zenon DEF ElemsOf
  <2>2. (CHOOSE k \in DOMAIN h : h[k] = b) = i
    BY <1>1, <1>3, Zenon DEF NoRepeats
  <2> QED BY <2>1, <2>2, Zenon DEF Overlaid
<1>4. ASSUME NEW b \in Blocks, \A i \in 1..Len(h) : h[i] # b
      PROVE  Overlaid(h, l, d)[b] = d[b]
  <2>1. b \notin ElemsOf(h)
    BY <1>1, <1>4, Zenon DEF ElemsOf
  <2> QED BY <2>1, Zenon DEF Overlaid
<1>5. \A b \in Blocks : Overlaid(h, l, d)[b] \in Vals
  BY <1>2, <1>3, <1>4, Zenon
<1>6. Overlaid(h, l, d) \in [Blocks -> Vals]
  BY <1>5, Zenon DEF Overlaid
<1> QED BY <1>1, <1>3, <1>4, <1>6, Zenon

\* The same for the disk as it is, and
LEMMA RecoveredIs ==
  ASSUME LogAssumption, TypeOK, Lists
  PROVE  /\ Recovered \in [Blocks -> Vals]
         /\ \A i \in 1..Len(dhead) : Recovered[dhead[i]] = dlog[i]
         /\ \A b \in Blocks : (\A i \in 1..Len(dhead) : dhead[i] # b) => Recovered[b] = home[b]
<1>1. Recovered = Overlaid(dhead, dlog, home)
  BY Zenon DEF Recovered, Overlaid
<1>2. /\ dhead \in Seq(Blocks) /\ dlog \in [1..LOGBLOCKS -> Vals] /\ home \in [Blocks -> Vals]
      /\ Len(dhead) <= LOGBLOCKS /\ NoRepeats(dhead) /\ LOGBLOCKS \in Nat
  BY Zenon DEF LogAssumption, TypeOK, Lists
<1> QED BY ONLY <1>1, <1>2, OverlaidIs

\* as a step leaves it.
LEMMA RecoveredNextIs ==
  ASSUME LogAssumption, TypeOK', Lists'
  PROVE  /\ Recovered' \in [Blocks -> Vals]
         /\ \A i \in 1..Len(dhead') : Recovered'[dhead'[i]] = dlog'[i]
         /\ \A b \in Blocks : (\A i \in 1..Len(dhead') : dhead'[i] # b) => Recovered'[b] = home'[b]
<1>1. Recovered' = Overlaid(dhead', dlog', home')
  BY Zenon DEF Recovered, Overlaid, ElemsOf
<1>2. /\ dhead' \in Seq(Blocks) /\ dlog' \in [1..LOGBLOCKS -> Vals] /\ home' \in [Blocks -> Vals]
      /\ Len(dhead') <= LOGBLOCKS /\ NoRepeats(dhead') /\ LOGBLOCKS \in Nat
  BY Zenon DEF LogAssumption, TypeOK, Lists, NoRepeats
<1>3. /\ Overlaid(dhead', dlog', home') \in [Blocks -> Vals]
      /\ \A i \in 1..Len(dhead') : Overlaid(dhead', dlog', home')[dhead'[i]] = dlog'[i]
      /\ \A b \in Blocks : (\A i \in 1..Len(dhead') : dhead'[i] # b) =>
           Overlaid(dhead', dlog', home')[b] = home'[b]
  BY <1>2, OverlaidIs, SMTT(30)
<1> QED BY <1>1, <1>3, Zenon

\* With no transaction on disk, a reboot finds the home blocks.
LEMMA NothingLogged ==
  ASSUME LogAssumption, TypeOK, Lists, dhead = <<>>
  PROVE  Recovered = home
BY RecoveredIs DEF TypeOK

\* A step that writes no block leaves what a reboot finds,
LEMMA SameDisk ==
  ASSUME UNCHANGED <<home, dlog, dhead>>
  PROVE  Recovered' = Recovered
BY DEF Recovered, ElemsOf

\* and one that changes no buffer either leaves what system calls see.
LEMMA SameMem ==
  ASSUME UNCHANGED <<home, buf>>, Recovered' = Recovered, Booting' <=> Booting
  PROVE  Mem' = Mem
BY Zenon DEF Mem, Read

\* The steps of system calls.
LEMMA CallsSimulate ==
  ASSUME LogAssumption, Recoverable, NEW p \in Procs
  PROVE  /\ begin_op(p) => \/ Hidden
                           \/ outstanding' = outstanding + 1 /\ Mem' = Mem /\ Recovered' = Recovered
         /\ \A b \in Blocks, v \in Vals : Modify(p, b, v) =>
              /\ outstanding > 0 /\ Mem' = [Mem EXCEPT ![b] = v]
              /\ Recovered' = Recovered /\ outstanding' = outstanding
         /\ log_write(p) => Hidden
         /\ end_op(p) => /\ outstanding > 0 /\ outstanding' = outstanding - 1
                         /\ Mem' = Mem /\ Recovered' = Recovered
         /\ EndCommit(p) => Hidden
<1>1. ASSUME begin_op(p)
      PROVE  \/ Hidden
             \/ outstanding' = outstanding + 1 /\ Mem' = Mem /\ Recovered' = Recovered
  <2>1. UNCHANGED <<home, dlog, dhead, buf, phase>>
    BY <1>1, Zenon DEF begin_op, disk, cache
  <2>2. Recovered' = Recovered /\ Mem' = Mem
    BY <2>1, SameDisk, SameMem, Zenon DEF Booting
  <2>3. outstanding' = outstanding \/ outstanding' = outstanding + 1
    BY <1>1, Zenon DEF begin_op
  <2> QED BY <2>2, <2>3, Zenon DEF Hidden
<1>2. ASSUME NEW b \in Blocks, NEW v \in Vals, Modify(p, b, v)
      PROVE  /\ outstanding > 0 /\ Mem' = [Mem EXCEPT ![b] = v]
             /\ Recovered' = Recovered /\ outstanding' = outstanding
  <2>1. /\ pc[p] = "op" /\ buf' = [buf EXCEPT ![b] = v]
        /\ UNCHANGED <<home, dlog, dhead, phase, outstanding>>
    BY <1>2, Zenon DEF Modify, disk, log
  <2>2. outstanding >= 1 /\ ~Booting
    BY <2>1, InCall, Zenon
  <2>3. Recovered' = Recovered
    BY <2>1, SameDisk, Zenon
  <2>4. Mem = [c \in Blocks |-> Read(c)] /\ Mem' = [c \in Blocks |-> Read(c)']
    BY <2>1, <2>2, Zenon DEF Mem, Booting
  <2>5. v # NULL /\ \A c \in Blocks : Read(c)' = IF c = b THEN v ELSE Read(c)
    BY <2>1, Zenon DEF Read, Recoverable, TypeOK, LogAssumption
  <2>6. Mem' = [Mem EXCEPT ![b] = v]
    BY <2>4, <2>5, Zenon
  <2> QED BY <2>1, <2>2, <2>3, <2>6 DEF Recoverable, TypeOK
<1>3. ASSUME log_write(p) PROVE Hidden
  <2>1. UNCHANGED <<home, dlog, dhead, buf, phase, outstanding>>
    BY <1>3, Zenon DEF log_write, disk
  <2> QED BY <2>1, SameDisk, SameMem, Zenon DEF Hidden, Booting
<1>4. ASSUME end_op(p)
      PROVE  /\ outstanding > 0 /\ outstanding' = outstanding - 1
             /\ Mem' = Mem /\ Recovered' = Recovered
  <2>1. /\ pc[p] = "op" /\ outstanding' = outstanding - 1
        /\ UNCHANGED <<home, dlog, dhead, buf>> /\ phase' \in {phase, "done", "write_log"}
    BY <1>4, Zenon DEF end_op, disk, cache
  <2>2. outstanding >= 1 /\ ~Booting /\ phase = "idle"
    BY <2>1, InCall, Zenon
  <2>3. Recovered' = Recovered /\ Mem' = Mem
    BY <2>1, <2>2, SameDisk, SameMem, Zenon DEF Booting
  <2> QED BY <2>1, <2>2, <2>3 DEF Recoverable, TypeOK
<1>5. ASSUME EndCommit(p) PROVE Hidden
  <2>1. /\ phase = "done" /\ phase' = "idle"
        /\ UNCHANGED <<home, dlog, dhead, buf, outstanding>>
    BY <1>5, Zenon DEF EndCommit, disk, cache
  <2> QED BY <2>1, SameDisk, SameMem, Zenon DEF Hidden, Booting
<1> QED BY <1>1, <1>2, <1>3, <1>4, <1>5, Zenon

\* The steps of commit, and those of recovery but the last one.
LEMMA CommitSimulates ==
  ASSUME LogAssumption, Recoverable, Recoverable'
  PROVE  /\ write_log => Hidden
         /\ CommitHead => /\ outstanding = 0 /\ Recovered' = Mem
                          /\ Mem' = Mem /\ outstanding' = outstanding
         /\ install_trans => Hidden
         /\ read_head => Hidden
<1> USE DEF Recoverable
<1>1. ASSUME write_log PROVE Hidden
  <2>1. phase = "write_log" /\ UNCHANGED <<home, dhead, buf, phase, outstanding>>
    BY <1>1, Zenon DEF write_log, cache, log
  <2>2. dhead = <<>> /\ dhead' = <<>>
    BY <2>1, Zenon DEF Progress
  <2>3. Recovered = home
    BY <2>2, NothingLogged, Zenon
  <2>4. Recovered' = home'
    BY <2>1, <2>2 DEF Recovered, ElemsOf, TypeOK
  <2> QED BY <2>1, <2>3, <2>4, SameMem, Zenon DEF Hidden, Booting
<1>2. ASSUME CommitHead
      PROVE  outstanding = 0 /\ Recovered' = Mem /\ Mem' = Mem /\ outstanding' = outstanding
  <2>1. /\ phase = "write_log" /\ phase' = "install" /\ tail = Len(lh) /\ dhead' = lh
        /\ UNCHANGED <<home, dlog, buf, lh, outstanding, holds>>
    BY <1>2, Zenon DEF CommitHead, cache, log
  <2>2. outstanding = 0 /\ \A p \in Procs : holds[p] = NULL
    <3>1. outstanding = 0
      BY <2>1, Zenon DEF Quiet
    <3>2. Ops = {}
      BY <3>1, OpsCount, FS_EmptySet, Zenon DEF Quiet
    <3> QED BY <3>1, <3>2, Zenon DEF Quiet, Ops
  <2>3. Mem = [b \in Blocks |-> Read(b)] /\ Mem' = Mem
    BY <2>1, Zenon DEF Mem, Booting, Read
  <2>4. Len(lh) \in Nat /\ \A i \in 1..Len(lh) : lh[i] \in Blocks
    BY DEF TypeOK
  <2>5. ASSUME NEW b \in Blocks PROVE Recovered'[b] = Read(b)
    <3>1. CASE \E i \in 1..Len(lh) : lh[i] = b
      <4>1. PICK i \in 1..Len(lh) : lh[i] = b
        BY <3>1, Zenon
      <4>2. Recovered'[b] = dlog[i]
        BY <2>1, <4>1, RecoveredNextIs, Zenon
      <4>3. dlog[i] = buf[b]
        BY <2>1, <4>1, Zenon DEF Progress
      <4>4. buf[b] # NULL
        BY <2>1, <4>1, Zenon DEF Buffers, Dirty, Booting
      <4> QED BY <4>2, <4>3, <4>4, Zenon DEF Read
    <3>2. CASE \A i \in 1..Len(lh) : lh[i] # b
      <4>1. Recovered'[b] = home[b]
        BY <2>1, <3>2, RecoveredNextIs, Zenon
      <4>2. b \notin Dirty
        BY <3>2, Zenon DEF Dirty
      <4>3. NULL \notin Blocks
        BY Zenon DEF LogAssumption
      <4>4. Clean(b)
        BY <2>2, <4>2, <4>3, Zenon DEF Buffers
      <4> QED BY <4>1, <4>4, Zenon DEF Clean, Read
    <3> QED BY <3>1, <3>2, Zenon
  <2>6. Recovered' \in [Blocks -> Vals]
    BY RecoveredNextIs, Zenon
  <2>7. Recovered' = Mem
    BY <2>3, <2>5, <2>6, Zenon
  <2> QED BY <2>1, <2>2, <2>3, <2>7, Zenon
<1>3. ASSUME install_trans PROVE Hidden
  <2> DEFINE t == tail + 1
             b == lh[t]
  <2>1. /\ phase \in {"install", "recover"} /\ tail < Len(lh)
        /\ home' = [home EXCEPT ![b] = dlog[t]] /\ buf' = [buf EXCEPT ![b] = dlog[t]]
        /\ UNCHANGED <<dlog, dhead, lh, phase, outstanding>>
    BY <1>3, Zenon DEF install_trans, log
  <2>2. t \in 1..Len(lh) /\ t > tail /\ b \in Blocks /\ b = lh[t] /\ lh = dhead /\ dlog[t] # NULL
    <3>1. tail \in Nat /\ dlog \in [1..LOGBLOCKS -> Vals] /\ Len(lh) <= LOGBLOCKS
      BY Zenon DEF TypeOK, Lists
    <3>2. t \in 1..Len(lh) /\ t \in 1..LOGBLOCKS /\ t > tail
      <4>1. Len(lh) \in Nat /\ LOGBLOCKS \in Nat
        BY Listed, Sizes, Zenon
      <4> QED BY ONLY <2>1, <3>1, <4>1
    <3>3. lh = dhead
      BY <2>1, Zenon DEF Progress
    <3>4. b \in Blocks /\ dlog[t] \in Vals
      BY <3>1, <3>2, Listed, Zenon
    <3> QED BY <3>2, <3>3, <3>4, Zenon DEF LogAssumption
  <2> HIDE DEF t, b
  <2>3. ASSUME NEW c \in Blocks PROVE Recovered'[c] = Recovered[c]
    <3>1. CASE \E i \in 1..Len(dhead) : dhead[i] = c
      BY <2>1, <3>1, RecoveredIs, RecoveredNextIs
    <3>2. CASE \A i \in 1..Len(dhead) : dhead[i] # c
      <4>1. Recovered[c] = home[c] /\ Recovered'[c] = home'[c]
        BY <2>1, <3>2, RecoveredIs, RecoveredNextIs, Zenon
      <4> QED BY <2>1, <2>2, <3>2, <4>1, Zenon DEF TypeOK
    <3> QED BY <3>1, <3>2, Zenon
  <2>4. Recovered' \in [Blocks -> Vals] /\ Recovered \in [Blocks -> Vals]
    BY RecoveredIs, RecoveredNextIs, Zenon
  <2>5. Recovered' = Recovered
    BY ONLY <2>3, <2>4
  <2>6. CASE phase = "recover"
    BY <2>1, <2>5, <2>6, Zenon DEF Hidden, Mem, Booting
  <2>7. CASE phase = "install"
    <3>1. buf[b] = dlog[t]
      BY <2>2, <2>7, Zenon DEF Progress
    <3>2. \A c \in Blocks : Read(c)' = Read(c)
      BY <2>1, <2>2, <3>1, Zenon DEF Read, TypeOK
    <3> QED BY <2>1, <2>5, <2>7, <3>2, Zenon DEF Hidden, Mem, Booting
  <2> QED BY <2>1, <2>6, <2>7, Zenon
<1>4. ASSUME read_head PROVE Hidden
  <2>1. /\ phase = "read_head" /\ phase' = "recover"
        /\ UNCHANGED <<home, dlog, dhead, buf, outstanding>>
    BY <1>4, Zenon DEF read_head, disk, cache
  <2> QED BY <2>1, SameDisk, Zenon DEF Hidden, Mem, Booting
<1> QED BY <1>1, <1>2, <1>3, <1>4, Zenon

\* Clearing the header, the cache's reuse of a buffer, and a crash.
LEMMA RestSimulates ==
  ASSUME LogAssumption, Recoverable, Recoverable'
  PROVE  /\ ClearHead => Hidden
         /\ \A b \in Blocks : Recycle(b) => Hidden
         /\ Crash => Mem' = Recovered /\ Recovered' = Recovered /\ outstanding' = 0
<1> USE DEF Recoverable
<1>1. ASSUME ClearHead PROVE Hidden
  <2>1. /\ phase \in {"install", "recover"} /\ tail = Len(lh) /\ dhead' = <<>>
        /\ phase' \in {"done", "idle"} /\ UNCHANGED <<home, dlog, buf, outstanding, holds>>
    BY <1>1, Zenon DEF ClearHead, cache
  <2>2. lh = dhead
    BY <2>1, Zenon DEF Progress
  <2>3. Recovered' = home
    <3>1. Recovered' \in [Blocks -> Vals] /\ home \in [Blocks -> Vals]
      BY RecoveredNextIs, Zenon DEF TypeOK
    <3>2. \A b \in Blocks : Recovered'[b] = home[b]
      <4>1. Len(dhead') = 0
        BY <2>1, Zenon
      <4>2. home' = home /\ 1..0 = {}
        BY ONLY <2>1
      <4> QED BY <4>1, <4>2, RecoveredNextIs, Zenon
    <3> QED BY ONLY <3>1, <3>2
  <2>4. ASSUME NEW b \in Blocks PROVE Recovered[b] = home[b]
    <3>1. CASE \E i \in 1..Len(dhead) : dhead[i] = b
      BY <2>1, <2>2, <3>1, RecoveredIs DEF Progress
    <3>2. CASE \A i \in 1..Len(dhead) : dhead[i] # b
      BY <3>2, RecoveredIs, Zenon
    <3> QED BY <3>1, <3>2, Zenon
  <2>5. Recovered \in [Blocks -> Vals]
    BY RecoveredIs, Zenon
  <2>6. Recovered' = Recovered
    <3>1. home \in [Blocks -> Vals]
      BY Zenon DEF TypeOK
    <3>2. Recovered = home
      BY ONLY <2>4, <2>5, <3>1
    <3> QED BY <2>3, <3>2, Zenon
  <2>7. CASE phase = "install"
    BY <2>1, <2>6, <2>7, SameMem, Zenon DEF Hidden, Booting
  <2>8. CASE phase = "recover"
    <3>1. \A p \in Procs : holds[p] = NULL
      <4>1. Ops = {}
        BY <2>8, OpsCount, FS_EmptySet, Zenon DEF Quiet
      <4> QED BY <4>1, Zenon DEF Quiet, Ops
    <3>2. \A b \in Blocks : Clean(b)
      BY <2>8, <3>1, Zenon DEF Buffers, Dirty, Booting, LogAssumption
    <3>3. \A b \in Blocks : Read(b)' = home[b]
      BY <2>1, <3>2, Zenon DEF Read, Clean
    <3>4. Mem' = [b \in Blocks |-> home[b]]
      BY <2>1, <3>3, Zenon DEF Mem, Booting
    <3>5. home = [b \in Blocks |-> home[b]]
      BY Zenon DEF TypeOK
    <3>6. Mem' = home
      BY <3>4, <3>5, Zenon
    <3>7. Mem = Recovered
      BY <2>8, Zenon DEF Mem, Booting
    <3> QED BY <2>1, <2>3, <2>6, <3>6, <3>7, Zenon DEF Hidden
  <2> QED BY <2>1, <2>7, <2>8, Zenon
<1>2. ASSUME NEW b \in Blocks, Recycle(b) PROVE Hidden
  <2>1. buf' = [buf EXCEPT ![b] = NULL] /\ UNCHANGED <<home, dlog, dhead, phase, outstanding>>
    BY <1>2, Zenon DEF Recycle, disk, log
  <2>2. Clean(b)
    BY <1>2, RecycleStep, Zenon
  <2>3. \A c \in Blocks : Read(c)' = Read(c)
    BY <2>1, <2>2, Zenon DEF Read, Clean, TypeOK
  <2>4. Recovered' = Recovered
    BY <2>1, SameDisk, Zenon
  <2> QED BY <2>1, <2>3, <2>4, Zenon DEF Hidden, Mem, Booting
<1>3. ASSUME Crash PROVE Mem' = Recovered /\ Recovered' = Recovered /\ outstanding' = 0
  <2>1. phase' = "read_head" /\ outstanding' = 0 /\ UNCHANGED <<home, dlog, dhead>>
    BY <1>3, Zenon DEF Crash, disk
  <2> QED BY <2>1, SameDisk, Zenon DEF Mem, Booting
<1> QED BY <1>1, <1>2, <1>3, Zenon

\* Every step of the log is one of AtomicDisk, or is hidden from it.
LEMMA Simulation ==
  ASSUME LogAssumption, Recoverable, [Next]_vars
  PROVE  [Disk!Next]_Disk!vars
<1>1. Recoverable'
  BY RecoverableStep, Zenon
<1> USE DEF Disk!vars, Disk!Next, Disk!Begin, Disk!Write, Disk!End, Disk!Commit, Disk!Crash
<1>2. ASSUME Hidden PROVE [Disk!Next]_Disk!vars
  BY <1>2, Zenon DEF Hidden, Mem
<1>3. ASSUME NEW p \in Procs, begin_op(p) PROVE [Disk!Next]_Disk!vars
  BY <1>2, <1>3, CallsSimulate, Zenon DEF Mem
<1>4. ASSUME NEW p \in Procs, NEW b \in Blocks, NEW v \in Vals, Modify(p, b, v)
      PROVE  [Disk!Next]_Disk!vars
  BY <1>4, CallsSimulate, Zenon DEF Mem
<1>5. ASSUME NEW p \in Procs, SysCall(p) PROVE [Disk!Next]_Disk!vars
  BY <1>2, <1>5, CallsSimulate, Zenon DEF SysCall, Mem
<1>6. ASSUME Commit PROVE [Disk!Next]_Disk!vars
  BY <1>1, <1>2, <1>6, CommitSimulates, RestSimulates, Zenon DEF Commit, Mem
<1>7. ASSUME NEW b \in Blocks, Recycle(b) PROVE [Disk!Next]_Disk!vars
  BY <1>1, <1>2, <1>7, RestSimulates, Zenon
<1>8. ASSUME Crash PROVE [Disk!Next]_Disk!vars
  BY <1>1, <1>8, RestSimulates, Zenon DEF Mem
<1>9. ASSUME UNCHANGED vars PROVE [Disk!Next]_Disk!vars
  <2>1. UNCHANGED <<home, dlog, dhead, buf, phase, outstanding>>
    BY <1>9, Zenon DEF vars, disk, cache, log
  <2>2. Hidden
    BY <2>1, SameDisk, SameMem, Zenon DEF Hidden, Booting
  <2> QED BY <1>2, <2>2, Zenon
<1> QED BY <1>3, <1>4, <1>5, <1>6, <1>7, <1>8, <1>9, Zenon DEF Next

\* A disk just made maps to the initial state of AtomicDisk.
LEMMA SimulationInit ==
  ASSUME LogAssumption, Init
  PROVE  Disk!Init
<1>1. Recoverable
  BY RecoverableInit, Zenon
<1>2. Recovered = home
  BY <1>1, NothingLogged, Zenon DEF Recoverable, Init
<1> QED BY <1>2, Zenon DEF Init, Disk!Init, Booting

\* The system calls of kernel/log.c are atomic with respect to crashes, for any
\* number of processes and blocks and any log size: the log implements
\* AtomicDisk.
THEOREM LogIsAtomic ==
  ASSUME LogAssumption
  PROVE  Spec => AtomicCommit
<1>1. Init => Recoverable /\ Disk!Init
  BY RecoverableInit, SimulationInit, Zenon
<1>2. Recoverable /\ [Next]_vars => Recoverable' /\ [Disk!Next]_Disk!vars
  BY RecoverableStep, Simulation, Zenon
<1> QED BY <1>1, <1>2, PTL DEF Spec, AtomicCommit, Disk!Spec
=============================================================================
