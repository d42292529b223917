------------------------------- MODULE Bcache -------------------------------
(***************************************************************************)
(* The buffer cache of kernel/bio.c, which grows by allocating buffers     *)
(* from the slab allocator when all are in use and shrinks back to NBUF.   *)
(*                                                                         *)
(* A step is a critical section of bcache.lock, or taking or dropping a    *)
(* buffer's sleeplock, or a disk transfer.  The list linked through prev   *)
(* and next is a sequence, most recently used first.                       *)
(***************************************************************************)
EXTENDS Integers, Sequences, FiniteSets

CONSTANTS
  Procs,
  Blocks,    \* block numbers in use
  Vals,      \* contents of a block
  Initial,   \* contents of the disk
  Bufs,      \* addresses at which the slab allocator can place a buffer
  NBUF,
  NULL

ASSUME BcacheAssumption ==
  /\ IsFiniteSet(Procs) /\ IsFiniteSet(Bufs) /\ NBUF \in 1..Cardinality(Bufs)
  /\ Initial \in [Blocks -> Vals] /\ NULL \notin Procs \cup Blocks \cup Vals \cup Bufs

VARIABLES
  list,           \* the buffers of bcache, head.next first
  bcache_count,
  buf,            \* contents of each struct buf
  disk,
  pc,             \* what each process does: [at, buf, blockno]
  pinned,         \* blocks pinned by the log
  latest          \* history: what was last stored in a block by anyone

vars == <<list, bcache_count, buf, disk, pc, pinned, latest>>

Idle == [at |-> "idle", buf |-> NULL, blockno |-> NULL]

\* memset and initsleeplock.  A zeroed buffer matches no block: device 0 is
\* never used.
Zeroed == [blockno |-> NULL, valid |-> FALSE, refcnt |-> 0, lock |-> NULL, data |-> NULL]

InList == {list[i] : i \in DOMAIN list}

\* binit: NBUF buffers, whichever the allocator chose.
Init ==
  /\ \E f \in [1..NBUF -> Bufs] :
       /\ \A i, j \in 1..NBUF : f[i] = f[j] => i = j
       /\ list = f
  /\ bcache_count = NBUF
  /\ buf = [b \in Bufs |-> Zeroed]
  /\ disk = Initial
  /\ pc = [p \in Procs |-> Idle]
  /\ pinned = {}
  /\ latest = Initial

Goto(p, at, b, n) == pc' = [pc EXCEPT ![p] = [at |-> at, buf |-> b, blockno |-> n]]
At(p, at) == pc[p].at = at

-----------------------------------------------------------------------------
(* bget: three ways to find a buffer, then its sleeplock.                  *)

Cached(n) == {b \in InList : buf[b].blockno = n}
Unused == {i \in DOMAIN list : buf[list[i]].refcnt = 0}

BgetHit(p, n) ==
  /\ At(p, "idle")
  /\ \E b \in Cached(n) :
       /\ buf' = [buf EXCEPT ![b].refcnt = @ + 1]
       /\ Goto(p, "lock", b, n)
  /\ UNCHANGED <<list, bcache_count, disk, pinned, latest>>

\* Fault: the recycled buffer stays valid.
Recycled_Valid(b, n) == [buf[b] EXCEPT !.blockno = n, !.refcnt = 1]

Recycled(b, n) == [buf[b] EXCEPT !.blockno = n, !.valid = FALSE, !.refcnt = 1]

\* The least recently used buffer with no reference.
BgetRecycle(p, n) ==
  /\ At(p, "idle") /\ Cached(n) = {}
  /\ \E i \in Unused :
       /\ \A j \in Unused : j <= i
       /\ buf' = [buf EXCEPT ![list[i]] = Recycled(list[i], n)]
       /\ Goto(p, "lock", list[i], n)
  /\ UNCHANGED <<list, bcache_count, disk, pinned, latest>>

\* kmem_cache_alloc supplies one more (when it cannot, bget panics).
BgetGrow(p, n) ==
  /\ At(p, "idle") /\ Cached(n) = {} /\ Unused = {}
  /\ \E b \in Bufs \ InList :
       /\ buf' = [buf EXCEPT ![b] = [Zeroed EXCEPT !.blockno = n, !.refcnt = 1]]
       /\ list' = <<b>> \o list
       /\ Goto(p, "lock", b, n)
  /\ bcache_count' = bcache_count + 1
  /\ UNCHANGED <<disk, pinned, latest>>

acquiresleep(p) ==
  LET b == pc[p].buf IN
  /\ At(p, "lock") /\ buf[b].lock = NULL
  /\ buf' = [buf EXCEPT ![b].lock = p]
  /\ Goto(p, "bread", b, pc[p].blockno)
  /\ UNCHANGED <<list, bcache_count, disk, pinned, latest>>

\* bread: read the disk unless the buffer is valid.
bread(p) ==
  LET b == pc[p].buf IN
  /\ At(p, "bread")
  /\ buf' = IF buf[b].valid THEN buf
            ELSE [buf EXCEPT ![b].data = disk[buf[b].blockno], ![b].valid = TRUE]
  /\ Goto(p, "use", b, pc[p].blockno)
  /\ UNCHANGED <<list, bcache_count, disk, pinned, latest>>

-----------------------------------------------------------------------------
(* What the log and the file system do with a locked buffer.               *)

Modify(p, v) ==
  LET b == pc[p].buf IN
  /\ At(p, "use")
  /\ buf' = [buf EXCEPT ![b].data = v]
  /\ latest' = [latest EXCEPT ![pc[p].blockno] = v]
  /\ UNCHANGED <<list, bcache_count, disk, pc, pinned>>

bwrite(p) ==
  LET b == pc[p].buf IN
  /\ At(p, "use")
  /\ disk' = [disk EXCEPT ![buf[b].blockno] = buf[b].data]
  /\ UNCHANGED <<list, bcache_count, buf, pc, pinned, latest>>

\* Fault: the pin is not counted.
bpin_Uncounted(p) ==
  /\ At(p, "use") /\ pc[p].blockno \notin pinned
  /\ pinned' = pinned \cup {pc[p].blockno}
  /\ UNCHANGED <<list, bcache_count, buf, disk, pc, latest>>

\* log_write pins a block it has not logged yet; install_trans unpins one it
\* has written.
bpin(p) ==
  LET n == pc[p].blockno IN
  /\ At(p, "use") /\ n \notin pinned
  /\ pinned' = pinned \cup {n}
  /\ buf' = [buf EXCEPT ![pc[p].buf].refcnt = @ + 1]
  /\ UNCHANGED <<list, bcache_count, disk, pc, latest>>

bunpin(p) ==
  LET n == pc[p].blockno IN
  /\ At(p, "use") /\ n \in pinned /\ disk[n] = buf[pc[p].buf].data
  /\ pinned' = pinned \ {n}
  /\ buf' = [buf EXCEPT ![pc[p].buf].refcnt = @ - 1]
  /\ UNCHANGED <<list, bcache_count, disk, pc, latest>>

-----------------------------------------------------------------------------
(* brelse                                                                  *)

\* A modified buffer has been written or pinned before.
releasesleep(p) ==
  LET b == pc[p].buf IN
  /\ At(p, "use")
  /\ disk[pc[p].blockno] = buf[b].data \/ pc[p].blockno \in pinned
  /\ buf' = [buf EXCEPT ![b].lock = NULL]
  /\ Goto(p, "put", b, pc[p].blockno)
  /\ UNCHANGED <<list, bcache_count, disk, pinned, latest>>

\* Fault: the shrink loop does not look at the reference count.
Stops_InUse(t, b, refs) == t = b

\* The shrink loop stops at a buffer in use and at the one being released.
Stops(t, b, refs) == t = b \/ refs[t].refcnt # 0

\* The number of buffers the shrink loop frees from the end of the list:
\* those beyond NBUF, up to the first it stops at.
Freed(l, b, refs) ==
  CHOOSE k \in 0..Len(l) :
    /\ \A i \in 0..(k - 1) : Len(l) - i > NBUF /\ ~Stops(l[Len(l) - i], b, refs)
    /\ Len(l) - k <= NBUF \/ Stops(l[Len(l) - k], b, refs)

\* Fault: the released buffer stays where it is in the list.
MoveToFront_Not(b) == list

MoveToFront(b) ==
  LET k == CHOOSE i \in DOMAIN list : list[i] = b IN
  [i \in DOMAIN list |-> IF i = 1 THEN b ELSE IF i <= k THEN list[i - 1] ELSE list[i]]

\* Drop the reference; the last one moves the buffer to the front and frees
\* the least recently used ones beyond NBUF.
brelse(p) ==
  LET b == pc[p].buf
      refs == [buf EXCEPT ![b].refcnt = @ - 1]
      front == MoveToFront(b)
      k == Freed(front, b, refs)
  IN
  /\ At(p, "put")
  /\ IF refs[b].refcnt = 0
     THEN /\ list' = SubSeq(front, 1, Len(front) - k)
          /\ bcache_count' = bcache_count - k
          /\ buf' = [c \in Bufs |-> IF \E i \in 1..Len(list') : list'[i] = c
                                    THEN refs[c] ELSE Zeroed]
     ELSE buf' = refs /\ UNCHANGED <<list, bcache_count>>
  /\ pc' = [pc EXCEPT ![p] = Idle]
  /\ UNCHANGED <<disk, pinned, latest>>

-----------------------------------------------------------------------------
Next ==
  \E p \in Procs :
    \/ \E n \in Blocks : BgetHit(p, n) \/ BgetRecycle(p, n) \/ BgetGrow(p, n)
    \/ acquiresleep(p) \/ bread(p)
    \/ \E v \in Vals : Modify(p, v)
    \/ bwrite(p) \/ bpin(p) \/ bunpin(p) \/ releasesleep(p) \/ brelse(p)

Spec == Init /\ [][Next]_vars

-----------------------------------------------------------------------------
(* Properties.                                                             *)

Uses(b) == {p \in Procs : pc[p].buf = b}

\* A process that has a buffer for a block keeps it: however buffers are
\* recycled, grown and freed meanwhile, the buffer stays in the list, stays
\* the only one of its block, and nobody else uses it while it is locked.
\* refcnt counts the processes using or waiting for a buffer and its pin, so
\* growth is undone: exactly NBUF buffers are left when none is in use.
BufferStaysMine ==
  /\ \A p \in Procs : pc[p].buf # NULL =>
       pc[p].buf \in InList /\ buf[pc[p].buf].blockno = pc[p].blockno
  /\ \A n \in Blocks : Cardinality(Cached(n)) <= 1
  /\ \A p, q \in Procs :
       p # q /\ pc[p].buf = pc[q].buf => ~(At(p, "use") /\ At(q, "use"))
  /\ \A b \in Bufs : buf[b].refcnt =
       Cardinality(Uses(b)) + (IF buf[b].blockno \in pinned THEN 1 ELSE 0)
  /\ bcache_count = Len(list) /\ Cardinality(InList) = Len(list) /\ bcache_count >= NBUF
  /\ (\A i \in DOMAIN list : buf[list[i]].refcnt = 0) => bcache_count = NBUF

\* A process that has read a block sees what was last stored in it, although
\* the block may have been logged but not yet written, evicted and read back.
ReadsLatest ==
  \A p \in Procs : At(p, "use") => buf[pc[p].buf].data = latest[pc[p].blockno]
=============================================================================
