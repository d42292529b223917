------------------------------- MODULE Virtio -------------------------------
(***************************************************************************)
(* The disk driver, kernel/virtio_disk.c, and the device it shares memory  *)
(* with.  A request is named by its process: bget's sleeplock gives every  *)
(* process that calls virtio_disk_rw a buffer of its own.                  *)
(*                                                                         *)
(* A step of the driver ends where it gives up vdisk_lock or where the     *)
(* device can see a difference.  The device, which is external, takes      *)
(* requests in the order of the avail ring and finishes them in any order. *)
(***************************************************************************)
EXTENDS Integers, FiniteSets

CONSTANTS
  Procs,
  NUM,      \* descriptors, and entries of the rings
  WORD,     \* the ring indices are modulo WORD (2^16 in C)
  NULL

VirtioAssumption ==
  /\ NUM \in Nat /\ NUM >= 3 /\ WORD \in Nat /\ WORD > 0 /\ WORD % NUM = 0
  /\ NULL \notin Procs \cup (0..(NUM - 1))

VARIABLES
  free,        \* the descriptors with disk.free set
  next,        \* disk.desc[].next, or NULL without VRING_DESC_F_NEXT
  info,        \* disk.info[]: [b, status]
  b_disk,      \* the requests whose b->disk is 1
  avail_ring, avail_idx,
  used_idx,    \* disk.used_idx: what the driver has looked at
  lock,        \* holder of vdisk_lock: a process, "intr", or NULL
  pc,          \* place of each process, and its idx[0]
  seen,        \* device: how far it has read the avail ring
  working,     \* device: heads of the chains it works on
  used_ring, used_end,   \* disk.used->ring[].id, disk.used->idx
  irq          \* device: the interrupt line

vars == <<free, next, info, b_disk, avail_ring, avail_idx, used_idx, lock, pc,
          seen, working, used_ring, used_end, irq>>
device == <<seen, working, used_ring, used_end, irq>>

Descs == 0..(NUM - 1)
Idle == [at |-> "idle", head |-> NULL]

Init ==
  /\ free = Descs /\ next = [d \in Descs |-> NULL]
  /\ info = [d \in Descs |-> [b |-> NULL, status |-> 0]]
  /\ b_disk = {}
  /\ avail_ring = [k \in Descs |-> 0] /\ avail_idx = 0 /\ used_idx = 0
  /\ lock = NULL /\ pc = [p \in Procs |-> Idle]
  /\ seen = 0 /\ working = {} /\ used_ring = [k \in Descs |-> 0] /\ used_end = 0
  /\ irq = FALSE

At(p, at) == pc[p].at = at

\* wakeup(&disk.free[0]), and p goes on at "at" with chain head h.
WakeFree(p, at, h) ==
  pc' = [q \in Procs |-> IF q = p THEN [at |-> at, head |-> h]
                         ELSE IF pc[q].at = "nodesc" THEN [pc[q] EXCEPT !.at = "retry"] ELSE pc[q]]

-----------------------------------------------------------------------------
(* virtio_disk_rw                                                          *)

\* alloc_desc takes the lowest free descriptor, three times.
Lowest3 == {d \in free : Cardinality({c \in free : c < d}) < 3}

\* Fault: the last descriptor taken is not given back.
GivenBack_Less == {d \in Lowest3 : \E c \in Lowest3 : d < c}

\* What alloc3_desc gives back when it could take fewer than three.
GivenBack == Lowest3

\* alloc3_desc fails: what it took it gives back, waking the other sleepers.
NoDesc(p) ==
  /\ lock = NULL /\ pc[p].at \in {"idle", "retry"} /\ Cardinality(free) < 3
  /\ free' = (free \ Lowest3) \cup GivenBack
  /\ IF GivenBack = {} THEN pc' = [pc EXCEPT ![p] = [at |-> "nodesc", head |-> NULL]]
     ELSE WakeFree(p, "nodesc", NULL)
  /\ UNCHANGED <<next, info, b_disk, avail_ring, avail_idx, used_idx, lock, device>>

\* Format the chain and enter its head in the avail ring.
Submit(p) ==
  LET h == CHOOSE d \in Lowest3 : \A c \in Lowest3 : d <= c
      t == CHOOSE d \in Lowest3 : \A c \in Lowest3 : c <= d
      m == CHOOSE d \in Lowest3 : d # h /\ d # t
  IN
  /\ lock = NULL /\ pc[p].at \in {"idle", "retry"} /\ Cardinality(free) >= 3
  /\ free' = free \ Lowest3
  /\ next' = [next EXCEPT ![h] = m, ![m] = t, ![t] = NULL]
  /\ info' = [info EXCEPT ![h] = [b |-> p, status |-> 255]]
  /\ b_disk' = b_disk \cup {p}
  /\ avail_ring' = [avail_ring EXCEPT ![avail_idx % NUM] = h]
  /\ lock' = p
  /\ pc' = [pc EXCEPT ![p] = [at |-> "notify", head |-> h]]
  /\ UNCHANGED <<avail_idx, used_idx, device>>

\* Fault: the index is advanced twice.
Notified_Twice == (avail_idx + 2) % WORD

Notified == (avail_idx + 1) % WORD

\* Only now does the device see the request.  b->disk is still 1, as only the
\* interrupt handler clears it, with the lock: the process sleeps.
Notify(p) ==
  /\ At(p, "notify")
  /\ avail_idx' = Notified
  /\ lock' = NULL
  /\ pc' = [pc EXCEPT ![p].at = "asleep"]
  /\ UNCHANGED <<free, next, info, b_disk, avail_ring, used_idx, device>>

\* Fault: the chain is followed for one link only.
Chain_Short(h) == {h, next[h]}

\* The descriptors free_chain frees; virtio_disk_rw makes no longer chains.
Chain(h) ==
  LET m == next[h] IN
  {h} \cup (IF m = NULL THEN {} ELSE {m, next[m]} \ {NULL})

Freed(p) == WakeFree(p, "idle", NULL)

\* The request is done: free its descriptors and wake who waits for some.
Finish(p) ==
  LET h == pc[p].head IN
  /\ At(p, "woken") /\ lock = NULL /\ p \notin b_disk
  /\ info' = [info EXCEPT ![h].b = NULL]
  /\ next' = [d \in Descs |-> IF d \in Chain(h) THEN NULL ELSE next[d]]
  /\ free' = free \cup Chain(h)
  /\ Freed(p)
  /\ UNCHANGED <<b_disk, avail_ring, avail_idx, used_idx, lock, device>>

-----------------------------------------------------------------------------
(* The device                                                              *)

DeviceTake ==
  /\ seen # avail_idx
  /\ working' = working \cup {avail_ring[seen % NUM]}
  /\ seen' = (seen + 1) % WORD
  /\ UNCHANGED <<free, next, info, b_disk, avail_ring, avail_idx, used_idx, lock, pc,
                 used_ring, used_end, irq>>

\* Transfer the data, set the status, enter the head in the used ring, and
\* interrupt.
DeviceDone(h) ==
  /\ h \in working
  /\ working' = working \ {h}
  /\ info' = [info EXCEPT ![h].status = 0]
  /\ used_ring' = [used_ring EXCEPT ![used_end % NUM] = h]
  /\ used_end' = (used_end + 1) % WORD
  /\ irq' = TRUE
  /\ UNCHANGED <<free, next, b_disk, avail_ring, avail_idx, used_idx, lock, pc, seen>>

-----------------------------------------------------------------------------
(* virtio_disk_intr                                                        *)

IntrAck ==
  /\ irq /\ lock = NULL
  /\ lock' = "intr" /\ irq' = FALSE
  /\ UNCHANGED <<free, next, info, b_disk, avail_ring, avail_idx, used_idx, pc,
                 seen, working, used_ring, used_end>>

NextUsed == (used_idx + 1) % WORD

\* wakeup(b)
Woken(b) ==
  [p \in Procs |-> IF p = b /\ At(p, "asleep") THEN [pc[p] EXCEPT !.at = "woken"] ELSE pc[p]]

\* One entry of the used ring.
IntrEntry ==
  LET b == info[used_ring[used_idx % NUM]].b IN
  /\ lock = "intr" /\ used_idx # used_end
  /\ b_disk' = b_disk \ {b}
  /\ pc' = Woken(b)
  /\ used_idx' = NextUsed
  /\ UNCHANGED <<free, next, info, avail_ring, avail_idx, lock, device>>

\* Fault: an if instead of the while.
IntrEnd_Once ==
  /\ lock = "intr"
  /\ lock' = NULL
  /\ UNCHANGED <<free, next, info, b_disk, avail_ring, avail_idx, used_idx, pc, device>>

IntrEnd ==
  /\ lock = "intr" /\ used_idx = used_end
  /\ lock' = NULL
  /\ UNCHANGED <<free, next, info, b_disk, avail_ring, avail_idx, used_idx, pc, device>>

-----------------------------------------------------------------------------
Next ==
  \/ \E p \in Procs : NoDesc(p) \/ Submit(p) \/ Notify(p) \/ Finish(p)
  \/ DeviceTake \/ \E h \in Descs : DeviceDone(h)
  \/ IntrAck \/ IntrEntry \/ IntrEnd

Spec == Init /\ [][Next]_vars

-----------------------------------------------------------------------------
(* Properties.                                                             *)

\* The entries of a ring from index i up to index j.
Entries(ring, i, j) == {ring[(i + k) % NUM] : k \in 0..(((j - i) % WORD) - 1)}

\* Every descriptor is free or in the chain of exactly one request, whatever
\* the order in which requests start, fail to start and finish; so free_desc
\* never panics, none leaks, and no chain changes while the device works on it.
\* A request the disk owns (b->disk) is in one place: about to be announced,
\* in the avail ring, with the device, or in the used ring.  So the interrupt
\* handler wakes each process once, for its own buffer, and finds status 0.
RequestInOnePlace ==
  LET active == {p \in Procs : pc[p].head # NULL}
      announced == Entries(avail_ring, seen, avail_idx)
      finished  == Entries(used_ring, used_idx, used_end)
  IN
  /\ \A d \in Descs :
       Cardinality({p \in active : d \in Chain(pc[p].head)}) = IF d \in free THEN 0 ELSE 1
  /\ \A p \in b_disk :
       /\ info[pc[p].head].b = p
       /\ Cardinality({w \in {"notify", "avail", "device", "used"} :
            \/ w = "notify" /\ At(p, "notify")
            \/ w = "avail" /\ pc[p].head \in announced
            \/ w = "device" /\ pc[p].head \in working
            \/ w = "used" /\ pc[p].head \in finished}) = 1
  /\ announced \cup working \cup finished \subseteq {pc[p].head : p \in b_disk}
  /\ \A h \in finished : info[h].status = 0

\* Nobody sleeps for ever.  While the driver has not looked at an entry of the
\* used ring an interrupt is pending or being handled, although several
\* completions share an interrupt and some arrive while the handler runs; and
\* a process waits for descriptors only while fewer than three are free.
NoLostWakeup ==
  /\ used_idx # used_end => irq \/ lock = "intr"
  /\ lock = NULL /\ (\E p \in Procs : At(p, "nodesc")) => Cardinality(free) < 3
=============================================================================
