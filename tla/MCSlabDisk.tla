----------------------------- MODULE MCSlabDisk -----------------------------
(***************************************************************************)
(* Model checking of the slab allocator (Slab) with its size arithmetic    *)
(* (SlabSizes), and of the disk driver (Virtio).  They share no state, so  *)
(* one run checks them side by side: part says what a behaviour is about.  *)
(* The disk has rings of several sizes num: with two requests in flight,   *)
(* and with one and some descriptors left over, too few for another.       *)
(***************************************************************************)
EXTENDS Slab, TLC

CONSTANTS MIN_BUFFER_SIZE, MAX_BUFFER_SIZE, NUM_BUFFER_CACHES, BLOCK_SIZE,
          SlabHeader, ObjectHeader, Requests,   \* SlabSizes
          Users, RingSizes                      \* Virtio

VARIABLES part, size,
          num, free, next, info, b_disk, avail_ring, avail_idx, used_idx, vdisk_lock,
          disk_pc, seen, working, used_ring, used_end, irq

disk_vars == <<free, next, info, b_disk, avail_ring, avail_idx, used_idx, vdisk_lock,
               disk_pc, seen, working, used_ring, used_end, irq>>

Z == INSTANCE SlabSizes
V(n) == INSTANCE Virtio WITH
          Procs <- Users, NUM <- n, WORD <- n, lock <- vdisk_lock, pc <- disk_pc

ASSUME \A n \in RingSizes : V(n)!VirtioAssumption
ASSUME Users = Blocks

\* Request sizes: every small one, and every power of two with its neighbours.
MCRequests == 0..100 \cup {2^k + d - 1 : k \in 5..17, d \in 0..2} \cup {3 * 2^k : k \in 5..15}

SomeSize == CHOOSE n \in RingSizes : TRUE

AllInit ==
  /\ Init /\ Z!Init
  /\ \E n \in RingSizes :
       /\ num = n /\ V(n)!Init
       /\ \/ part = "slabs" /\ size = 0 /\ n = SomeSize
          \/ part = "sizes" /\ n = SomeSize
          \/ part = "disk" /\ size = 0

AllNext ==
  /\ UNCHANGED <<part, num>>
  /\ \/ part = "slabs" /\ Next /\ UNCHANGED <<size, disk_vars>>
     \/ part = "sizes" /\ Z!Next /\ UNCHANGED <<vars, disk_vars>>
     \/ part = "disk" /\ (\E n \in RingSizes : num = n /\ V(n)!Next) /\ UNCHANGED <<vars, size>>

AllSpec == AllInit /\ [][AllNext]_<<part, size, num, vars, disk_vars>>

\* Threads are interchangeable, and so are blocks and users of the disk.  The latter
\* two have the same model values, so that the same permutations serve both.
Symmetry == Permutations(Procs) \cup Permutations(Blocks)

\* A request finds the cache of the smallest class that is large enough, and the
\* objects of a slab, header and all, fit the blocks calculate_slab_size gives it.
SizesFit == Z!SizesFit

\* Every descriptor of the disk is free or in the chain of one request, and a
\* request the disk owns is in one place: about to be announced, in the avail
\* ring, with the device or in the used ring.
RequestInOnePlace == part = "disk" => \A n \in RingSizes : num = n => V(n)!RequestInOnePlace

\* No completion goes unnoticed, although several share an interrupt and some
\* arrive while the handler runs, and nobody waits for descriptors that are free.
NoLostWakeup == part = "disk" => \A n \in RingSizes : num = n => V(n)!NoLostWakeup
=============================================================================
