------------------------------ MODULE SlabSizes ------------------------------
(***************************************************************************)
(* The size arithmetic of kernel/slab.c: which class a kmalloc request     *)
(* falls in, and how many objects a slab of a cache holds.  The variable   *)
(* is the size of the request being served; the loops of the code are      *)
(* recursive functions of the loop variable.                               *)
(***************************************************************************)
EXTENDS Naturals

CONSTANTS
  MIN_BUFFER_SIZE, MAX_BUFFER_SIZE, NUM_BUFFER_CACHES, BLOCK_SIZE,
  SlabHeader,     \* sizeof(kmem_slab_t)
  ObjectHeader,   \* sizeof(kmem_object_t)
  Requests        \* the sizes asked for

VARIABLE size

round_up_pow2(n) ==
  LET loop[power \in Nat] ==
        IF power < n /\ power <= MAX_BUFFER_SIZE THEN loop[2 * power] ELSE power
  IN  loop[MIN_BUFFER_SIZE]

\* Fault: the last class is never used.
get_buffer_cache_index_Short(n) ==
  LET loop[power \in Nat, index \in Nat] ==
        IF power < n /\ index < NUM_BUFFER_CACHES - 2
        THEN loop[2 * power, index + 1] ELSE index
  IN  loop[MIN_BUFFER_SIZE, 0]

get_buffer_cache_index(n) ==
  LET loop[power \in Nat, index \in Nat] ==
        IF power < n /\ index < NUM_BUFFER_CACHES - 1
        THEN loop[2 * power, index + 1] ELSE index
  IN  loop[MIN_BUFFER_SIZE, 0]

\* Fault: the object header is left out.
OBJECTS_PER_SLAB_NoHeader(obj_size, slab_bytes) == (slab_bytes - SlabHeader) \div obj_size

OBJECTS_PER_SLAB(obj_size, slab_bytes) ==
  (slab_bytes - SlabHeader) \div (obj_size + ObjectHeader)

\* Fault: the loop stops one doubling early.
calculate_slab_size_Short(object_size) ==
  LET loop[blocks \in Nat] ==
        IF blocks < 8 /\ OBJECTS_PER_SLAB(object_size, blocks * BLOCK_SIZE) < 8
        THEN loop[2 * blocks] ELSE blocks
  IN  loop[1]

calculate_slab_size(object_size) ==
  LET loop[blocks \in Nat] ==
        IF blocks < 16 /\ OBJECTS_PER_SLAB(object_size, blocks * BLOCK_SIZE) < 8
        THEN loop[2 * blocks] ELSE blocks
  IN  loop[1]

\* kmem_cache_create and kmalloc refuse size 0 and anything larger.
Accepted(n) == n > 0 /\ n <= MAX_BUFFER_SIZE

Init == size \in Requests
Next == size' \in Requests
Spec == Init /\ [][Next]_size

-----------------------------------------------------------------------------
ClassSize(index) == MIN_BUFFER_SIZE * 2^index
SlabBytes(n) == calculate_slab_size(n) * BLOCK_SIZE
Objects(n) == OBJECTS_PER_SLAB(n, SlabBytes(n))

\* The cache kmalloc finds under the index of a request was created with the
\* rounded size, whichever request of the class came first: it is the smallest
\* class that is large enough (round_up_pow2, get_buffer_cache_index).
ClassFitsRequest ==
  LET index == get_buffer_cache_index(round_up_pow2(size)) IN
  /\ index < NUM_BUFFER_CACHES
  /\ round_up_pow2(size) = ClassSize(index)
  /\ size <= ClassSize(index)
  /\ index > 0 => ClassSize(index - 1) < size

\* A slab is the smallest power of two of blocks, up to 16, that holds eight
\* objects, and the objects kmem_slab_create lays out, header and all, stay inside
\* it and leave less than one object's room unused.
ObjectsFitSlab ==
  LET e == CHOOSE e \in 0..4 : calculate_slab_size(size) = 2^e
      used == SlabHeader + Objects(size) * (size + ObjectHeader)
  IN /\ Objects(size) >= 8 \/ e = 4
     /\ \A d \in 0..(e - 1) : OBJECTS_PER_SLAB(size, 2^d * BLOCK_SIZE) < 8
     /\ used <= SlabBytes(size) /\ SlabBytes(size) < used + size + ObjectHeader

\* Both, for every request kmalloc or kmem_cache_create accepts.
SizesFit == Accepted(size) => ClassFitsRequest /\ ObjectsFitSlab

\* Every class a request can fall in, up to 2^17 (slab.h), has slabs that hold at
\* least one of its buffers, so that kmalloc can serve the request.
ClassServes == Accepted(size) => Objects(round_up_pow2(size)) > 0
=============================================================================
