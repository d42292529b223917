-------------------------------- MODULE Slab --------------------------------
(***************************************************************************)
(* The slab allocator of kernel/slab.c over the buddy allocator.           *)
(*                                                                         *)
(* Blocks are the units buddy_alloc hands out: a cache header and a slab   *)
(* take one block each (slabs of more blocks behave alike, and BlockPool,  *)
(* which Buddy implements, is all the slab layer relies on).  A cache and  *)
(* a slab are named by their block.  The slab lists are linked through     *)
(* next and prev as in the code; the free objects of a slab, linked        *)
(* through the objects, are a sequence of object numbers.                  *)
(*                                                                         *)
(* A step is the code between two lock operations.  Only kmem_cache_shrink *)
(* and kmem_cache_destroy keep cache->lock over several steps, because     *)
(* every slab they give back is a critical section of the buddy allocator. *)
(***************************************************************************)
EXTENDS Integers, Sequences, FiniteSets

CONSTANTS
  Procs,       \* kernel threads calling the allocator
  Blocks,      \* blocks the buddy allocator manages
  Sizes,       \* object sizes, as the number of objects a slab of it holds
  Classes,     \* kmalloc's size classes, a subset of Sizes
  NULL

Lists == {"partial", "full", "empty"}

\* A cache header and a slab header.  grown stands for num_grown >
\* last_shrink_state, the only use of the two counters; objs for num_objects_max,
\* valid for error_detection.
CacheType ==
  [valid : BOOLEAN, objs : Nat, partial : Blocks \cup {NULL}, full : Blocks \cup {NULL},
   empty : Blocks \cup {NULL}, num_slabs : Int, num_allocated : Int,
   grown : BOOLEAN, error_state : BOOLEAN]

SlabType ==
  [cache : Blocks, objs : Nat, num_free : Int, next : Blocks \cup {NULL},
   prev : Blocks \cup {NULL}, free_list : Seq(Nat)]

ASSUME SlabAssumption ==
  /\ Sizes \subseteq Nat /\ Classes \subseteq Sizes /\ IsFiniteSet(Blocks)
  /\ NULL \notin Procs \cup Blocks \cup Sizes \cup CacheType \cup SlabType

VARIABLES
  pool,           \* blocks the buddy allocator holds
  cache,          \* cache headers
  slab,           \* slab headers
  cache_list,     \* the list of all caches
  buffer_caches,  \* kmalloc's cache of each class, or NULL
  lock,           \* holder of cache->lock between steps, or NULL
  pc,             \* what each thread is doing
  open,           \* caches kmem_cache_create has returned to a client
  held            \* objects clients hold

vars == <<pool, cache, slab, cache_list, buffer_caches, lock, pc, open, held>>

Idle == [at |-> "idle", cache |-> NULL, why |-> NULL]

\* kmem_cache_create's memset and assignments.
NewCache(objs) ==
  [valid |-> TRUE, objs |-> objs, partial |-> NULL, full |-> NULL, empty |-> NULL,
   num_slabs |-> 0, num_allocated |-> 0, grown |-> FALSE, error_state |-> FALSE]

kmem_slab_create(c, objs) ==
  [cache |-> c, objs |-> objs, num_free |-> objs, next |-> NULL, prev |-> NULL,
   free_list |-> [i \in 1..objs |-> i]]

-----------------------------------------------------------------------------
(* List surgery.  m is the memory [cache, slab] it is done in.             *)

Memory == [cache |-> cache, slab |-> slab]

add_slab_to_list(m, c, list, s) ==
  LET first == m.cache[c][list] IN
  [cache |-> [m.cache EXCEPT ![c][list] = s],
   slab  |-> [b \in Blocks |->
                CASE b = s -> [m.slab[b] EXCEPT !.next = first, !.prev = NULL]
                  [] b = first -> [m.slab[b] EXCEPT !.prev = s]
                  [] OTHER -> m.slab[b]]]

remove_slab_from_list(m, c, list, s) ==
  LET next == m.slab[s].next
      prev == m.slab[s].prev
  IN
  [cache |-> IF prev = NULL THEN [m.cache EXCEPT ![c][list] = next] ELSE m.cache,
   slab  |-> [b \in Blocks |->
                CASE b = s -> [m.slab[b] EXCEPT !.next = NULL, !.prev = NULL]
                  [] b = prev -> [m.slab[b] EXCEPT !.next = next]
                  [] b = next -> [m.slab[b] EXCEPT !.prev = prev]
                  [] OTHER -> m.slab[b]]]

MoveSlab(m, c, from, to, s) ==
  add_slab_to_list(remove_slab_from_list(m, c, from, s), c, to, s)

\* The memory after kmem_cache_grow, given the block buddy_alloc returned.
kmem_cache_grow(m, c, b) ==
  LET made == [cache |-> [m.cache EXCEPT ![c].num_slabs = @ + 1, ![c].grown = TRUE],
               slab  |-> [m.slab EXCEPT ![b] = kmem_slab_create(c, m.cache[c].objs)]]
  IN  add_slab_to_list(made, c, "empty", b)

\* An object leaves the free list of its slab, or enters it, and is counted.
Took(m, c, s) ==
  [cache |-> [m.cache EXCEPT ![c].num_allocated = @ + 1],
   slab  |-> [m.slab EXCEPT ![s].free_list = Tail(@), ![s].num_free = @ - 1]]

Gave(m, c, s, i) ==
  [cache |-> [m.cache EXCEPT ![c].num_allocated = @ - 1],
   slab  |-> [m.slab EXCEPT ![s].free_list = <<i>> \o @, ![s].num_free = @ + 1]]

\* kmem_cache_alloc once it has a slab with a free object.
TakeObject(m, c, s) ==
  LET took == Took(m, c, s)
      left == took.slab[s].num_free
      used == IF left = took.slab[s].objs - 1
              THEN MoveSlab(took, c, "empty", "partial", s) ELSE took
  IN  IF left = 0 THEN MoveSlab(used, c, "partial", "full", s) ELSE used

\* Fault: "else if" for the second test, so a slab of one object stays partial.
PutObject_ElseIf(m, c, s, i) ==
  LET put == Gave(m, c, s, i)
      left == put.slab[s].num_free
  IN  CASE left = 1 -> MoveSlab(put, c, "full", "partial", s)
        [] left # 1 /\ left = put.slab[s].objs -> MoveSlab(put, c, "partial", "empty", s)
        [] OTHER -> put

\* kmem_cache_free of object i of slab s, through cache c.
PutObject(m, c, s, i) ==
  LET put == Gave(m, c, s, i)
      left == put.slab[s].num_free
      part == IF left = 1 THEN MoveSlab(put, c, "full", "partial", s) ELSE put
  IN  IF left = part.slab[s].objs THEN MoveSlab(part, c, "partial", "empty", s) ELSE part

Store(m) == cache' = m.cache /\ slab' = m.slab

-----------------------------------------------------------------------------
(* kmem_init, with the region not yet used.                                *)
Init ==
  /\ pool = Blocks
  /\ cache = [b \in Blocks |-> NULL]
  /\ slab = [b \in Blocks |-> NULL]
  /\ cache_list = <<>>
  /\ buffer_caches = [k \in Classes |-> NULL]
  /\ lock = [b \in Blocks |-> NULL]
  /\ pc = [p \in Procs |-> Idle]
  /\ open = {}
  /\ held = {}

Goto(p, at, c, why) == pc' = [pc EXCEPT ![p] = [at |-> at, cache |-> c, why |-> why]]
At(p, at) == pc[p].at = at

-----------------------------------------------------------------------------
(* kmem_cache_create, called by a client (why = NULL) or by kmalloc for a  *)
(* class (why = the class).                                                *)

\* buddy_alloc(1) and the initialisation of the header nobody else sees yet.
CreateHeader(p, objs, why) ==
  IF pool = {}
  THEN /\ Goto(p, "created", NULL, why)
       /\ UNCHANGED <<pool, cache>>
  ELSE \E b \in pool :
         /\ pool' = pool \ {b}
         /\ cache' = [cache EXCEPT ![b] = NewCache(objs)]
         /\ Goto(p, "list", b, why)

kmem_cache_create(p, objs) ==
  /\ At(p, "idle")
  /\ CreateHeader(p, objs, NULL)
  /\ UNCHANGED <<slab, cache_list, buffer_caches, lock, open, held>>

CreateList(p) ==
  /\ At(p, "list")
  /\ cache_list' = <<pc[p].cache>> \o cache_list
  /\ Goto(p, "grow", pc[p].cache, pc[p].why)
  /\ UNCHANGED <<pool, cache, slab, buffer_caches, lock, open, held>>

\* The first slab; a cache that cannot have it is returned all the same.
CreateGrow(p) ==
  LET c == pc[p].cache IN
  /\ At(p, "grow") /\ lock[c] = NULL
  /\ IF pool = {}
     THEN /\ cache' = [cache EXCEPT ![c].error_state = TRUE]
          /\ UNCHANGED <<pool, slab>>
     ELSE \E b \in pool : pool' = pool \ {b} /\ Store(kmem_cache_grow(Memory, c, b))
  /\ Goto(p, "created", c, pc[p].why)
  /\ UNCHANGED <<cache_list, buffer_caches, lock, open, held>>

CreateReturn(p) ==
  /\ At(p, "created") /\ pc[p].why = NULL
  /\ open' = open \cup ({pc[p].cache} \ {NULL})
  /\ pc' = [pc EXCEPT ![p] = Idle]
  /\ UNCHANGED <<pool, cache, slab, cache_list, buffer_caches, lock, held>>

-----------------------------------------------------------------------------
(* kmem_cache_alloc and kmem_cache_free: one critical section of the       *)
(* cache's lock each, in which kmem_cache_grow may call buddy_alloc.       *)

Available(c) == IF cache[c].partial # NULL THEN cache[c].partial ELSE cache[c].empty

\* via is the cache the client will name to free the object, or NULL for kfree.
Hand(m, c, s, via) ==
  IF m.slab[s].free_list = <<>>
  THEN /\ Store([cache |-> [m.cache EXCEPT ![c].error_state = TRUE], slab |-> m.slab])
       /\ UNCHANGED held
  ELSE /\ Store(TakeObject(m, c, s))
       /\ held' = held \cup {[slab |-> s, obj |-> Head(m.slab[s].free_list), via |-> via]}

AllocFrom(c, via) ==
  /\ cache[c].valid /\ lock[c] = NULL
  /\ \/ /\ Available(c) # NULL
        /\ Hand(Memory, c, Available(c), via)
        /\ UNCHANGED pool
     \/ /\ Available(c) = NULL /\ pool # {}
        /\ \E b \in pool :
             /\ pool' = pool \ {b}
             /\ Hand(kmem_cache_grow(Memory, c, b), c, b, via)
     \/ /\ Available(c) = NULL /\ pool = {}
        /\ cache' = [cache EXCEPT ![c].error_state = TRUE]
        /\ UNCHANGED <<pool, slab, held>>

kmem_cache_alloc(p, c) ==
  /\ At(p, "idle")
  /\ AllocFrom(c, c)
  /\ UNCHANGED <<cache_list, buffer_caches, lock, pc, open>>

FreeThrough(c, h) ==
  /\ cache[c].valid /\ lock[c] = NULL
  /\ Store(PutObject(Memory, c, h.slab, h.obj))
  /\ held' = held \ {h}

kmem_cache_free(p, h) ==
  /\ At(p, "idle") /\ h.via # NULL
  /\ FreeThrough(h.via, h)
  /\ UNCHANGED <<pool, cache_list, buffer_caches, lock, pc, open>>

-----------------------------------------------------------------------------
(* kmem_cache_shrink                                                       *)

\* The cache has grown since the last call: only the note of it is taken.
ShrinkNot(p, c) ==
  /\ At(p, "idle") /\ cache[c].valid /\ lock[c] = NULL
  /\ cache[c].grown
  /\ cache' = [cache EXCEPT ![c].grown = FALSE]
  /\ UNCHANGED <<pool, slab, cache_list, buffer_caches, lock, pc, open, held>>

ShrinkStart(p, c) ==
  /\ At(p, "idle") /\ cache[c].valid /\ lock[c] = NULL
  /\ ~cache[c].grown
  /\ lock' = [lock EXCEPT ![c] = p]
  /\ Goto(p, "shrink", c, NULL)
  /\ UNCHANGED <<pool, cache, slab, cache_list, buffer_caches, open, held>>

\* Unlink the first slab of a list and give its block back; counted is 1 when
\* num_slabs is kept up to date.
kmem_slab_destroy(c, list, counted) ==
  LET s == cache[c][list]
      m == remove_slab_from_list(Memory, c, list, s)
  IN
  /\ s # NULL
  /\ pool' = pool \cup {s}
  /\ Store([cache |-> [m.cache EXCEPT ![c].num_slabs = @ - counted],
            slab  |-> [m.slab EXCEPT ![s] = NULL]])
  /\ UNCHANGED <<cache_list, buffer_caches, lock, pc, open, held>>

\* Fault: the slab is not taken off num_slabs.
ShrinkSlab_Uncounted(p) == At(p, "shrink") /\ kmem_slab_destroy(pc[p].cache, "empty", 0)

\* Fault: the partial slabs are given back too.
ShrinkSlab_Partial(p) ==
  At(p, "shrink") /\ \E list \in {"empty", "partial"} : kmem_slab_destroy(pc[p].cache, list, 1)

ShrinkSlab(p) == At(p, "shrink") /\ kmem_slab_destroy(pc[p].cache, "empty", 1)

ShrinkEnd(p) ==
  LET c == pc[p].cache IN
  /\ At(p, "shrink") /\ cache[c].empty = NULL
  /\ lock' = [lock EXCEPT ![c] = NULL]
  /\ pc' = [pc EXCEPT ![p] = Idle]
  /\ UNCHANGED <<pool, cache, slab, cache_list, buffer_caches, open, held>>

-----------------------------------------------------------------------------
(* kmem_cache_destroy.  Its caller is done with the cache: no other call   *)
(* is using it, and the objects still allocated from it are abandoned.     *)

DestroyStart(p, c) ==
  /\ At(p, "idle") /\ cache[c].valid /\ lock[c] = NULL
  /\ \A q \in Procs : pc[q].cache # c
  /\ lock' = [lock EXCEPT ![c] = p]
  /\ open' = open \ {c}
  /\ held' = {h \in held : h.via # c}
  /\ Goto(p, "destroy", c, NULL)
  /\ UNCHANGED <<pool, cache, slab, cache_list, buffer_caches>>

\* The lists are emptied one after the other.
FirstList(c) ==
  IF cache[c].empty # NULL THEN "empty"
  ELSE IF cache[c].partial # NULL THEN "partial" ELSE "full"

DestroySlab(p) ==
  /\ At(p, "destroy")
  /\ kmem_slab_destroy(pc[p].cache, FirstList(pc[p].cache), 0)

\* Fault: the partial and full slabs are forgotten.
SlabsLeft_EmptyOnly(c) == cache[c].empty # NULL

SlabsLeft(c) == \E list \in Lists : cache[c][list] # NULL

\* cache_list without its entry for c.
Unlisted(c) ==
  LET k == CHOOSE i \in DOMAIN cache_list : cache_list[i] = c IN
  [i \in 1..Len(cache_list) - 1 |-> IF i < k THEN cache_list[i] ELSE cache_list[i + 1]]

DestroyUnlist(p) ==
  LET c == pc[p].cache IN
  /\ At(p, "destroy") /\ ~SlabsLeft(c)
  /\ cache_list' = Unlisted(c)
  /\ cache' = [cache EXCEPT ![c].valid = FALSE]
  /\ lock' = [lock EXCEPT ![c] = NULL]
  /\ Goto(p, "destroyed", c, NULL)
  /\ UNCHANGED <<pool, slab, buffer_caches, open, held>>

DestroyEnd(p) ==
  LET c == pc[p].cache IN
  /\ At(p, "destroyed")
  /\ pool' = pool \cup {c}
  /\ cache' = [cache EXCEPT ![c] = NULL]
  /\ pc' = [pc EXCEPT ![p] = Idle]
  /\ UNCHANGED <<slab, cache_list, buffer_caches, lock, open, held>>

-----------------------------------------------------------------------------
(* kmalloc and kfree.  buffer_cache_lock is not held while the cache of a  *)
(* class is created, so two threads may create one each: the last to store *)
(* its result wins.                                                        *)

kmalloc(p, k) ==
  /\ At(p, "idle")
  /\ IF buffer_caches[k] = NULL
     THEN CreateHeader(p, k, k)
     ELSE Goto(p, "kmalloc", buffer_caches[k], k) /\ UNCHANGED <<pool, cache>>
  /\ UNCHANGED <<slab, cache_list, buffer_caches, lock, open, held>>

\* Store the result, NULL included, and read it back under the same lock.
KmallocStore(p) ==
  LET c == pc[p].cache
      k == pc[p].why
  IN
  /\ At(p, "created") /\ k \in Classes
  /\ buffer_caches' = [buffer_caches EXCEPT ![k] = c]
  /\ IF c = NULL THEN pc' = [pc EXCEPT ![p] = Idle] ELSE Goto(p, "kmalloc", c, k)
  /\ UNCHANGED <<pool, cache, slab, cache_list, lock, open, held>>

KmallocAlloc(p) ==
  /\ At(p, "kmalloc")
  /\ AllocFrom(pc[p].cache, NULL)
  /\ pc' = [pc EXCEPT ![p] = Idle]
  /\ UNCHANGED <<cache_list, buffer_caches, lock, open>>

\* kfree finds the cache through the object's slab.
kfree(p, h) ==
  /\ At(p, "idle") /\ h.via = NULL
  /\ FreeThrough(slab[h.slab].cache, h)
  /\ UNCHANGED <<pool, cache_list, buffer_caches, lock, pc, open>>

-----------------------------------------------------------------------------
Step(p) ==
  \/ \E objs \in Sizes : kmem_cache_create(p, objs)
  \/ CreateList(p) \/ CreateGrow(p) \/ CreateReturn(p)
  \/ \E c \in open : \/ kmem_cache_alloc(p, c)
                     \/ ShrinkNot(p, c) \/ ShrinkStart(p, c)
                     \/ DestroyStart(p, c)
  \/ \E h \in held : kmem_cache_free(p, h) \/ kfree(p, h)
  \/ ShrinkSlab(p) \/ ShrinkEnd(p)
  \/ DestroySlab(p) \/ DestroyUnlist(p) \/ DestroyEnd(p)
  \/ \E k \in Classes : kmalloc(p, k)
  \/ KmallocStore(p) \/ KmallocAlloc(p)

Next == \E p \in Procs : Step(p)

Spec == Init /\ [][Next]_vars

-----------------------------------------------------------------------------
(* Properties.                                                             *)

\* The slabs n links away from the head of a list.
Link(c, list) ==
  LET walk[n \in 0..Cardinality(Blocks)] ==
        IF n = 0 THEN cache[c][list]
        ELSE IF walk[n - 1] = NULL THEN NULL ELSE slab[walk[n - 1]].next
  IN walk

SlabsOn(c, list) == {Link(c, list)[n] : n \in 0..Cardinality(Blocks)} \ {NULL}

SlabsOf(c) == {s \in Blocks : slab[s] # NULL /\ slab[s].cache = c}

Dying(c) == \E p \in Procs : pc[p].cache = c /\ pc[p].at \in {"destroy", "destroyed"}

\* The number of free objects says which list a slab is on.  A slab whose
\* objects fill more than a slab has room for none: it counts as empty.
ListFor(s) ==
  IF slab[s].num_free = slab[s].objs THEN "empty"
  ELSE IF slab[s].num_free = 0 THEN "full" ELSE "partial"

\* Whatever threads allocate, free, shrink and destroy, every slab of a cache
\* is on exactly the list its count of free objects calls for, the lists are
\* properly linked both ways, and they hold nothing else (the two MoveSlab of
\* kmem_cache_alloc and kmem_cache_free).
SlabsOnTheirList ==
  \A c \in Blocks : cache[c] # NULL => \A list \in Lists :
    /\ SlabsOn(c, list) = {s \in SlabsOf(c) : ListFor(s) = list}
    /\ cache[c][list] # NULL => slab[cache[c][list]].prev = NULL
    /\ \A s \in SlabsOn(c, list) :
         slab[s].next # NULL => slab[slab[s].next].prev = s

\* No object is handed out twice or lost: in every slab an object is either
\* free, once, or held by one client, and what a client holds lies in a slab
\* that has not been given back.  The counters kmem_cache_info reports are exact
\* (until the cache is being destroyed), although an object may be freed by
\* another thread and, from kmalloc, to a cache buffer_caches no longer names.
ObjectsOwnedOnce ==
  /\ \A c \in Blocks : cache[c] # NULL /\ ~Dying(c) =>
       /\ cache[c].num_allocated = Cardinality({h \in held : h.slab \in SlabsOf(c)})
       /\ cache[c].num_slabs = Cardinality(SlabsOf(c))
  /\ \A h \in held : slab[h.slab] # NULL
  /\ \A s \in Blocks : slab[s] # NULL =>
       LET free == slab[s].free_list
           out  == {h \in held : h.slab = s}
       IN  /\ Len(free) = slab[s].num_free
           /\ Cardinality({free[i] : i \in DOMAIN free}) = Len(free)
           /\ {free[i] : i \in DOMAIN free} \cap {h.obj : h \in out} = {}
           /\ Cardinality({h.obj : h \in out}) = Cardinality(out)
           /\ ~Dying(slab[s].cache) => Len(free) + Cardinality(out) = slab[s].objs

\* No block leaks and none serves two purposes: each is with the buddy
\* allocator, or a cache header, or a slab of an existing cache, although
\* shrinking and destroying give blocks back one at a time while other
\* threads take them.  The caches are those of cache_list, each listed once.
BlocksAccounted ==
  /\ \A i, j \in DOMAIN cache_list : cache_list[i] = cache_list[j] => i = j
  /\ {cache_list[i] : i \in DOMAIN cache_list} =
       {c \in Blocks : /\ cache[c] # NULL /\ cache[c].valid
                       /\ \A p \in Procs : ~(At(p, "list") /\ pc[p].cache = c)}
  /\ \A b \in Blocks :
       /\ Cardinality({u \in {"pool", "cache", "slab"} :
            \/ u = "pool" /\ b \in pool
            \/ u = "cache" /\ cache[b] # NULL
            \/ u = "slab" /\ slab[b] # NULL}) = 1
       /\ slab[b] # NULL => cache[slab[b].cache] # NULL
=============================================================================
