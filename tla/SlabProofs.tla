----------------------------- MODULE SlabProofs -----------------------------
(***************************************************************************)
(* The slab allocator neither loses a block or an object nor uses one      *)
(* twice, for any number of threads, blocks and object sizes.              *)
(***************************************************************************)
EXTENDS SlabInv

-----------------------------------------------------------------------------
(* The steps of a thread.                                                  *)

\* Thread p goes to place at with cache c; the others stay where they are.
Goes(p, at, c) ==
  /\ pc' \in PcType /\ pc'[p].at = at /\ pc'[p].cache = c
  /\ \A q \in Procs : q # p => pc'[q].at = pc[q].at /\ pc'[q].cache = pc[q].cache

\* What Goto does.
LEMMA GotoIs ==
  ASSUME TypeOK, NEW p \in Procs, NEW at \in Places, NEW c \in Blocks \cup {NULL},
         NEW why \in Classes \cup {NULL}, Goto(p, at, c, why)
  PROVE  Goes(p, at, c)
BY Zenon DEF TypeOK, PcType, Goto, Goes

\* The return to the caller.
LEMMA IdleIs ==
  ASSUME TypeOK, NEW p \in Procs, pc' = [pc EXCEPT ![p] = Idle]
  PROVE  Goes(p, "idle", NULL)
BY Zenon DEF TypeOK, PcType, Idle, Goes, Places

\* A thread that is at a place with a cache is typed.
LEMMA ThreadIs ==
  ASSUME TypeOK, NEW p \in Procs
  PROVE  pc[p].at \in Places /\ pc[p].cache \in Blocks \cup {NULL} /\ pc[p].why \in Classes \cup {NULL}
BY Zenon DEF TypeOK, PcType

\* The memory is as it was.
LEMMA SameMemory ==
  ASSUME UNCHANGED <<cache, slab>>
  PROVE  /\ Memory' = Memory /\ Headers' = Headers /\ Valid' = Valid
         /\ AllSlabs' = AllSlabs /\ Home' = Home
BY Zenon DEF Memory, Headers, Valid, AllSlabs, Home

\* A cache somebody can use is not being destroyed.
LEMMA NotDying ==
  ASSUME Counting, Inv, NEW c \in Blocks,
         \/ c \in open
         \/ \E k \in Classes : buffer_caches[k] = c
         \/ \E h \in held : Home[h.slab] = c
         \/ \E q \in Procs : pc[q].cache = c /\ pc[q].at \notin {"destroy", "destroyed"}
  PROVE  c \notin DyingOnes
<1> SUFFICES ASSUME NEW p \in Procs, pc[p].cache = c, pc[p].at \in {"destroy", "destroyed"}
             PROVE  FALSE
  BY Zenon DEF DyingOnes, Dying
<1>1. Alone(p)
  BY SlabAssumption, Zenon DEF Inv, Threads, Thread, Private
<1> QED  BY <1>1, Zenon DEF Alone

\* A step of a thread that destroys nothing, before or after.
LEMMA SameDying ==
  ASSUME NEW p \in Procs, pc[p].at \notin {"destroy", "destroyed"},
         NEW at, at \notin {"destroy", "destroyed"}, NEW c, Goes(p, at, c)
  PROVE  DyingOnes' = DyingOnes
BY Zenon DEF Goes, DyingOnes, Dying

\* Nothing changes for objects and counters.
LEMMA RightStays ==
  ASSUME Counting, Inv, UNCHANGED <<cache, slab, held>>, DyingOnes' = DyingOnes
  PROVE  WellListed(Memory)' /\ Right(Memory, held, DyingOnes)'
<1>1. Memory' = Memory
  BY SameMemory, Zenon
<1> QED  BY <1>1, Zenon DEF Inv

\* kmem_cache_create enters the cache in cache_list.
LEMMA CreateListKeeps ==
  ASSUME Counting, Inv, NEW p \in Procs, CreateList(p)
  PROVE  Inv'
<1> DEFINE c == pc[p].cache
<1>1. TypeOK /\ OneUse /\ Listed /\ Threads /\ Public /\ Thread(p)
  BY Zenon DEF Inv, Threads
<1> USE <1>1
<1>2. c \in Blocks /\ c \in Valid /\ Alone(p) /\ pc[p].at = "list"
  BY ThreadIs, Zenon DEF CreateList, At, Thread, Private
<1> USE <1>2
<1>3. Goes(p, "grow", c)
  BY ThreadIs, GotoIs, Zenon DEF CreateList, Places
<1> USE <1>3
<1> HIDE DEF c
<1>4. DyingOnes' = DyingOnes
  BY SameDying, Zenon
<1>5. UNCHANGED <<pool, cache, slab, buffer_caches, lock, open, held>> /\ cache_list' = <<c>> \o cache_list
  BY Zenon DEF CreateList, c
<1> USE <1>5
<1>6. /\ Memory' = Memory /\ Headers' = Headers /\ Valid' = Valid
      /\ AllSlabs' = AllSlabs /\ Home' = Home
  BY SameMemory, Zenon
<1> USE <1>6
<1>7. TypeOK'
  BY DEF TypeOK, Goes
<1>8. OneUse' /\ Public'
  BY ZenonT(30) DEF OneUse, Public
<1>9. Threads'
  <2> SUFFICES ASSUME NEW q \in Procs PROVE Thread(q)'
    BY Zenon DEF Threads
  <2>1. Thread(q)
    BY Zenon DEF Threads
  <2> QED  BY <2>1 DEF Thread, Alone, Goes, Private, c
<1>10. Listed'
  <2>1. Entering' = Entering \ {c} /\ c \in Entering
    BY SMTT(30) DEF Entering, At, Goes, Alone, c
  <2>2. Inj(cache_list) /\ \A d : Among(d, cache_list) <=> d \in Valid \ Entering
    BY Zenon DEF Listed, Inj, Among
  <2>3. Inj(cache_list') /\ \A d : Among(d, cache_list') <=> d = c \/ Among(d, cache_list)
    BY <2>1, <2>2, Pushed, Zenon DEF TypeOK
  <2> QED  BY <2>1, <2>2, <2>3, Zenon DEF Listed, Inj, Among
<1> QED  BY <1>4, <1>7, <1>8, <1>9, <1>10, RightStays, Zenon DEF Inv

\* A step that leaves memory, objects and cache_list alone, by a thread that
\* neither enters nor leaves a list or a destruction.
LEMMA OnlyThreads ==
  ASSUME Counting, Inv, NEW p \in Procs, NEW at, NEW c, Goes(p, at, c),
         pc[p].at \notin {"list", "destroy", "destroyed"}, at \notin {"list", "destroy", "destroyed"},
         UNCHANGED <<pool, cache, slab, cache_list, held>>
  PROVE  OneUse' /\ Listed' /\ WellListed(Memory)' /\ Right(Memory, held, DyingOnes)'
<1>1. DyingOnes' = DyingOnes
  BY SameDying, Zenon
<1>2. Entering' = Entering
  BY Zenon DEF Entering, At, Goes
<1>3. /\ Memory' = Memory /\ Headers' = Headers /\ Valid' = Valid
      /\ AllSlabs' = AllSlabs /\ Home' = Home
  BY SameMemory, Zenon
<1>4. OneUse' /\ Listed'
  BY <1>2, <1>3, Zenon DEF Inv, OneUse, Listed
<1> QED  BY <1>1, <1>4, RightStays, Zenon

\* kmem_cache_create returns the cache to the client.
LEMMA CreateReturnKeeps ==
  ASSUME Counting, Inv, NEW p \in Procs, CreateReturn(p)
  PROVE  Inv'
<1> DEFINE c == pc[p].cache
<1>1. TypeOK /\ Threads /\ Public /\ Thread(p)
  BY Zenon DEF Inv, Threads
<1> USE <1>1
<1>2. /\ c \in Blocks \cup {NULL} /\ pc[p].at = "created"
      /\ c # NULL => c \in Valid /\ Alone(p)
  BY ThreadIs, Zenon DEF CreateReturn, At, Thread, Private
<1> USE <1>2
<1>3. Goes(p, "idle", NULL)
  BY IdleIs, Zenon DEF CreateReturn
<1> USE <1>3
<1>4. /\ UNCHANGED <<pool, cache, slab, cache_list, buffer_caches, lock, held>>
      /\ open' = open \cup ({c} \ {NULL})
  BY Zenon DEF CreateReturn
<1> USE <1>4
<1> HIDE DEF c
<1>5. OneUse' /\ Listed' /\ WellListed(Memory)' /\ Right(Memory, held, DyingOnes)'
  BY OnlyThreads, Zenon
<1>6. /\ Headers' = Headers /\ Valid' = Valid /\ AllSlabs' = AllSlabs /\ Home' = Home
  BY SameMemory, Zenon
<1>7. TypeOK'
  BY Zenon DEF TypeOK, Goes
<1>8. Public'
  BY <1>6, SlabAssumption, Zenon DEF Public, Alone, c
<1>9. Threads'
  <2> SUFFICES ASSUME NEW q \in Procs PROVE Thread(q)'
    BY Zenon DEF Threads
  <2>1. Thread(q)
    BY Zenon DEF Threads
  <2>2. CASE q = p
    BY <2>2, ZenonT(30) DEF Thread, Goes, Private
  <2>3. CASE q # p
    BY <1>6, <2>1, <2>3 DEF Thread, Alone, Goes, Private, c
  <2> QED  BY <2>2, <2>3, Zenon
<1> QED  BY <1>5, <1>7, <1>8, <1>9, Zenon DEF Inv

\* kmem_cache_shrink takes the lock.
LEMMA ShrinkStartKeeps ==
  ASSUME Counting, Inv, NEW p \in Procs, NEW c \in open, ShrinkStart(p, c)
  PROVE  Inv'
<1>1. TypeOK /\ Threads /\ Public /\ Thread(p) /\ c \in Blocks /\ c \in Valid
  BY Zenon DEF Inv, Threads, TypeOK, Public
<1> USE <1>1
<1>2. pc[p].at = "idle" /\ lock[c] = NULL /\ c # NULL
  BY SlabAssumption, Zenon DEF ShrinkStart, At
<1> USE <1>2
<1>3. Goes(p, "shrink", c)
  BY GotoIs, Zenon DEF ShrinkStart, Places
<1> USE <1>3
<1>4. /\ UNCHANGED <<pool, cache, slab, cache_list, buffer_caches, open, held>>
      /\ lock' = [lock EXCEPT ![c] = p]
  BY Zenon DEF ShrinkStart
<1> USE <1>4
<1>5. OneUse' /\ Listed' /\ WellListed(Memory)' /\ Right(Memory, held, DyingOnes)'
  BY OnlyThreads, Zenon
<1>6. /\ Headers' = Headers /\ Valid' = Valid /\ AllSlabs' = AllSlabs /\ Home' = Home
  BY SameMemory, Zenon
<1> USE <1>6
<1>7. TypeOK'
  BY Zenon DEF TypeOK, Goes
<1>8. Public'
  BY Zenon DEF Public
<1>9. Threads'
  <2> SUFFICES ASSUME NEW q \in Procs PROVE Thread(q)'
    BY Zenon DEF Threads
  <2>1. Thread(q)
    BY Zenon DEF Threads
  <2>2. CASE q = p
    BY <2>2, ZenonT(30) DEF Thread, Goes, Private, TypeOK, Valid, Headers, ValidIn, HeadersIn
  <2>3. CASE q # p
    <3>1. lock[c] # q
      BY SlabAssumption, Zenon
    <3> QED  BY <2>1, <2>3, <3>1 DEF Thread, Alone, Goes, Private, TypeOK
  <2> QED  BY <2>2, <2>3, Zenon
<1> QED  BY <1>5, <1>7, <1>8, <1>9, Zenon DEF Inv

\* kmem_cache_shrink releases the lock.
LEMMA ShrinkEndKeeps ==
  ASSUME Counting, Inv, NEW p \in Procs, ShrinkEnd(p)
  PROVE  Inv'
<1> DEFINE c == pc[p].cache
<1>1. TypeOK /\ Threads /\ Public /\ Thread(p)
  BY Zenon DEF Inv, Threads
<1> USE <1>1
<1>2. pc[p].at = "shrink" /\ c \in Blocks /\ lock[c] = p
  BY ThreadIs, Zenon DEF ShrinkEnd, At, Thread
<1>3. Goes(p, "idle", NULL)
  BY IdleIs, Zenon DEF ShrinkEnd
<1> USE <1>3
<1>4. /\ UNCHANGED <<pool, cache, slab, cache_list, buffer_caches, open, held>>
      /\ lock' = [lock EXCEPT ![c] = NULL]
  BY Zenon DEF ShrinkEnd
<1> USE <1>4
<1> HIDE DEF c
<1>5. OneUse' /\ Listed' /\ WellListed(Memory)' /\ Right(Memory, held, DyingOnes)'
  BY <1>2, OnlyThreads, Zenon
<1>6. /\ Headers' = Headers /\ Valid' = Valid /\ AllSlabs' = AllSlabs /\ Home' = Home
  BY SameMemory, Zenon
<1>7. TypeOK'
  BY Zenon DEF TypeOK, Goes
<1>8. Public'
  BY <1>6, Zenon DEF Public
<1>9. Threads'
  <2> SUFFICES ASSUME NEW q \in Procs PROVE Thread(q)'
    BY Zenon DEF Threads
  <2>1. Thread(q)
    BY Zenon DEF Threads
  <2>2. CASE q = p
    BY <2>2, ZenonT(30) DEF Thread, Goes, Private
  <2>3. CASE q # p
    BY <1>2, <1>6, <2>1, <2>3, SlabAssumption DEF Thread, Alone, Goes, Private, TypeOK
  <2> QED  BY <2>2, <2>3, Zenon
<1> QED  BY <1>5, <1>7, <1>8, <1>9, Zenon DEF Inv

\* kmalloc stores the cache it has created, or the NULL it was given.
LEMMA KmallocStoreKeeps ==
  ASSUME Counting, Inv, NEW p \in Procs, KmallocStore(p)
  PROVE  Inv'
<1> DEFINE c == pc[p].cache
<1> DEFINE k == pc[p].why
<1> DEFINE at == IF c = NULL THEN "idle" ELSE "kmalloc"
<1>1. TypeOK /\ Threads /\ Public /\ Thread(p)
  BY Zenon DEF Inv, Threads
<1> USE <1>1
<1>2. /\ c \in Blocks \cup {NULL} /\ pc[p].at = "created" /\ k \in Classes
      /\ c # NULL => c \in Valid /\ c \in Headers /\ Alone(p)
  BY ThreadIs, Zenon DEF KmallocStore, At, Thread, Private
<1> USE <1>2
<1>3. Goes(p, at, c)
  <2>1. CASE c = NULL
    BY <2>1, IdleIs, Zenon DEF KmallocStore
  <2>2. CASE c # NULL
    BY <2>2, GotoIs, Zenon DEF KmallocStore, Places
  <2> QED  BY <2>1, <2>2, Zenon
<1> USE <1>3
<1>4. /\ UNCHANGED <<pool, cache, slab, cache_list, lock, open, held>>
      /\ buffer_caches' = [buffer_caches EXCEPT ![k] = c]
  BY Zenon DEF KmallocStore
<1> USE <1>4
<1> HIDE DEF c, k
<1>5. OneUse' /\ Listed' /\ WellListed(Memory)' /\ Right(Memory, held, DyingOnes)'
  BY OnlyThreads, Zenon
<1>6. /\ Headers' = Headers /\ Valid' = Valid /\ AllSlabs' = AllSlabs /\ Home' = Home
  BY SameMemory, Zenon
<1> USE <1>6
<1>7. TypeOK'
  BY Zenon DEF TypeOK, Goes
<1>8. Public'
  BY Zenon DEF Public, Alone, TypeOK, c
<1>9. Threads'
  <2> SUFFICES ASSUME NEW q \in Procs PROVE Thread(q)'
    BY Zenon DEF Threads
  <2>1. Thread(q)
    BY Zenon DEF Threads
  <2>2. CASE q = p
    BY <2>2, ZenonT(30) DEF Thread, Goes, Private, Alone, c
  <2>3. CASE q # p
    BY <2>1, <2>3, SMTT(30) DEF Thread, Alone, Goes, Private, TypeOK, c
  <2> QED  BY <2>2, <2>3, Zenon
<1> QED  BY <1>5, <1>7, <1>8, <1>9, Zenon DEF Inv

\* kmem_cache_destroy takes the lock of a cache nobody else uses.
LEMMA DestroyStartKeeps ==
  ASSUME Counting, Inv, NEW p \in Procs, NEW c \in open, DestroyStart(p, c)
  PROVE  Inv'
<1>1. /\ TypeOK /\ OneUse /\ Listed /\ Threads /\ Public /\ Thread(p) /\ c \in Blocks /\ c \in Valid
      /\ Right(Memory, held, DyingOnes)
  BY Zenon DEF Inv, Threads, TypeOK, Public
<1> USE <1>1
<1>2. pc[p].at = "idle" /\ lock[c] = NULL /\ c # NULL /\ \A q \in Procs : pc[q].cache # c
  BY SlabAssumption, Zenon DEF DestroyStart, At
<1> USE <1>2
<1>3. Goes(p, "destroy", c)
  BY GotoIs, Zenon DEF DestroyStart, Places
<1> USE <1>3
<1>4. /\ UNCHANGED <<pool, cache, slab, cache_list, buffer_caches>>
      /\ lock' = [lock EXCEPT ![c] = p] /\ open' = open \ {c} /\ held' = {h \in held : h.via # c}
  BY Zenon DEF DestroyStart
<1> USE <1>4
<1>5. /\ Memory' = Memory /\ Headers' = Headers /\ Valid' = Valid /\ AllSlabs' = AllSlabs /\ Home' = Home
  BY SameMemory, Zenon
<1> USE <1>5
<1>6. DyingOnes' = DyingOnes \cup {c}
  BY ZenonT(30) DEF DyingOnes, Dying, Goes
<1>7. Entering' = Entering
  BY Zenon DEF Entering, At, Goes
<1>8. TypeOK' /\ OneUse' /\ Listed'
  BY <1>7, ZenonT(30) DEF TypeOK, Goes, OneUse, Listed
<1>9. Public'
  BY Zenon DEF Public
<1>10. Right(Memory, held, DyingOnes)'
  <2>1. ASSUME NEW s \in Blocks, Memory.slab[s] # NULL, Memory.slab[s].cache \notin DyingOnes \cup {c}
        PROVE  Memory.slab[s].cache \notin DyingOnes /\ Out(held', s) = Out(held, s)
    <3>1. Home[s] # c
      BY <2>1, Zenon DEF Home, HomeIn
    <3>2. \A h \in held : h.slab = s => h.via # c
      BY <3>1, Zenon DEF Public
    <3> QED  BY <2>1, <3>2, Zenon DEF Out
  <2>2. \A d \in Blocks : SameCache(Memory, Memory, d)
    BY Zenon DEF SameCache, SameCounts
  <2>3. Kept(Memory, Memory, held, held', DyingOnes, DyingOnes \cup {c})
    BY <2>1, <2>2, Zenon DEF Kept
  <2> QED  BY <1>6, <2>3, KeptRight, Zenon
<1>11. Threads'
  <2> SUFFICES ASSUME NEW q \in Procs PROVE Thread(q)'
    BY Zenon DEF Threads
  <2>1. Thread(q)
    BY Zenon DEF Threads
  <2>2. CASE q = p
    <3>1. \A h \in held : h.via # c => Home[h.slab] # c
      BY Zenon DEF Public
    <3>2. \A k \in Classes : buffer_caches[k] # c
      BY Zenon DEF Public
    <3>3. c \in Headers
      BY Zenon DEF Valid, Headers, ValidIn, HeadersIn
    <3>4. Alone(p)'
      BY <3>1, <3>2, ZenonT(30) DEF Alone, Goes
    <3> QED  BY <2>2, <3>3, <3>4, Zenon DEF Thread, Goes, Private, TypeOK
  <2>3. CASE q # p
    <3>1. lock[c] # q /\ pc[q].cache # c
      BY SlabAssumption, Zenon
    <3> QED  BY <2>1, <2>3, <3>1 DEF Thread, Alone, Goes, Private, TypeOK
  <2> QED  BY <2>2, <2>3, Zenon
<1> QED  BY <1>8, <1>9, <1>10, <1>11, Zenon DEF Inv

-----------------------------------------------------------------------------
(* Steps that write a field of one header.                                 *)

WithHeader(m, c, r) == [cache |-> [m.cache EXCEPT ![c] = r], slab |-> m.slab]

\* A new header for c with the same lists.
LEMMA HeaderIs ==
  ASSUME NEW m, WellListed(m), NEW c \in Blocks, m.cache[c] # NULL,
         NEW r \in CacheType, r # NULL, \A l \in Lists : r[l] = m.cache[c][l],
         NEW n, n = WithHeader(m, c, r)
  PROVE  /\ WellListed(n) /\ n.slab = m.slab /\ n.cache[c] = r
         /\ \A d \in Blocks \ {c} : n.cache[d] = m.cache[d]
<1>1. /\ m \in MemType /\ m.cache \in [Blocks -> CacheType \cup {NULL}]
      /\ m.slab \in [Blocks -> SlabType \cup {NULL}]
  BY Zenon DEF WellListed, Chained, MemType
<1>2. n.slab = m.slab /\ n.cache = [m.cache EXCEPT ![c] = r] /\ n = [cache |-> n.cache, slab |-> n.slab]
  BY Zenon DEF WithHeader
<1>3. n.cache \in [Blocks -> CacheType \cup {NULL}]
  BY ONLY <1>1, <1>2, r \in CacheType, Zenon
<1>4. n \in MemType
  BY ONLY <1>1, <1>2, <1>3, Zenon DEF MemType
<1>5. n.cache[c] = r /\ \A d \in Blocks \ {c} : n.cache[d] = m.cache[d]
  BY ONLY <1>1, <1>2, c \in Blocks, Zenon
<1> USE <1>5
<1>6. \A s \in SlabsIn(m) : n.cache[m.slab[s].cache] # NULL
  <2> SUFFICES ASSUME NEW s \in SlabsIn(m) PROVE n.cache[m.slab[s].cache] # NULL
    BY Zenon
  <2>1. m.slab[s].cache \in Blocks /\ m.cache[m.slab[s].cache] # NULL
    BY CacheOfSlab DEF WellListed
  <2> QED  BY <2>1, Zenon
<1>7. \A b \in Blocks, l \in Lists : n.cache[b] # NULL =>
           n.cache[b][l] = IF m.cache[b] = NULL THEN NULL ELSE m.cache[b][l]
  BY ZenonT(30)
<1>8. n.slab = m.slab
  BY ONLY <1>2, Zenon
<1>9. WellListed(n)
  BY ONLY WellListed(m), <1>4, <1>6, <1>7, <1>8, OnlyCaches
<1> QED  BY <1>8, <1>9, Zenon

\* Writing error_state or the note of growth.
LEMMA FlagKeeps ==
  ASSUME Counting, NEW m, WellListed(m), NEW H, NEW K, Right(m, H, K), NEW c \in Blocks, m.cache[c] # NULL,
         NEW n, \/ n = [cache |-> [m.cache EXCEPT ![c].error_state = TRUE], slab |-> m.slab]
                \/ n = [cache |-> [m.cache EXCEPT ![c].grown = FALSE], slab |-> m.slab]
  PROVE  WellListed(n) /\ Right(n, H, K) /\ SameUse(m, n) /\ SlabsIn(n) = SlabsIn(m)
<1>1. m.cache[c] \in CacheType
  BY Zenon DEF WellListed, Chained, MemType
<1>2. PICK r : /\ r \in {SetError(m.cache[c]), SetNoGrown(m.cache[c])}
               /\ n = WithHeader(m, c, r)
  BY <1>1, Zenon DEF SetError, SetNoGrown, WellListed, Chained, MemType, WithHeader
<1>3. r \in CacheType /\ r # NULL /\ SameCounts(m.cache[c], r) /\ \A l \in Lists : r[l] = m.cache[c][l]
  BY ONLY <1>1, <1>2, FlagIs
<1>4. /\ WellListed(n) /\ n.slab = m.slab /\ n.cache[c] = r
      /\ \A d \in Blocks \ {c} : n.cache[d] = m.cache[d]
  BY ONLY WellListed(m), c \in Blocks, m.cache[c] # NULL, <1>2, <1>3, HeaderIs
<1> USE <1>4
<1>5. ASSUME NEW d \in Blocks PROVE SameCache(m, n, d)
  <2>1. CASE d = c
    BY <1>3, <2>1, Zenon DEF SameCache
  <2>2. CASE d # c
    BY <2>2, Zenon DEF SameCache, SameCounts
  <2> QED  BY <2>1, <2>2, Zenon
<1>6. Kept(m, n, H, H, K, K)
  BY <1>5, Zenon DEF Kept, SameCache
<1>7. Right(n, H, K)
  BY <1>6, KeptRight, Zenon
<1>8. HeadersIn(n) = HeadersIn(m) /\ ValidIn(n) = ValidIn(m)
  BY <1>3, <1>5, SameHeaders, Zenon DEF SameCounts
<1>9. SlabsIn(n) = SlabsIn(m) /\ HomeIn(n) = HomeIn(m)
  BY Zenon DEF SlabsIn, HomeIn
<1> QED  BY <1>7, <1>8, <1>9, Zenon DEF SameUse

\* kmem_cache_destroy takes the cache off cache_list.
LEMMA DestroyUnlistKeeps ==
  ASSUME Counting, Inv, NEW p \in Procs, DestroyUnlist(p)
  PROVE  Inv'
<1> DEFINE c == pc[p].cache
<1>1. /\ TypeOK /\ OneUse /\ Listed /\ Threads /\ Public /\ Thread(p)
      /\ WellListed(Memory) /\ Right(Memory, held, DyingOnes)
  BY Zenon DEF Inv, Threads
<1> USE <1>1
<1>2. pc[p].at = "destroy" /\ c \in Blocks /\ c # NULL /\ lock[c] = p /\ c \in Valid /\ Alone(p) /\ c \in Headers
  BY ThreadIs, Zenon DEF DestroyUnlist, At, Thread, Private
<1> USE <1>2
<1>3. Goes(p, "destroyed", c)
  BY GotoIs, Zenon DEF DestroyUnlist, Places
<1> USE <1>3
<1>4. /\ UNCHANGED <<pool, slab, buffer_caches, open, held>> /\ lock' = [lock EXCEPT ![c] = NULL]
      /\ cache' = [cache EXCEPT ![c].valid = FALSE] /\ cache_list' = Unlisted(c) /\ ~SlabsLeft(c)
  BY Zenon DEF DestroyUnlist
<1> USE <1>4
<1> HIDE DEF c
<1>5. cache[c] # NULL /\ cache[c] \in CacheType /\ cache \in [Blocks -> CacheType \cup {NULL}]
  BY MemoryIs, Zenon DEF WellListed, Chained, MemType
<1> USE <1>5
<1>6. PICK r : r = SetInvalid(cache[c])
  BY Zenon
<1>7. r \in CacheType /\ r # NULL /\ ~r.valid /\ \A l \in Lists : r[l] = cache[c][l]
  BY <1>6, FlagIs, Zenon
<1>8. Memory' = WithHeader(Memory, c, r)
  BY <1>6, Zenon DEF Memory, WithHeader, SetInvalid
<1>9. /\ WellListed(Memory)' /\ slab' = slab /\ cache'[c] = r
      /\ \A d \in Blocks \ {c} : cache'[d] = cache[d]
  <2>1. /\ WellListed(Memory') /\ Memory'.slab = Memory.slab /\ Memory'.cache[c] = r
        /\ \A d \in Blocks \ {c} : Memory'.cache[d] = Memory.cache[d]
    BY <1>7, <1>8, HeaderIs, MemoryIs
  <2> QED  BY <2>1, Zenon DEF Memory
<1> USE <1>9
<1>10. Headers' = Headers /\ Valid' = Valid \ {c} /\ AllSlabs' = AllSlabs /\ Home' = Home
  BY <1>7, ZenonT(30) DEF Memory, Headers, Valid, AllSlabs, Home, HeadersIn, ValidIn, SlabsIn, HomeIn
<1> USE <1>10
<1>11. \A s \in AllSlabs : Home[s] # c
  <2>1. \A l \in Lists : Memory.cache[c][l] = NULL
    BY MemoryIs, Zenon DEF SlabsLeft
  <2>2. \A s \in SlabsIn(Memory) : Memory.slab[s].cache # c
    BY <2>1, NoHeads, Zenon
  <2> QED  BY <2>2, Zenon DEF AllSlabs, Home, HomeIn, SlabsIn
<1>12. DyingOnes' = DyingOnes /\ c \in DyingOnes
  BY DEF DyingOnes, Dying, Goes, c
<1>13. Right(Memory, held, DyingOnes)'
  <2>1. \A d \in Blocks : d # c => SameCache(Memory, Memory', d)
    BY Zenon DEF SameCache, SameCounts, Memory
  <2>2. Kept(Memory, Memory', held, held', DyingOnes, DyingOnes')
    BY <1>12, <2>1, Zenon DEF Kept, SameCache, Memory
  <2> QED  BY <2>2, KeptRight, Zenon
<1>14. /\ cache_list' \in Seq(Blocks) /\ Inj(cache_list')
       /\ \A d : Among(d, cache_list') <=> d # c /\ Among(d, cache_list)
  <2>1. c \notin Entering
    BY Zenon DEF Entering, At, Alone, c
  <2>2. \E i \in DOMAIN cache_list : cache_list[i] = c
    BY <2>1, Zenon DEF Listed
  <2>3. PICK k \in DOMAIN cache_list : cache_list[k] = c /\ cache_list' = Dropped(cache_list, k)
    BY <2>2, Zenon DEF Unlisted, Dropped
  <2>4. cache_list \in Seq(Blocks) /\ Inj(cache_list)
    BY Zenon DEF TypeOK, Listed, Inj
  <2> QED  BY ONLY <2>3, <2>4, Removed
<1>15. Entering' = Entering
  BY DEF Entering, At, Goes
<1>16. Listed'
  <2>1. Inj(cache_list) /\ \A d : Among(d, cache_list) <=> d \in Valid \ Entering
    BY Zenon DEF Listed, Inj, Among
  <2> QED  BY <1>14, <1>15, <2>1, Zenon DEF Listed, Inj, Among
<1>17. TypeOK' /\ OneUse'
  BY <1>14, Zenon DEF TypeOK, OneUse, Goes
<1>18. Public'
  BY Zenon DEF Public, Alone, c
<1>19. Threads'
  <2> SUFFICES ASSUME NEW q \in Procs PROVE Thread(q)'
    BY Zenon DEF Threads
  <2>1. Thread(q)
    BY Zenon DEF Threads
  <2>2. CASE q = p
    BY <1>11, <2>2, SMTT(20) DEF Thread, Goes, Private, Alone, c
  <2>3. CASE q # p
    BY <2>1, <2>3, SMTT(30) DEF Thread, Alone, Goes, Private, TypeOK, c
  <2> QED  BY <2>2, <2>3, Zenon
<1> QED  BY <1>13, <1>16, <1>17, <1>18, <1>19, Zenon DEF Inv

\* kmem_cache_destroy gives the header back.
LEMMA DestroyEndKeeps ==
  ASSUME Counting, Inv, NEW p \in Procs, DestroyEnd(p)
  PROVE  Inv'
<1> DEFINE c == pc[p].cache
<1>1. /\ TypeOK /\ OneUse /\ Listed /\ Threads /\ Public /\ Thread(p)
      /\ WellListed(Memory) /\ Right(Memory, held, DyingOnes)
  BY Zenon DEF Inv, Threads
<1> USE <1>1
<1>2. /\ pc[p].at = "destroyed" /\ c \in Blocks /\ c # NULL /\ c \in Headers /\ c \notin Valid /\ Alone(p)
      /\ \A s \in AllSlabs : Home[s] # c
  BY ThreadIs, Zenon DEF DestroyEnd, At, Thread, Private
<1> USE <1>2
<1>3. Goes(p, "idle", NULL)
  BY IdleIs, Zenon DEF DestroyEnd
<1> USE <1>3
<1>4. /\ UNCHANGED <<slab, cache_list, buffer_caches, lock, open, held>>
      /\ pool' = pool \cup {c} /\ cache' = [cache EXCEPT ![c] = NULL]
  BY Zenon DEF DestroyEnd
<1> USE <1>4
<1> HIDE DEF c
<1>5. /\ cache \in [Blocks -> CacheType \cup {NULL}] /\ slab \in [Blocks -> SlabType \cup {NULL}]
  BY MemoryIs, Zenon DEF WellListed, Chained, MemType
<1> USE <1>5
<1>6. cache'[c] = NULL /\ \A d \in Blocks \ {c} : cache'[d] = cache[d]
  BY Zenon
<1> USE <1>6
<1>7. Headers' = Headers \ {c} /\ Valid' = Valid /\ AllSlabs' = AllSlabs /\ Home' = Home
  BY Zenon DEF Memory, Headers, Valid, AllSlabs, Home, HeadersIn, ValidIn, SlabsIn, HomeIn
<1> USE <1>7
<1>8. DyingOnes' = DyingOnes \ {c}
  BY DEF DyingOnes, Dying, Goes, Alone, c
<1>9. WellListed(Memory)'
  <2>1. cache' \in [Blocks -> CacheType \cup {NULL}] /\ slab' = slab
    BY Zenon
  <2>2. Memory' \in MemType /\ Memory'.slab = Memory.slab
    BY <2>1, Zenon DEF Memory, MemType
  <2>3. \A b \in Blocks, l \in Lists : Memory'.cache[b] # NULL =>
           Memory'.cache[b][l] = IF Memory.cache[b] = NULL THEN NULL ELSE Memory.cache[b][l]
    BY Zenon DEF Memory
  <2>4. \A s \in SlabsIn(Memory) : Memory'.cache[Memory.slab[s].cache] # NULL
    <3> SUFFICES ASSUME NEW s \in SlabsIn(Memory) PROVE Memory'.cache[Memory.slab[s].cache] # NULL
      BY Zenon
    <3>1. Memory.slab[s].cache \in Blocks /\ Memory.cache[Memory.slab[s].cache] # NULL
      BY CacheOfSlab DEF WellListed
    <3>2. Memory.slab[s].cache # c
      BY Zenon DEF AllSlabs, Home, HomeIn, SlabsIn
    <3> QED  BY <3>1, <3>2, Zenon DEF Memory
  <2> QED  BY ONLY <1>1, <2>2, <2>3, <2>4, OnlyCaches
<1>10. Right(Memory, held, DyingOnes)'
  <2>1. \A d \in Blocks : d # c => SameCache(Memory, Memory', d)
    BY Zenon DEF SameCache, SameCounts, Memory
  <2>2. \A s \in Blocks : Memory.slab[s] # NULL => Memory.slab[s].cache # c
    BY Zenon DEF AllSlabs, Home, HomeIn, SlabsIn
  <2>3. Kept(Memory, Memory', held, held', DyingOnes, DyingOnes')
    BY <1>8, <2>1, <2>2, Zenon DEF Kept, SameCache, Memory
  <2> QED  BY <2>3, KeptRight, Zenon
<1>11. Entering' = Entering
  BY DEF Entering, At, Goes
<1>12. TypeOK' /\ Listed'
  BY <1>11 DEF TypeOK, Listed, Goes
<1>13. OneUse'
  BY DEF OneUse
<1>14. Public'
  BY Zenon DEF Public
<1>15. Threads'
  <2> SUFFICES ASSUME NEW q \in Procs PROVE Thread(q)'
    BY Zenon DEF Threads
  <2>1. Thread(q)
    BY Zenon DEF Threads
  <2>2. CASE q = p
    BY <2>2, ZenonT(30) DEF Thread, Goes, Private
  <2>3. CASE q # p
    BY <2>1, <2>3 DEF Thread, Alone, Goes, Private, c
  <2> QED  BY <2>2, <2>3, Zenon
<1> QED  BY <1>9, <1>10, <1>12, <1>13, <1>14, <1>15, Zenon DEF Inv

-----------------------------------------------------------------------------
(* Creating a header.                                                      *)

\* kmem_cache_create, called by a client or by kmalloc, initialises the header.
LEMMA CreateHeaderKeeps ==
  ASSUME Counting, Inv, NEW p \in Procs, pc[p].at = "idle", NEW objs \in Sizes, NEW why \in Classes \cup {NULL},
         CreateHeader(p, objs, why), UNCHANGED <<slab, cache_list, buffer_caches, lock, open, held>>
  PROVE  Inv'
<1>1. /\ TypeOK /\ OneUse /\ Listed /\ Threads /\ Public /\ Thread(p)
      /\ WellListed(Memory) /\ Right(Memory, held, DyingOnes)
  BY Zenon DEF Inv, Threads
<1> USE <1>1
<1>2. CASE pool = {}
  <2>1. Goes(p, "created", NULL) /\ UNCHANGED <<pool, cache>>
    BY <1>2, GotoIs, Zenon DEF CreateHeader, Places
  <2> USE <2>1
  <2>2. OneUse' /\ Listed' /\ WellListed(Memory)' /\ Right(Memory, held, DyingOnes)'
    BY OnlyThreads, Zenon
  <2>3. Headers' = Headers /\ Valid' = Valid /\ AllSlabs' = AllSlabs /\ Home' = Home
    BY SameMemory, Zenon
  <2>4. TypeOK' /\ Public'
    BY <2>3, Zenon DEF TypeOK, Public, Goes
  <2>5. ASSUME NEW q \in Procs PROVE Thread(q)'
    <3>1. Thread(q)
      BY Zenon DEF Threads
    <3>2. CASE q = p
      BY <3>2, Zenon DEF Thread, Goes
    <3>3. CASE q # p
      BY <2>3, <3>1, <3>3, Zenon DEF Thread, Alone, Goes, Private
    <3> QED  BY <3>2, <3>3, Zenon
  <2> QED  BY <2>2, <2>4, <2>5, Zenon DEF Inv, Threads
<1>3. CASE pool # {}
  <2>1. PICK b \in pool : /\ pool' = pool \ {b} /\ cache' = [cache EXCEPT ![b] = NewCache(objs)]
                          /\ Goto(p, "list", b, why)
    BY <1>3, Zenon DEF CreateHeader
  <2> USE <2>1
  <2>2. b \in Blocks /\ b # NULL /\ b \notin Headers /\ b \notin AllSlabs /\ b \notin Valid
    BY SlabAssumption DEF TypeOK, OneUse, Valid, Headers, ValidIn, HeadersIn
  <2> USE <2>2
  <2>3. Goes(p, "list", b)
    BY GotoIs, Zenon DEF Places
  <2> USE <2>3
  <2>4. PICK r : r = NewCache(objs)
    BY Zenon
  <2> USE <2>4
  <2>5. /\ r \in CacheType /\ r # NULL /\ r.valid /\ r.num_slabs = 0 /\ r.num_allocated = 0
        /\ \A l \in Lists : r[l] = NULL
    BY NewCacheIs, SlabAssumption, Zenon
  <2> USE <2>5
  <2>6. /\ cache \in [Blocks -> CacheType \cup {NULL}] /\ slab \in [Blocks -> SlabType \cup {NULL}]
        /\ cache[b] = NULL
    BY MemoryIs, Zenon DEF WellListed, Chained, MemType
  <2> USE <2>6
  <2>7. cache'[b] = r /\ \A d \in Blocks \ {b} : cache'[d] = cache[d]
    BY ZenonT(30)
  <2> USE <2>7
  <2>8. Headers' = Headers \cup {b} /\ Valid' = Valid \cup {b} /\ AllSlabs' = AllSlabs /\ Home' = Home
    BY DEF Memory, Headers, Valid, AllSlabs, Home, HeadersIn, ValidIn, SlabsIn, HomeIn
  <2> USE <2>8
  <2>9. DyingOnes' = DyingOnes
    BY SameDying, Zenon
  <2>10. WellListed(Memory)'
    <3>1. cache' \in [Blocks -> CacheType \cup {NULL}]
      BY Zenon
    <3>2. Memory' \in MemType /\ Memory'.slab = Memory.slab
      BY <3>1, Zenon DEF Memory, MemType
    <3>3. \A d \in Blocks, l \in Lists : Memory'.cache[d] # NULL =>
             Memory'.cache[d][l] = IF Memory.cache[d] = NULL THEN NULL ELSE Memory.cache[d][l]
      BY Zenon DEF Memory
    <3>4. \A s \in SlabsIn(Memory) : Memory'.cache[Memory.slab[s].cache] # NULL
      <4> SUFFICES ASSUME NEW s \in SlabsIn(Memory) PROVE Memory'.cache[Memory.slab[s].cache] # NULL
        BY Zenon
      <4>1. Memory.slab[s].cache \in Blocks /\ Memory.cache[Memory.slab[s].cache] # NULL
        BY CacheOfSlab DEF WellListed
      <4> QED  BY <4>1, Zenon DEF Memory
    <3> QED  BY ONLY <1>1, <3>2, <3>3, <3>4, OnlyCaches
  <2>11. Right(Memory, held, DyingOnes)'
    <3>1. \A d \in Blocks : d # b => SameCache(Memory, Memory', d)
      BY Zenon DEF SameCache, SameCounts, Memory
    <3>2. Of(Memory, b) = {}
      <4>1. \A s \in Blocks : Memory.slab[s] # NULL => Memory.slab[s].cache \in Headers
        BY Zenon DEF OneUse, AllSlabs, SlabsIn, Home, HomeIn
      <4> QED  BY <4>1 DEF Of
    <3>3. Kept(Memory, Memory', held, held', DyingOnes, DyingOnes')
      BY <2>9, <3>1, <3>2, Zenon DEF Kept, SameCache, Memory
    <3> QED  BY <3>3, KeptRight, Zenon
  <2>12. TypeOK'
    BY Zenon DEF TypeOK, Goes
  <2>13. OneUse'
    BY DEF OneUse
  <2>14. Listed'
    <3>1. Entering' = Entering \cup {b}
      BY DEF Entering, At, Goes
    <3> QED  BY <3>1 DEF Listed
  <2>15. Public'
    BY Zenon DEF Public
  <2>16. \A q \in Procs : pc[q].cache # b
    BY DEF Threads, Thread
  <2>17. /\ b \notin open /\ \A k \in Classes : buffer_caches[k] # b
    BY Zenon DEF Public
  <2>18. \A h \in held : h.via # b /\ Home[h.slab] # b
    <3> SUFFICES ASSUME NEW h \in held PROVE h.via # b /\ Home[h.slab] # b
      BY Zenon
    <3>1. h.slab \in AllSlabs
      BY Zenon DEF Right, Object, AllSlabs, SlabsIn
    <3> QED  BY <2>17, <3>1 DEF Public, OneUse
  <2>19. ASSUME NEW q \in Procs PROVE Thread(q)'
    <3>1. Thread(q)
      BY Zenon DEF Threads
    <3>2. CASE q = p
      BY <2>16, <2>17, <2>18, <3>2, SMTT(20) DEF Thread, Goes, Alone, Private
    <3>3. CASE q # p
      BY <2>16, <3>1, <3>3 DEF Thread, Alone, Goes, Private
    <3> QED  BY <3>2, <3>3, Zenon
  <2> QED  BY <2>10, <2>11, <2>12, <2>13, <2>14, <2>15, <2>19, Zenon DEF Inv, Threads
<1> QED  BY <1>2, <1>3, Zenon

\* The two callers of kmem_cache_create.
LEMMA CreateKeeps ==
  ASSUME Counting, Inv, NEW p \in Procs, NEW objs \in Sizes, kmem_cache_create(p, objs)
  PROVE  Inv'
<1>1. pc[p].at = "idle" /\ CreateHeader(p, objs, NULL) /\ UNCHANGED <<slab, cache_list, buffer_caches, lock, open, held>>
  BY Zenon DEF kmem_cache_create, At
<1> QED  BY <1>1, CreateHeaderKeeps, Zenon

\* kmalloc that finds no cache of its class creates the header of one.
LEMMA KmallocKeeps ==
  ASSUME Counting, Inv, NEW p \in Procs, NEW k \in Classes, kmalloc(p, k)
  PROVE  Inv'
<1>1. pc[p].at = "idle" /\ UNCHANGED <<slab, cache_list, buffer_caches, lock, open, held>>
  BY Zenon DEF kmalloc, At
<1> USE <1>1
<1>2. CASE buffer_caches[k] = NULL
  <2>1. CreateHeader(p, k, k) /\ k \in Sizes
    BY <1>2, SlabAssumption, Zenon DEF kmalloc
  <2> QED  BY <2>1, CreateHeaderKeeps, Zenon
<1>3. CASE buffer_caches[k] # NULL
  <2> USE <1>3
  <2> DEFINE c == buffer_caches[k]
  <2>1. TypeOK /\ Threads /\ Public /\ Thread(p)
    BY Zenon DEF Inv, Threads
  <2> USE <2>1
  <2>2. c \in Blocks /\ c \in Valid /\ c \in Headers /\ c \notin open
    BY Zenon DEF TypeOK, Public, Valid, Headers, ValidIn, HeadersIn
  <2>3. Goes(p, "kmalloc", c) /\ UNCHANGED <<pool, cache>>
    BY <2>2, GotoIs, Zenon DEF kmalloc, Places
  <2> USE <2>3
  <2>new. c # NULL
    BY Zenon
  <2> HIDE DEF c
  <2>4. OneUse' /\ Listed' /\ WellListed(Memory)' /\ Right(Memory, held, DyingOnes)'
    BY OnlyThreads, Zenon
  <2>5. Headers' = Headers /\ Valid' = Valid /\ AllSlabs' = AllSlabs /\ Home' = Home
    BY SameMemory, Zenon
  <2> USE <2>5
  <2>6. TypeOK' /\ Public'
    BY Zenon DEF TypeOK, Public, Goes
  <2>7. ASSUME NEW q \in Procs PROVE Thread(q)'
    <3>1. Thread(q)
      BY Zenon DEF Threads
    <3>2. CASE q = p
      BY <2>new, <2>2, <3>2, Zenon DEF Thread, Goes, Private
    <3>3. CASE q # p
      BY <3>1, <3>3 DEF Thread, Alone, Goes, Private, c
    <3> QED  BY <3>2, <3>3, Zenon
  <2> QED  BY <2>4, <2>6, <2>7, Zenon DEF Inv, Threads
<1> QED  BY <1>2, <1>3, Zenon

-----------------------------------------------------------------------------
(* Steps that write slabs.                                                 *)

\* The memory after Store.
LEMMA StoreIs ==
  ASSUME NEW x \in MemType, Store(x)
  PROVE  Memory' = x
BY Zenon DEF MemType, Store, Memory

\* Every slab and every held object is as it was or new, and of cache c.
Reused(c, via) ==
  /\ pool' \in SUBSET Blocks /\ Headers' = Headers /\ Valid' = Valid
  /\ \A t \in AllSlabs' : Home[t]' = IF t \in AllSlabs THEN Home[t] ELSE c
  /\ \A h \in held' : \/ Home[h.slab]' = c /\ h.via = via
                      \/ h \in held /\ Home[h.slab]' = Home[h.slab]

\* A thread that does not own c alone, and does not move, is not concerned.
LEMMA ThreadStays ==
  ASSUME Counting, Inv, NEW q \in Procs, NEW c \in Blocks, NEW via \in {c, NULL}, Reused(c, via),
         UNCHANGED <<buffer_caches, lock, open>>,
         pc'[q].at = pc[q].at, pc'[q].cache = pc[q].cache,
         \A r \in Procs : pc'[r].cache \in {pc[r].cache, NULL},
         pc[q].at \in Private => pc[q].cache # c
  PROVE  Thread(q)'
<1>1. Thread(q)
  BY Zenon DEF Inv, Threads
<1> USE <1>1
<1>2. ASSUME pc[q].at \in Private, pc[q].cache # NULL PROVE Alone(q)'
  <2>1. Alone(q)
    BY <1>2, Zenon DEF Thread
  <2> QED  BY <1>2, <2>1, Zenon DEF Alone, Reused
<1>3. pc[q].at = "destroyed" => pc[q].cache \notin Valid /\ \A s \in AllSlabs' : Home[s]' # pc[q].cache
  BY Zenon DEF Thread, Reused, Private
<1> QED  BY <1>2, <1>3, Zenon DEF Thread, Reused

\* Public knowledge stays sound when objects of c are handed out, through via.
LEMMA PublicStays ==
  ASSUME Counting, Inv, NEW c \in Blocks, NEW via \in {c, NULL}, Reused(c, via),
         IF via = NULL THEN c \notin open ELSE c \in open,
         UNCHANGED <<buffer_caches, open>>
  PROVE  Public'
BY SlabAssumption, Zenon DEF Inv, Public, Reused

\* Handing out an object of slab s.
LEMMA HandIs ==
  ASSUME Counting, NEW m, WellListed(m), NEW K, Right(m, held, K), NEW c \in Blocks, c \notin K,
         NEW s \in Blocks, m.slab[s] # NULL, m.slab[s].cache = c, NEW via \in Blocks \cup {NULL},
         Hand(m, c, s, via)
  PROVE  /\ WellListed(Memory)' /\ Right(Memory', held', K)
         /\ SameUse(m, Memory') /\ SlabsIn(Memory') = SlabsIn(m)
         /\ \A h \in held' : h \in held \/ (h.slab = s /\ h.via = via)
<1>1. m \in MemType /\ s \in SlabsIn(m) /\ m.cache[c] # NULL
  <2>1. m \in MemType /\ s \in SlabsIn(m)
    BY Zenon DEF WellListed, Chained, SlabsIn
  <2> QED  BY <2>1, CacheOfSlab, Zenon DEF WellListed
<1> USE <1>1
<1>2. CASE m.slab[s].free_list = <<>>
  <2>1. PICK n : n = [cache |-> [m.cache EXCEPT ![c].error_state = TRUE], slab |-> m.slab]
    BY Zenon
  <2>2. WellListed(n) /\ Right(n, held, K) /\ SameUse(m, n) /\ SlabsIn(n) = SlabsIn(m)
    BY <2>1, FlagKeeps
  <2>3. n \in MemType
    BY <2>2, Zenon DEF WellListed, Chained
  <2>4. Store(n) /\ held' = held
    BY <1>2, <2>1, Zenon DEF Hand
  <2>5. Memory' = n
    BY <2>3, <2>4, StoreIs, Zenon
  <2> QED  BY <2>2, <2>4, <2>5, Zenon
<1>3. CASE m.slab[s].free_list # <<>>
  <2> USE <1>3
  <2>1. PICK free : free = m.slab[s].free_list
    BY Zenon
  <2> USE <2>1
  <2>2. PICK n : n = TakeObject(m, c, s)
    BY Zenon
  <2>3. PICK h : h = [slab |-> s, obj |-> Head(free), via |-> via]
    BY Zenon
  <2> USE <2>3
  <2>4. /\ m.slab[s].num_free = Len(free) /\ Len(free) + Cardinality(Out(held, s)) = m.slab[s].objs
        /\ IsFiniteSet(held)
    BY Zenon DEF Right, SlabRight
  <2>5. m.slab[s] \in SlabType
    BY Zenon DEF MemType
  <2>6. Len(free) \in Nat /\ m.slab[s].objs \in Nat
    BY <2>5, SeqLen, Zenon DEF SlabType
  <2>7. Len(free) <= m.slab[s].objs
    <3>1. Cardinality(Out(held, s)) \in Nat
      BY <2>4, CountsOfSlab, Zenon
    <3> QED  BY ONLY <2>4, <2>6, <3>1
  <2>8. WellListed(n) /\ Handed(m, n, c, s, free)
    BY <2>2, <2>4, <2>7, TakeIs
  <2> USE <2>8
  <2>9. Right(n, held \cup {h}, K)
    BY TakeRight, Zenon
  <2>10. SameUse(m, n) /\ SlabsIn(n) = SlabsIn(m)
    BY MovedUse, Zenon DEF Handed
  <2>11. n \in MemType
    BY Zenon DEF Handed, Moved
  <2>12. Store(n) /\ held' = held \cup {h}
    BY <2>2, Zenon DEF Hand
  <2>13. Memory' = n
    BY <2>11, <2>12, StoreIs, Zenon
  <2>14. h.slab = s /\ h.via = via
    BY Zenon
  <2> QED  BY <2>9, <2>10, <2>12, <2>13, <2>14, Zenon
<1> QED  BY <1>2, <1>3, Zenon

\* The first slab of a list of cache c, or NULL.
LEMMA AvailableIs ==
  ASSUME Counting, Inv, NEW c \in Headers, NEW s, s = Available(c), s # NULL
  PROVE  s \in Blocks /\ Memory.slab[s] # NULL /\ Memory.slab[s].cache = c /\ s \in AllSlabs
<1>1. c \in Blocks /\ WellListed(Memory) /\ Memory.cache[c] # NULL
  BY Zenon DEF Inv, Headers, HeadersIn
<1>2. PICK l \in Lists : s = Memory.cache[c][l]
  <2>1. CASE cache[c].partial # NULL
    BY <2>1, MemoryIs, Zenon DEF Available, Lists
  <2>2. CASE cache[c].partial = NULL
    BY <2>2, MemoryIs, Zenon DEF Available, Lists
  <2> QED  BY <2>1, <2>2, Zenon
<1> QED  BY <1>1, <1>2, HeadIs DEF AllSlabs

\* What kmem_cache_grow does to the uses of the blocks, for a block of the pool.
LEMMA GrowsBy ==
  ASSUME Counting, Inv, NEW c \in Headers, NEW b \in pool, NEW n, n = kmem_cache_grow(Memory, c, b)
  PROVE  /\ WellListed(n) /\ Right(n, held, DyingOnes) /\ SameUse(Memory, n) /\ n \in MemType
         /\ SlabsIn(n) = AllSlabs \cup {b} /\ HomeIn(n)[b] = c
         /\ b \in Blocks /\ b \notin AllSlabs /\ n.slab[b] # NULL /\ n.slab[b].cache = c
<1>1. /\ c \in Blocks /\ b \in Blocks /\ WellListed(Memory) /\ Right(Memory, held, DyingOnes)
      /\ Memory \in MemType /\ Memory.cache[c] # NULL
  BY Zenon DEF Inv, Headers, HeadersIn, TypeOK, WellListed, Chained
<1> USE <1>1
<1>2. b \notin AllSlabs /\ Memory.slab[b] = NULL
  BY Zenon DEF Inv, OneUse, AllSlabs, SlabsIn
<1> USE <1>2
<1>3. WellListed(n) /\ Grown(Memory, n, c, b)
  BY GrowIs, Zenon
<1> USE <1>3
<1>4. Right(n, held, DyingOnes)
  BY GrowRight, Zenon
<1>5. SameUse(Memory, n) /\ SlabsIn(n) = AllSlabs \cup {b} /\ HomeIn(n)[b] = c
  <2>1. SameUse(Memory, n) /\ AddedSlab(Memory, n, c, b)
    BY ONLY <1>1, <1>2, <1>3, GrownUse, Zenon
  <2> QED  BY ONLY <2>1, Zenon DEF AllSlabs, AddedSlab
<1>6. n \in MemType /\ n.slab[b] # NULL /\ n.slab[b].cache = c
  BY Zenon DEF Grown
<1> QED  BY <1>4, <1>5, <1>6, Zenon

\* The uses of the blocks, from those of the memories.
LEMMA UseIs ==
  ASSUME NEW m, SameUse(m, Memory')
  PROVE  /\ Headers' = HeadersIn(m) /\ Valid' = ValidIn(m)
         /\ \A t \in AllSlabs' \cap SlabsIn(m) : Home[t]' = HomeIn(m)[t]
BY Zenon DEF SameUse, Headers, Valid, AllSlabs, Home

\* A step that leaves the slabs where they are.
LEMMA SameSlabsUse ==
  ASSUME Counting, Inv, NEW c \in Blocks, NEW via, SameUse(Memory, Memory'), SlabsIn(Memory') = AllSlabs, pool' = pool,
         \A h \in held' : h \in held \/ (Home[h.slab] = c /\ h.via = via), Right(Memory', held', DyingOnes)
  PROVE  OneUse' /\ Reused(c, via)
<1>1. /\ Headers' = Headers /\ Valid' = Valid /\ AllSlabs' = AllSlabs
      /\ \A t \in AllSlabs : Home[t]' = Home[t]
  BY UseIs, Zenon DEF AllSlabs, Headers, Valid, Home
<1> USE <1>1
<1>2. \A h \in held' : h.slab \in AllSlabs
  BY Zenon DEF Right, Object, AllSlabs, SlabsIn
<1>3. OneUse'
  BY Zenon DEF Inv, OneUse
<1> QED  BY <1>2, <1>3, Zenon DEF Reused, Inv, TypeOK

\* A step that makes block b of the pool a slab of c.
LEMMA NewSlabUse ==
  ASSUME Counting, Inv, NEW c \in Headers, NEW via, NEW b \in pool, pool' = pool \ {b}, NEW n,
         SameUse(Memory, n), SlabsIn(n) = AllSlabs \cup {b}, HomeIn(n)[b] = c,
         SameUse(n, Memory'), SlabsIn(Memory') = SlabsIn(n),
         \A h \in held' : h \in held \/ (h.slab = b /\ h.via = via)
  PROVE  OneUse' /\ Reused(c, via)
<1>1. /\ Headers' = Headers /\ Valid' = Valid /\ AllSlabs' = AllSlabs \cup {b} /\ b \in Blocks
      /\ b \notin AllSlabs /\ b \notin Headers
      /\ Home[b]' = c /\ \A t \in AllSlabs : Home[t]' = Home[t]
  <2>1. b \in Blocks /\ b \notin AllSlabs /\ b \notin Headers
    BY Zenon DEF Inv, TypeOK, OneUse
  <2>2. AllSlabs' = SlabsIn(n)
    BY Zenon DEF AllSlabs
  <2>3. Headers' = HeadersIn(n) /\ Valid' = ValidIn(n) /\ \A t \in SlabsIn(n) : Home[t]' = HomeIn(n)[t]
    BY <2>2, UseIs, Zenon
  <2>4. /\ HeadersIn(n) = Headers /\ ValidIn(n) = Valid
        /\ \A t \in AllSlabs : HomeIn(n)[t] = Home[t]
    BY Zenon DEF SameUse, Headers, Valid, AllSlabs, Home
  <2> QED  BY <2>1, <2>2, <2>3, <2>4, Zenon
<1>2. \A h \in held : h.slab \in AllSlabs
  BY Zenon DEF Inv, Right, Object, AllSlabs, SlabsIn
<1>3. OneUse'
  BY <1>1 DEF Inv, OneUse
<1> QED  BY <1>1, <1>2, <1>3, Zenon DEF Reused, Inv, TypeOK

\* kmem_cache_alloc's critical section.
LEMMA AllocIs ==
  ASSUME Counting, Inv, NEW c \in Headers, c \notin DyingOnes, NEW via \in {c, NULL}, AllocFrom(c, via)
  PROVE  WellListed(Memory)' /\ Right(Memory', held', DyingOnes) /\ OneUse' /\ Reused(c, via)
<1>1. /\ c \in Blocks /\ WellListed(Memory) /\ Right(Memory, held, DyingOnes) /\ Memory.cache[c] # NULL
      /\ via \in Blocks \cup {NULL}
  BY Zenon DEF Inv, Headers, HeadersIn
<1> USE <1>1
<1>2. CASE Available(c) # NULL /\ Hand(Memory, c, Available(c), via) /\ UNCHANGED pool
  <2> USE <1>2
  <2>1. PICK s : s = Available(c)
    BY Zenon
  <2>2. s \in Blocks /\ Memory.slab[s] # NULL /\ Memory.slab[s].cache = c /\ s \in AllSlabs
    BY <2>1, AvailableIs, Zenon
  <2>3. /\ WellListed(Memory)' /\ Right(Memory', held', DyingOnes)
        /\ SameUse(Memory, Memory') /\ SlabsIn(Memory') = SlabsIn(Memory)
        /\ \A h \in held' : h \in held \/ (h.slab = s /\ h.via = via)
    BY <2>1, <2>2, HandIs, Zenon
  <2> USE <2>3
  <2>4. \A h \in held' : h \in held \/ (Home[h.slab] = c /\ h.via = via)
    BY <2>2, Zenon DEF Home, HomeIn
  <2>5. OneUse' /\ Reused(c, via)
    BY <2>4, SameSlabsUse, Zenon DEF AllSlabs
  <2> QED  BY <2>5, Zenon
<1>3. ASSUME NEW b \in pool, pool' = pool \ {b}, Hand(kmem_cache_grow(Memory, c, b), c, b, via)
      PROVE  WellListed(Memory)' /\ Right(Memory', held', DyingOnes) /\ OneUse' /\ Reused(c, via)
  <2>1. PICK n : n = kmem_cache_grow(Memory, c, b)
    BY Zenon
  <2>2. /\ WellListed(n) /\ Right(n, held, DyingOnes) /\ SameUse(Memory, n) /\ n \in MemType
        /\ SlabsIn(n) = AllSlabs \cup {b} /\ HomeIn(n)[b] = c
        /\ b \in Blocks /\ b \notin AllSlabs /\ n.slab[b] # NULL /\ n.slab[b].cache = c
    BY <2>1, GrowsBy
  <2>3. /\ WellListed(Memory)' /\ Right(Memory', held', DyingOnes)
        /\ SameUse(n, Memory') /\ SlabsIn(Memory') = SlabsIn(n)
        /\ \A h \in held' : h \in held \/ (h.slab = b /\ h.via = via)
    BY <1>3, <2>1, <2>2, HandIs, Zenon
  <2>4. OneUse' /\ Reused(c, via)
    BY <1>3, <2>2, <2>3, NewSlabUse, Zenon
  <2> QED  BY <2>3, <2>4, Zenon
<1>4. CASE cache' = [cache EXCEPT ![c].error_state = TRUE] /\ UNCHANGED <<pool, slab, held>>
  <2> USE <1>4
  <2>1. Memory' = [cache |-> [Memory.cache EXCEPT ![c].error_state = TRUE], slab |-> Memory.slab]
    BY Zenon DEF Memory
  <2>2. /\ WellListed(Memory') /\ Right(Memory', held, DyingOnes) /\ SameUse(Memory, Memory')
        /\ SlabsIn(Memory') = SlabsIn(Memory)
    BY <2>1, FlagKeeps
  <2>3. OneUse' /\ Reused(c, via)
    BY <2>2, SameSlabsUse, Zenon DEF AllSlabs
  <2> QED  BY <2>2, <2>3, Zenon
<1> QED  BY <1>2, <1>3, <1>4, Zenon DEF AllocFrom

\* kmem_cache_alloc.
LEMMA AllocKeeps ==
  ASSUME Counting, Inv, NEW p \in Procs, NEW c \in open, kmem_cache_alloc(p, c)
  PROVE  Inv'
<1>1. c \in Blocks /\ c \in Headers /\ c \notin DyingOnes /\ c # NULL
  BY NotDying, SlabAssumption, Zenon DEF Inv, TypeOK, Public, Valid, Headers, ValidIn, HeadersIn
<1> USE <1>1
<1>2. AllocFrom(c, c) /\ UNCHANGED <<cache_list, buffer_caches, lock, pc, open>>
  BY Zenon DEF kmem_cache_alloc
<1> USE <1>2
<1>3. WellListed(Memory)' /\ Right(Memory', held', DyingOnes) /\ OneUse' /\ Reused(c, c)
  BY AllocIs, Zenon
<1> USE <1>3
<1>4. Public'
  BY PublicStays, Zenon
<1>5. ASSUME NEW q \in Procs PROVE Thread(q)'
  <2>1. pc[q].at \in Private => pc[q].cache # c
    BY Zenon DEF Inv, Threads, Thread, Alone
  <2> QED  BY <2>1, ThreadStays, Zenon
<1>6. DyingOnes' = DyingOnes /\ Entering' = Entering
  BY Zenon DEF DyingOnes, Dying, Entering, At
<1>7. TypeOK' /\ Listed'
  BY <1>6, Zenon DEF Inv, TypeOK, Listed, Reused
<1> QED  BY <1>4, <1>5, <1>6, <1>7, Zenon DEF Inv, Threads

\* kmalloc's allocation.
LEMMA KmallocAllocKeeps ==
  ASSUME Counting, Inv, NEW p \in Procs, KmallocAlloc(p)
  PROVE  Inv'
<1> DEFINE c == pc[p].cache
<1>1. TypeOK /\ Threads /\ Thread(p) /\ pc[p].at = "kmalloc"
  BY Zenon DEF Inv, Threads, KmallocAlloc, At
<1> USE <1>1
<1>2. c \in Blocks /\ c \in Headers /\ c \notin open /\ c # NULL
  BY ThreadIs, Zenon DEF Thread
<1> USE <1>2
<1>3. c \notin DyingOnes
  BY NotDying, Zenon
<1>4. AllocFrom(c, NULL) /\ UNCHANGED <<cache_list, buffer_caches, lock, open>>
  BY Zenon DEF KmallocAlloc
<1> USE <1>4
<1>5. Goes(p, "idle", NULL)
  BY IdleIs, Zenon DEF KmallocAlloc
<1> USE <1>5
<1> HIDE DEF c
<1>6. WellListed(Memory)' /\ Right(Memory', held', DyingOnes) /\ OneUse' /\ Reused(c, NULL)
  BY <1>3, AllocIs, Zenon
<1> USE <1>6
<1>7. Public'
  BY PublicStays, Zenon
<1>8. ASSUME NEW q \in Procs PROVE Thread(q)'
  <2>1. CASE q = p
    BY <2>1, Zenon DEF Thread, Goes, Private
  <2>2. CASE q # p
    <3>1. pc[q].at \in Private => pc[q].cache # c
      BY <2>2, Zenon DEF Threads, Thread, Alone, c
    <3>2. \A r \in Procs : pc'[r].cache \in {pc[r].cache, NULL}
      BY Zenon DEF Goes
    <3>3. pc'[q].at = pc[q].at /\ pc'[q].cache = pc[q].cache
      BY <2>2, Zenon DEF Goes
    <3> QED  BY <3>1, <3>2, <3>3, ThreadStays, Zenon
  <2> QED  BY <2>1, <2>2, Zenon
<1>9. DyingOnes' = DyingOnes
  BY SameDying, Zenon
<1>10. Entering' = Entering
  BY Zenon DEF Entering, At, Goes
<1>11. TypeOK' /\ Listed'
  BY <1>10, Zenon DEF Inv, TypeOK, Listed, Reused, Goes
<1> QED  BY <1>7, <1>8, <1>9, <1>11, Zenon DEF Inv, Threads

\* kmem_cache_create's first slab.
LEMMA CreateGrowKeeps ==
  ASSUME Counting, Inv, NEW p \in Procs, CreateGrow(p)
  PROVE  Inv'
<1> DEFINE c == pc[p].cache
<1>1. TypeOK /\ Threads /\ Public /\ Thread(p) /\ pc[p].at = "grow"
  BY Zenon DEF Inv, Threads, CreateGrow, At
<1> USE <1>1
<1>2. c \in Blocks /\ c \in Headers /\ c # NULL /\ Alone(p) /\ c \in Valid
  BY ThreadIs, Zenon DEF Thread, Private
<1> USE <1>2
<1>3. Goes(p, "created", c)
  BY ThreadIs, GotoIs, Zenon DEF CreateGrow, Places
<1> USE <1>3
<1>4. /\ UNCHANGED <<cache_list, buffer_caches, lock, open, held>>
      /\ \/ cache' = [cache EXCEPT ![c].error_state = TRUE] /\ UNCHANGED <<pool, slab>>
         \/ \E b \in pool : pool' = pool \ {b} /\ Store(kmem_cache_grow(Memory, c, b))
  BY Zenon DEF CreateGrow
<1> USE <1>4
<1> HIDE DEF c
<1>5. WellListed(Memory)' /\ Right(Memory', held', DyingOnes) /\ OneUse' /\ Reused(c, NULL)
  <2>1. CASE cache' = [cache EXCEPT ![c].error_state = TRUE] /\ UNCHANGED <<pool, slab>>
    <3>1. Memory' = [cache |-> [Memory.cache EXCEPT ![c].error_state = TRUE], slab |-> Memory.slab]
      BY <2>1, Zenon DEF Memory
    <3>2. WellListed(Memory) /\ Right(Memory, held, DyingOnes) /\ Memory.cache[c] # NULL
      BY Zenon DEF Inv, Headers, HeadersIn
    <3>3. /\ WellListed(Memory') /\ Right(Memory', held, DyingOnes) /\ SameUse(Memory, Memory')
          /\ SlabsIn(Memory') = SlabsIn(Memory)
      BY <3>1, <3>2, FlagKeeps
    <3>4. OneUse' /\ Reused(c, NULL)
      BY <2>1, <3>3, SameSlabsUse, Zenon DEF AllSlabs
    <3> QED  BY <3>3, <3>4, Zenon
  <2>2. ASSUME NEW b \in pool, pool' = pool \ {b}, Store(kmem_cache_grow(Memory, c, b))
        PROVE  WellListed(Memory)' /\ Right(Memory', held', DyingOnes) /\ OneUse' /\ Reused(c, NULL)
    <3>1. PICK n : n = kmem_cache_grow(Memory, c, b)
      BY Zenon
    <3>2. /\ WellListed(n) /\ Right(n, held, DyingOnes) /\ SameUse(Memory, n) /\ n \in MemType
          /\ SlabsIn(n) = AllSlabs \cup {b} /\ HomeIn(n)[b] = c
      BY <3>1, GrowsBy, Zenon
    <3> USE <3>2
    <3>3. Memory' = n
      BY <2>2, <3>1, StoreIs, Zenon
    <3>4. SameUse(n, n)
      BY Zenon DEF SameUse
    <3>5. OneUse' /\ Reused(c, NULL)
      BY <2>2, <3>3, <3>4, NewSlabUse, Zenon
    <3> QED  BY <3>3, <3>5, Zenon
  <2> QED  BY <2>1, <2>2, Zenon
<1> USE <1>5
<1>6. \A h \in held : h.slab \in AllSlabs /\ h.slab \in AllSlabs' /\ Home[h.slab]' = Home[h.slab]
  <2> SUFFICES ASSUME NEW h \in held
               PROVE  h.slab \in AllSlabs /\ h.slab \in AllSlabs' /\ Home[h.slab]' = Home[h.slab]
    BY Zenon
  <2>1. h.slab \in AllSlabs
    BY Zenon DEF Inv, Right, Object, AllSlabs, SlabsIn
  <2>2. h.slab \in AllSlabs'
    BY Zenon DEF Right, Object, AllSlabs, SlabsIn
  <2> QED  BY <2>1, <2>2, Zenon DEF Reused
<1>7. Public'
  BY <1>6, Zenon DEF Public, Reused
<1>8. ASSUME NEW q \in Procs PROVE Thread(q)'
  <2>1. CASE q = p
    <3>1. Alone(p)'
      BY <1>6, Zenon DEF Alone, Goes, c
    <3> QED  BY <2>1, <3>1, Zenon DEF Thread, Goes, Private, Reused
  <2>2. CASE q # p
    <3>1. pc[q].at \in Private => pc[q].cache # c
      BY <2>2, Zenon DEF Alone, c
    <3>2. \A r \in Procs : pc'[r].cache \in {pc[r].cache, NULL}
      BY Zenon DEF Goes, c
    <3>3. pc'[q].at = pc[q].at /\ pc'[q].cache = pc[q].cache
      BY <2>2, Zenon DEF Goes
    <3> QED  BY <3>1, <3>2, <3>3, ThreadStays, Zenon
  <2> QED  BY <2>1, <2>2, Zenon
<1>9. DyingOnes' = DyingOnes
  BY SameDying, Zenon
<1>10. Entering' = Entering
  BY Zenon DEF Entering, At, Goes
<1>11. TypeOK' /\ Listed'
  BY <1>10, Zenon DEF Inv, TypeOK, Listed, Reused, Goes
<1> QED  BY <1>7, <1>8, <1>9, <1>11, Zenon DEF Inv, Threads

\* kmem_cache_shrink takes note of growth.
LEMMA ShrinkNotKeeps ==
  ASSUME Counting, Inv, NEW p \in Procs, NEW c \in open, ShrinkNot(p, c)
  PROVE  Inv'
<1>1. c \in Blocks /\ c \in Headers /\ c # NULL
  BY SlabAssumption, Zenon DEF Inv, TypeOK, Public, Valid, Headers, ValidIn, HeadersIn
<1> USE <1>1
<1>2. /\ UNCHANGED <<pool, slab, cache_list, buffer_caches, lock, pc, open, held>>
      /\ cache' = [cache EXCEPT ![c].grown = FALSE]
  BY Zenon DEF ShrinkNot
<1> USE <1>2
<1>3. Memory' = [cache |-> [Memory.cache EXCEPT ![c].grown = FALSE], slab |-> Memory.slab]
  BY Zenon DEF Memory
<1>4. WellListed(Memory) /\ Right(Memory, held, DyingOnes) /\ Memory.cache[c] # NULL
  BY Zenon DEF Inv, Headers, HeadersIn
<1>5. /\ WellListed(Memory') /\ Right(Memory', held, DyingOnes) /\ SameUse(Memory, Memory')
      /\ SlabsIn(Memory') = SlabsIn(Memory)
  BY <1>3, <1>4, FlagKeeps
<1>6. OneUse' /\ Reused(c, c)
  BY <1>5, SameSlabsUse, Zenon DEF AllSlabs
<1> USE <1>6
<1>7. Public'
  BY PublicStays, Zenon
<1>8. ASSUME NEW q \in Procs PROVE Thread(q)'
  <2>1. pc[q].at \in Private => pc[q].cache # c
    BY Zenon DEF Inv, Threads, Thread, Alone
  <2> QED  BY <2>1, ThreadStays, Zenon
<1>9. DyingOnes' = DyingOnes /\ Entering' = Entering
  BY Zenon DEF DyingOnes, Dying, Entering, At
<1>10. TypeOK' /\ Listed'
  BY <1>9, Zenon DEF Inv, TypeOK, Listed, Reused
<1> QED  BY <1>5, <1>7, <1>8, <1>9, <1>10, Zenon DEF Inv, Threads

\* kmem_cache_free of a held object, through the cache of its slab.
LEMMA FreeKeeps ==
  ASSUME Counting, Inv, NEW h \in held, NEW c, c = Home[h.slab], FreeThrough(c, h),
         UNCHANGED <<pool, cache_list, buffer_caches, lock, pc, open>>
  PROVE  Inv'
<1>1. /\ h \in Object /\ WellListed(Memory) /\ Right(Memory, held, DyingOnes)
      /\ Memory \in MemType /\ Memory.slab[h.slab] # NULL
  BY Zenon DEF Inv, Right, WellListed, Chained
<1> USE <1>1
<1>2. PICK s : s = h.slab
  BY Zenon
<1> USE <1>2
<1>3. s \in Blocks /\ s \in AllSlabs /\ c \in Headers /\ c = Memory.slab[s].cache /\ c \in Blocks
  BY Zenon DEF Object, AllSlabs, SlabsIn, Inv, OneUse, Home, HomeIn, Headers, HeadersIn
<1> USE <1>3
<1>4. c \notin DyingOnes /\ Memory.cache[c] # NULL
  BY NotDying, Zenon DEF Headers, HeadersIn
<1>5. PICK free : free = Memory.slab[s].free_list
  BY Zenon
<1>6. PICK n : n = PutObject(Memory, c, s, h.obj)
  BY Zenon
<1>7. /\ Memory.slab[s].num_free = Len(free) /\ Len(free) + Cardinality(Out(held, s)) = Memory.slab[s].objs
      /\ IsFiniteSet(held)
  BY <1>4, <1>5, Zenon DEF Right, SlabRight
<1>8. Len(free) < Memory.slab[s].objs
  <2>1. Len(free) \in Nat
    BY <1>5, SeqLen, Zenon DEF MemType, SlabType
  <2>2. Cardinality(Out(held, s)) \in Nat /\ Cardinality(Out(held \ {h}, s)) = Cardinality(Out(held, s)) - 1
        /\ Cardinality(Out(held \ {h}, s)) \in Nat
    <3>1. IsFiniteSet(held \ {h})
      BY <1>7, Zenon DEF Counting, CardRemove
    <3> QED  BY <1>7, <3>1, CountsOfSlab
  <2> QED  BY ONLY <1>7, <2>1, <2>2
<1>9. WellListed(n) /\ Returned(Memory, n, c, s, free, h.obj)
  <2>1. h.obj \in Nat /\ Memory.slab[s] # NULL
    BY Zenon DEF Object
  <2> QED  BY ONLY <1>1, <1>3, <1>5, <1>6, <1>7, <1>8, <2>1, PutIs, Zenon
<1>10. Right(n, held \ {h}, DyingOnes)
  BY ONLY <1>1, <1>2, <1>3, <1>4, <1>5, <1>9, h \in held, Counting, PutRight, Zenon
<1>11. SameUse(Memory, n) /\ SlabsIn(n) = SlabsIn(Memory) /\ n \in MemType
  BY <1>4, <1>9, MovedUse, ZenonT(30) DEF Returned, Moved
<1>12. Store(n) /\ held' = held \ {h}
  BY <1>6, Zenon DEF FreeThrough
<1> USE <1>12
<1>13. Memory' = n
  BY <1>11, StoreIs, Zenon
<1>14. OneUse' /\ Reused(c, NULL) /\ Reused(c, c)
  BY <1>10, <1>11, <1>13, SameSlabsUse, Zenon DEF AllSlabs
<1> USE <1>14
<1>15. Public'
  <2>1. CASE c \in open
    BY <2>1, PublicStays, SlabAssumption, Zenon
  <2>2. CASE c \notin open
    BY <2>2, PublicStays, Zenon
  <2> QED  BY <2>1, <2>2, Zenon
<1>16. ASSUME NEW q \in Procs PROVE Thread(q)'
  <2>1. pc[q].at \in Private => pc[q].cache # c
    BY SlabAssumption, Zenon DEF Inv, Threads, Thread, Alone
  <2> QED  BY <2>1, ThreadStays, Zenon
<1>17. DyingOnes' = DyingOnes /\ Entering' = Entering
  BY Zenon DEF DyingOnes, Dying, Entering, At
<1>18. TypeOK' /\ Listed'
  BY <1>17, Zenon DEF Inv, TypeOK, Listed, Reused
<1> QED  BY <1>9, <1>10, <1>13, <1>15, <1>16, <1>17, <1>18 DEF Inv, Threads

\* The first slab of list l of c is a slab of c that belongs on l.
LEMMA FirstIs ==
  ASSUME Counting, Inv, NEW c \in Headers, NEW l \in Lists, NEW s, s = cache[c][l], s # NULL
  PROVE  s \in Blocks /\ Memory.slab[s] # NULL /\ Home[s] = c /\ ListOf(Memory.slab[s]) = l
<1>1. c \in Blocks /\ WellListed(Memory) /\ Memory.cache[c] # NULL /\ s = Memory.cache[c][l]
  BY MemoryIs, Zenon DEF Inv, Headers, HeadersIn
<1>2. /\ s \in Blocks /\ Memory.slab[s] # NULL /\ Memory.slab[s].cache = c
      /\ ListOf(Memory.slab[s]) = l
  BY <1>1, HeadIs
<1> QED  BY <1>2, Zenon DEF Home, HomeIn

\* Giving back the first slab of a list, when none of its objects is held.
LEMMA SlabGone ==
  ASSUME Counting, Inv, NEW c \in Headers, NEW l \in Lists, NEW k \in Int, kmem_slab_destroy(c, l, k),
         Out(held, cache[c][l]) = {}, c \notin DyingOnes => k = 1
  PROVE  Inv'
<1>1. PICK s : s = cache[c][l]
  BY Zenon
<1> USE <1>1
<1>2. PICK x : x = remove_slab_from_list(Memory, c, l, s)
  BY Zenon
<1>3. PICK n : n = Shed(x, c, s, k)
  BY Zenon
<1>4. /\ s # NULL /\ pool' = pool \cup {s} /\ Store(n)
      /\ UNCHANGED <<cache_list, buffer_caches, lock, pc, open, held>>
  BY <1>2, <1>3, Zenon DEF kmem_slab_destroy, Shed
<1> USE <1>4
<1>5. /\ c \in Blocks /\ WellListed(Memory) /\ Right(Memory, held, DyingOnes)
      /\ Memory \in MemType /\ Memory.cache[c] # NULL /\ s = Memory.cache[c][l]
  BY MemoryIs, Zenon DEF Inv, Headers, HeadersIn, WellListed, Chained
<1>6. /\ WellListed(n) /\ Shrunk(Memory, n, c, s, Memory.cache[c].num_slabs - k)
      /\ s \in Blocks /\ Memory.slab[s] # NULL /\ Memory.slab[s].cache = c
  BY ONLY <1>2, <1>3, <1>4, <1>5, l \in Lists, k \in Int, ShedIs
<1> USE <1>6
<1>7. n \in MemType
  BY Zenon DEF Shrunk
<1>8. Memory' = n
  BY <1>7, StoreIs, Zenon
<1> USE <1>8
<1>9. Right(n, held, DyingOnes)
  <2>1. Memory.cache[c].num_slabs - k \in Int /\ Memory.cache[c].num_slabs \in Int
    BY ONLY <1>5 DEF MemType, CacheType
  <2>2. c \notin DyingOnes => Memory.cache[c].num_slabs - k = Memory.cache[c].num_slabs - 1
    BY Zenon
  <2>3. Out(held, s) = {}
    BY Zenon
  <2> QED  BY ONLY <1>5, <1>6, <2>1, <2>2, <2>3, Counting, ShrinkRight, Zenon
<1>10. SameUse(Memory, n) /\ LostSlab(Memory, n, s)
  BY ONLY <1>5, <1>6, ShrunkUse, Zenon
<1>11. /\ Headers' = Headers /\ Valid' = Valid /\ AllSlabs' = AllSlabs \ {s}
       /\ s \in AllSlabs /\ \A t \in AllSlabs' : Home[t]' = Home[t]
  <2>1. AllSlabs' = AllSlabs \ {s} /\ s \in AllSlabs
    BY <1>10, Zenon DEF AllSlabs, SlabsIn, LostSlab
  <2>2. /\ Headers' = Headers /\ Valid' = Valid
        /\ \A t \in AllSlabs' \cap AllSlabs : Home[t]' = Home[t]
    BY <1>10, UseIs, Zenon DEF Headers, Valid, AllSlabs, Home
  <2> QED  BY <2>1, <2>2, Zenon
<1> USE <1>11
<1>12. \A h \in held : h.slab \in AllSlabs'
  BY <1>9, Zenon DEF Right, Object, AllSlabs, SlabsIn
<1>13. OneUse'
  BY Zenon DEF Inv, OneUse
<1>14. Public'
  BY <1>12, Zenon DEF Inv, Public
<1>15. ASSUME NEW q \in Procs PROVE Thread(q)'
  <2>1. Thread(q)
    BY Zenon DEF Inv, Threads
  <2> QED  BY <1>12, <2>1, Zenon DEF Thread, Alone
<1>16. DyingOnes' = DyingOnes /\ Entering' = Entering
  BY Zenon DEF DyingOnes, Dying, Entering, At
<1>17. TypeOK' /\ Listed'
  BY <1>16, Zenon DEF Inv, TypeOK, Listed
<1> QED  BY <1>9, <1>13, <1>14, <1>15, <1>16, <1>17, Zenon DEF Inv, Threads

\* kmem_cache_shrink gives back an empty slab: none of its objects is held.
LEMMA ShrinkSlabKeeps ==
  ASSUME Counting, Inv, NEW p \in Procs, ShrinkSlab(p)
  PROVE  Inv'
<1> DEFINE c == pc[p].cache
<1>1. TypeOK /\ Thread(p) /\ pc[p].at = "shrink" /\ kmem_slab_destroy(c, "empty", 1)
  BY Zenon DEF Inv, Threads, ShrinkSlab, At
<1> USE <1>1
<1>2. c \in Blocks /\ c \in Headers /\ c \in open /\ c # NULL
  BY ThreadIs, Zenon DEF Thread
<1> USE <1>2
<1> HIDE DEF c
<1>3. c \notin DyingOnes
  BY NotDying, Zenon
<1>4. PICK s : s = cache[c]["empty"]
  BY Zenon
<1> USE <1>4
<1>5. "empty" \in Lists /\ s # NULL
  BY Zenon DEF Lists, kmem_slab_destroy
<1>6. s \in Blocks /\ Memory.slab[s] # NULL /\ Home[s] = c /\ ListOf(Memory.slab[s]) = "empty"
  BY <1>5, FirstIs
<1>7. Memory.slab[s].num_free = Memory.slab[s].objs
  BY <1>6, Zenon DEF ListOf
<1>8. /\ SlabRight(Memory, held, DyingOnes, s) /\ Memory.slab[s].cache \notin DyingOnes /\ IsFiniteSet(held)
      /\ Memory.slab[s] \in SlabType
  BY <1>3, <1>6, Zenon DEF Inv, Right, Home, HomeIn, WellListed, Chained, MemType
<1> USE <1>8
<1>9. Cardinality(Out(held, s)) = 0 /\ IsFiniteSet(Out(held, s))
  <2>1. /\ Memory.slab[s].num_free = Len(Memory.slab[s].free_list)
        /\ Len(Memory.slab[s].free_list) + Cardinality(Out(held, s)) = Memory.slab[s].objs
    BY Zenon DEF SlabRight
  <2>2. Cardinality(Out(held, s)) \in Nat /\ IsFiniteSet(Out(held, s))
    BY CountsOfSlab, Zenon
  <2>3. Len(Memory.slab[s].free_list) \in Nat
    BY SeqLen, Zenon DEF SlabType
  <2> QED  BY ONLY <1>7, <2>1, <2>2, <2>3, SMTT(20)
<1>10. Out(held, s) = {}
  BY <1>9, Zenon DEF Counting, CardEmpty
<1> QED  BY <1>5, <1>10, SlabGone

\* kmem_cache_destroy gives back a slab: its objects were abandoned.
LEMMA DestroySlabKeeps ==
  ASSUME Counting, Inv, NEW p \in Procs, DestroySlab(p)
  PROVE  Inv'
<1> DEFINE c == pc[p].cache
<1>1. TypeOK /\ Thread(p) /\ pc[p].at = "destroy" /\ kmem_slab_destroy(c, FirstList(c), 0)
  BY Zenon DEF Inv, Threads, DestroySlab, At
<1> USE <1>1
<1>2. c \in Blocks /\ c \in Headers /\ c # NULL /\ Alone(p)
  BY ThreadIs, Zenon DEF Thread, Private
<1> USE <1>2
<1>3. c \in DyingOnes
  BY Zenon DEF DyingOnes, Dying
<1>4. \A h \in held : Home[h.slab] # c
  BY Zenon DEF Alone
<1> HIDE DEF c
<1>5. PICK l \in Lists : l = FirstList(c)
  BY Zenon DEF FirstList, Lists
<1>6. PICK s : s = cache[c][l]
  BY Zenon
<1> USE <1>6
<1>7. s # NULL
  BY <1>5, Zenon DEF kmem_slab_destroy
<1>8. Home[s] = c
  BY <1>7, FirstIs, Zenon
<1>9. Out(held, s) = {}
  BY <1>4, <1>8, Zenon DEF Out
<1> QED  BY <1>3, <1>5, <1>9, SlabGone

-----------------------------------------------------------------------------
(* The invariant is kept.                                                  *)

\* The invariant is inductive: every step of every thread keeps it.
LEMMA StepKeeps ==
  ASSUME Counting, Inv, [Next]_vars
  PROVE  Inv'
<1>1. CASE UNCHANGED vars
  <2>1. UNCHANGED <<pool, cache, slab, cache_list, buffer_caches, lock, pc, open, held>>
    BY <1>1, Zenon DEF vars
  <2>2. /\ Memory' = Memory /\ Headers' = Headers /\ Valid' = Valid
        /\ AllSlabs' = AllSlabs /\ Home' = Home
    BY <2>1, SameMemory, Zenon
  <2>3. DyingOnes' = DyingOnes
    BY <2>1, Zenon DEF DyingOnes, Dying
  <2>4. WellListed(Memory)' /\ Right(Memory, held, DyingOnes)'
    BY <2>1, <2>3, RightStays, Zenon
  <2>5. TypeOK'
    BY <2>1, Zenon DEF Inv, TypeOK
  <2>6. OneUse'
    BY <2>1, <2>2, Zenon DEF Inv, OneUse
  <2>7. Entering' = Entering
    BY <2>1, Zenon DEF Entering, At
  <2>8. Listed'
    BY <2>1, <2>2, <2>7, Zenon DEF Inv, Listed
  <2>9. ASSUME NEW q \in Procs
        PROVE  Thread(q)'
    <3>1. Alone(q)' <=> Alone(q)
      BY <2>1, <2>2, Zenon DEF Alone
    <3>2. Thread(q)
      BY Zenon DEF Inv, Threads
    <3> QED  BY <2>1, <2>2, <3>1, <3>2, Zenon DEF Thread
  <2>10. Public'
    BY <2>1, <2>2, Zenon DEF Inv, Public
  <2> QED  BY <2>4, <2>5, <2>6, <2>8, <2>9, <2>10, Zenon DEF Inv, Threads
<1>2. ASSUME NEW p \in Procs, Step(p) PROVE Inv'
  <2>1. ASSUME NEW objs \in Sizes, kmem_cache_create(p, objs) PROVE Inv'
    BY <2>1, CreateKeeps, Zenon
  <2>2. CASE CreateList(p)
    BY <2>2, CreateListKeeps, Zenon
  <2>3. CASE CreateGrow(p)
    BY <2>3, CreateGrowKeeps, Zenon
  <2>4. CASE CreateReturn(p)
    BY <2>4, CreateReturnKeeps, Zenon
  <2>5. ASSUME NEW c \in open, kmem_cache_alloc(p, c) PROVE Inv'
    BY <2>5, AllocKeeps, Zenon
  <2>6. ASSUME NEW c \in open, ShrinkNot(p, c) PROVE Inv'
    BY <2>6, ShrinkNotKeeps, Zenon
  <2>7. ASSUME NEW c \in open, ShrinkStart(p, c) PROVE Inv'
    BY <2>7, ShrinkStartKeeps, Zenon
  <2>8. ASSUME NEW c \in open, DestroyStart(p, c) PROVE Inv'
    BY <2>8, DestroyStartKeeps, Zenon
  <2>9. ASSUME NEW h \in held, kmem_cache_free(p, h) PROVE Inv'
    <3>1. h.via # NULL /\ FreeThrough(h.via, h) /\ UNCHANGED <<pool, cache_list, buffer_caches, lock, pc, open>>
      BY <2>9, Zenon DEF kmem_cache_free
    <3>2. h.via = Home[h.slab]
      BY <3>1, Zenon DEF Inv, Public
    <3> QED  BY <3>1, <3>2, FreeKeeps, Zenon
  <2>10. ASSUME NEW h \in held, kfree(p, h) PROVE Inv'
    <3>1. FreeThrough(slab[h.slab].cache, h) /\ UNCHANGED <<pool, cache_list, buffer_caches, lock, pc, open>>
      BY <2>10, Zenon DEF kfree
    <3>2. h.slab \in Blocks
      BY Zenon DEF Inv, Right, Object
    <3>3. slab[h.slab].cache = Home[h.slab]
      BY <3>2, MemoryIs, Zenon
    <3> QED  BY <3>1, <3>3, FreeKeeps, Zenon
  <2>11. CASE ShrinkSlab(p)
    BY <2>11, ShrinkSlabKeeps, Zenon
  <2>12. CASE ShrinkEnd(p)
    BY <2>12, ShrinkEndKeeps, Zenon
  <2>13. CASE DestroySlab(p)
    BY <2>13, DestroySlabKeeps, Zenon
  <2>14. CASE DestroyUnlist(p)
    BY <2>14, DestroyUnlistKeeps, Zenon
  <2>15. CASE DestroyEnd(p)
    BY <2>15, DestroyEndKeeps, Zenon
  <2>16. ASSUME NEW k \in Classes, kmalloc(p, k) PROVE Inv'
    BY <2>16, KmallocKeeps, Zenon
  <2>17. CASE KmallocStore(p)
    BY <2>17, KmallocStoreKeeps, Zenon
  <2>18. CASE KmallocAlloc(p)
    BY <2>18, KmallocAllocKeeps, Zenon
  <2> QED  BY <1>2, <2>1, <2>2, <2>3, <2>4, <2>5, <2>6, <2>7, <2>8, <2>9, <2>10, <2>11, <2>12,
              <2>13, <2>14, <2>15, <2>16, <2>17, <2>18, Zenon DEF Step
<1> QED  BY <1>1, <1>2, ZenonT(30) DEF Next

-----------------------------------------------------------------------------
(* The laws of counting.                                                   *)

INSTANCE FiniteSetTheorems

\* A set of numbers has a least one.
LEMMA LeastHolds ==
  ASSUME NEW S \in SUBSET Nat, S # {}
  PROVE  \E x \in S : \A y \in S : ~(y < x)
<1>1. PICK x \in S : \A y \in S : ~(<<y, x>> \in OpToRel(<, Nat))
  BY NatLessThanWellFounded, WFMin, Zenon
<1>2. \A y \in S : y \in Nat /\ (y < x => <<y, x>> \in OpToRel(<, Nat))
  BY Zenon DEF OpToRel
<1> QED  BY <1>1, <1>2, Zenon

\* The laws the proofs have assumed are theorems.
LEMMA CountingHolds == Counting
<1>1. Least
  BY LeastHolds, Zenon DEF Least
<1>2. CardEmpty
  BY FS_EmptySet, Zenon DEF CardEmpty
<1>3. CardType
  BY FS_CardinalityType, Zenon DEF CardType
<1>4. CardSubset
  BY FS_Subset, Zenon DEF CardSubset
<1>5. CardAdd
  BY FS_AddElement, Zenon DEF CardAdd
<1>6. CardRemove
  BY FS_RemoveElement, Zenon DEF CardRemove
<1> QED BY ONLY <1>1, <1>2, <1>3, <1>4, <1>5, <1>6, SMTT(20) DEF Counting

-----------------------------------------------------------------------------
(* Walking a list from its head.                                           *)

\* The block at distance n from the head of list k, or NULL.
Nth(D, own, pos, k, n) ==
  IF \E s \in D : own[s] = k /\ pos[s] = n
  THEN CHOOSE s \in D : own[s] = k /\ pos[s] = n
  ELSE NULL

\* w walks a list of length at most N from its head hd along the next fields.
Walk(w, N, hd, sl) ==
  w = [n \in 0..N |-> IF n = 0 THEN hd ELSE IF w[n - 1] = NULL THEN NULL ELSE sl[w[n - 1]].next]

\* The blocks of list k, in order, are what head hd and the next fields lead to.
Follows(D, own, pos, k, hd, sl) ==
  /\ Nth(D, own, pos, k, 0) = hd
  /\ \A n \in Nat : Nth(D, own, pos, k, n + 1) =
       IF Nth(D, own, pos, k, n) = NULL THEN NULL ELSE sl[Nth(D, own, pos, k, n)].next

\* nx gives the next fields of the blocks of D.
Nexts(D, nx, sl) == \A s \in D : nx[s] = sl[s].next

\* w visits the blocks of list k in order.
Visits(w, N, D, own, pos, k) == \A n \in 0..N : w[n] = Nth(D, own, pos, k, n)

\* The head is the first block of a list, and next leads from one to the one after.
LEMMA NthIs ==
  ASSUME NEW D \in SUBSET Blocks, NEW Q, NEW own, NEW nx, NEW pv, NEW hd,
         NEW pos \in [Blocks -> Nat], Linked(D, Q, own, nx, pv, hd, pos), NEW k \in Q,
         NEW sl, Nexts(D, nx, sl)
  PROVE  Follows(D, own, pos, k, hd[k], sl)
<1>1. \A s \in D : s # NULL /\ pos[s] \in Nat
  BY SlabAssumption, Zenon
<1>2. \A n : LET s == Nth(D, own, pos, k, n) IN
        IF s = NULL THEN ~\E t \in D : own[t] = k /\ pos[t] = n
        ELSE s \in D /\ own[s] = k /\ pos[s] = n
  BY <1>1, Zenon DEF Nth
<1>3. Nth(D, own, pos, k, 0) = hd[k]
  <2>1. PICK s : s = Nth(D, own, pos, k, 0)
    BY Zenon
  <2>2. CASE s = NULL
    <3>1. hd[k] # NULL => hd[k] \in D /\ own[hd[k]] = k /\ pos[hd[k]] = 0
      BY Zenon DEF Linked
    <3> QED  BY <1>2, <2>1, <2>2, <3>1, Zenon
  <2>3. CASE s # NULL
    <3>1. s \in D /\ own[s] = k /\ pos[s] = 0
      BY <1>2, <2>1, <2>3, Zenon
    <3>2. pv[s] = NULL
      <4> SUFFICES ASSUME pv[s] # NULL PROVE FALSE
        BY Zenon
      <4>1. pv[s] \in D /\ pos[s] = pos[pv[s]] + 1
        BY <3>1, Zenon DEF Linked
      <4> QED  BY ONLY <1>1, <3>1, <4>1
    <3> QED  BY <2>1, <3>1, <3>2, Zenon DEF Linked
  <2> QED  BY <2>2, <2>3, Zenon
<1>4. ASSUME NEW n \in Nat
      PROVE  Nth(D, own, pos, k, n + 1) =
              IF Nth(D, own, pos, k, n) = NULL THEN NULL ELSE nx[Nth(D, own, pos, k, n)]
  <2>1. PICK t : t = Nth(D, own, pos, k, n)
    BY Zenon
  <2>2. PICK s : s = Nth(D, own, pos, k, n + 1)
    BY Zenon
  <2>3. ASSUME s # NULL PROVE t # NULL /\ nx[t] = s
    <3>1. s \in D /\ own[s] = k /\ pos[s] = n + 1
      BY <1>2, <2>2, <2>3, Zenon
    <3>2. pv[s] # NULL
      BY <3>1 DEF Linked
    <3>3. pv[s] \in D /\ own[pv[s]] = k /\ nx[pv[s]] = s /\ pos[s] = pos[pv[s]] + 1
      BY <3>1, <3>2, Zenon DEF Linked
    <3>4. pos[pv[s]] = n
      BY ONLY <1>1, <3>1, <3>3
    <3>5. t \in D /\ own[t] = k /\ pos[t] = n /\ t # NULL
      BY <1>1, <1>2, <2>1, <3>3, <3>4, Zenon
    <3>6. t = pv[s]
      BY <3>3, <3>4, <3>5 DEF Linked
    <3> QED  BY <3>3, <3>5, <3>6, Zenon
  <2>4. ASSUME s = NULL, t # NULL PROVE nx[t] = NULL
    <3>1. t \in D /\ own[t] = k /\ pos[t] = n
      BY <1>2, <2>1, <2>4, Zenon
    <3> SUFFICES ASSUME nx[t] # NULL PROVE FALSE
      BY Zenon
    <3>2. nx[t] \in D /\ own[nx[t]] = k /\ pv[nx[t]] = t
      BY <3>1, Zenon DEF Linked
    <3>3. pos[nx[t]] = n + 1
      BY <1>1, <2>4, <3>1, <3>2, SMTT(20) DEF Linked
    <3> QED  BY <1>2, <2>2, <2>4, <3>2, <3>3, Zenon
  <2> QED  BY ONLY <2>1, <2>2, <2>3, <2>4
<1>5. ASSUME NEW n \in Nat
      PROVE  Nth(D, own, pos, k, n + 1) =
              IF Nth(D, own, pos, k, n) = NULL THEN NULL ELSE sl[Nth(D, own, pos, k, n)].next
  <2>1. Nth(D, own, pos, k, n) # NULL => Nth(D, own, pos, k, n) \in D
    BY <1>2, Zenon
  <2> QED  BY <1>4, <2>1, Zenon DEF Nexts
<1> QED  BY <1>3, <1>5, Zenon DEF Follows

\* A walk along the list exists.
LEMMA WalkExists ==
  ASSUME NEW D, NEW own, NEW pos, NEW k, NEW hd, NEW sl, NEW N \in Nat,
         Follows(D, own, pos, k, hd, sl)
  PROVE  \E w : Walk(w, N, hd, sl)
<1>1. PICK w : w = [n \in 0..N |-> Nth(D, own, pos, k, n)]
  BY Zenon
<1>2. ASSUME NEW n \in 0..N
      PROVE  w[n] = IF n = 0 THEN hd ELSE IF w[n - 1] = NULL THEN NULL ELSE sl[w[n - 1]].next
  <2>1. CASE n = 0
    BY <1>1, <2>1, Zenon DEF Follows
  <2>2. CASE n # 0
    <3>1. n - 1 \in Nat /\ n - 1 \in 0..N /\ (n - 1) + 1 = n
      BY ONLY <2>2
    <3>2. w[n - 1] = Nth(D, own, pos, k, n - 1) /\ w[n] = Nth(D, own, pos, k, n)
      BY <1>1, <3>1, Zenon
    <3>3. Nth(D, own, pos, k, (n - 1) + 1) =
            IF Nth(D, own, pos, k, n - 1) = NULL THEN NULL ELSE sl[Nth(D, own, pos, k, n - 1)].next
      BY <3>1, Zenon DEF Follows
    <3> QED  BY <2>2, <3>1, <3>2, <3>3, Zenon
  <2> QED  BY <2>1, <2>2, Zenon
<1>3. w = [n \in 0..N |-> w[n]]
  BY <1>1, Zenon
<1>4. w = [n \in 0..N |-> IF n = 0 THEN hd ELSE IF w[n - 1] = NULL THEN NULL ELSE sl[w[n - 1]].next]
  BY ONLY <1>2, <1>3, Zenon
<1> QED  BY <1>4, Zenon DEF Walk

\* And it is the list.
LEMMA WalkIs ==
  ASSUME NEW D, NEW own, NEW pos, NEW k, NEW hd, NEW sl, NEW N \in Nat,
         Follows(D, own, pos, k, hd, sl),
         NEW w, Walk(w, N, hd, sl)
  PROVE  Visits(w, N, D, own, pos, k)
<1> SUFFICES ASSUME NEW z \in 0..N, w[z] # Nth(D, own, pos, k, z) PROVE FALSE
  BY Zenon DEF Visits
<1>1. \A n \in 0..N : w[n] = IF n = 0 THEN hd ELSE IF w[n - 1] = NULL THEN NULL ELSE sl[w[n - 1]].next
  BY Zenon DEF Walk
<1>2. PICK n \in 0..N : w[n] # Nth(D, own, pos, k, n) /\ \A i \in 0..N : w[i] # Nth(D, own, pos, k, i) => ~(i < n)
  <2> DEFINE S == {n \in 0..N : w[n] # Nth(D, own, pos, k, n)}
  <2>1. S \in SUBSET Nat /\ S # {}
    OBVIOUS
  <2>2. PICK n \in S : \A i \in S : ~(i < n)
    BY <2>1, LeastHolds, Zenon
  <2> QED  BY <2>2, Zenon
<1>3. CASE n = 0
  BY <1>1, <1>2, <1>3, Zenon DEF Follows
<1>4. CASE n # 0
  <2>1. n - 1 \in Nat /\ n - 1 \in 0..N /\ (n - 1) + 1 = n /\ n - 1 < n
    BY ONLY <1>4
  <2>2. w[n - 1] = Nth(D, own, pos, k, n - 1)
    BY <1>2, <2>1, Zenon
  <2>3. Nth(D, own, pos, k, (n - 1) + 1) =
          IF Nth(D, own, pos, k, n - 1) = NULL THEN NULL ELSE sl[Nth(D, own, pos, k, n - 1)].next
    BY <2>1, Zenon DEF Follows
  <2> QED  BY <1>1, <1>2, <1>4, <2>1, <2>2, <2>3, Zenon
<1> QED  BY <1>3, <1>4, Zenon

\* Positions are less than the number of blocks.
LEMMA NotFar ==
  ASSUME NEW D \in SUBSET Blocks, NEW Q, NEW own, NEW nx, NEW pv, NEW hd,
         NEW pos \in [Blocks -> Nat], Linked(D, Q, own, nx, pv, hd, pos), NEW s \in D
  PROVE  pos[s] <= Cardinality(Blocks) /\ Cardinality(Blocks) \in Nat
<1> DEFINE k == own[s]
<1> DEFINE A == {i \in Nat : \E t \in D : own[t] = k /\ pos[t] = i}
<1>1. IsFiniteSet(Blocks) /\ Cardinality(Blocks) \in Nat
  BY SlabAssumption, FS_CardinalityType, Zenon
<1>2. pos[s] \in A /\ \A j \in A : j # 0 => j - 1 \in A
  <2>1. ASSUME NEW t \in D, own[t] = k, pos[t] # 0
        PROVE  pv[t] \in D /\ own[pv[t]] = k /\ pos[pv[t]] = pos[t] - 1 /\ pos[t] - 1 \in Nat
    <3>1. pv[t] # NULL
      BY <2>1, Zenon DEF Linked
    <3>2. pv[t] \in D /\ own[pv[t]] = k /\ pos[t] = pos[pv[t]] + 1
      BY <2>1, <3>1, Zenon DEF Linked
    <3>3. pos[pv[t]] \in Nat
      BY <3>2, Zenon
    <3> QED  BY ONLY <3>2, <3>3
  <2> QED  BY <2>1, Zenon
<1> HIDE DEF A, k
<1>3. ASSUME NEW i \in 0..pos[s], i \notin A PROVE FALSE
  <2> DEFINE S == {j \in A : j > i}
  <2>1. S \in SUBSET Nat /\ A \in SUBSET Nat
    BY Zenon DEF A
  <2>2. pos[s] \in S
    BY ONLY <1>2, <1>3, <2>1
  <2>3. PICK j \in S : \A y \in S : ~(y < j)
    BY <2>1, <2>2, LeastHolds, Zenon
  <2>4. j \in A /\ j \in Nat /\ j > i /\ j # 0 /\ i \in Nat
    BY ONLY <2>1, <2>3
  <2>5. j - 1 \in A /\ j - 1 \in Nat
    BY <1>2, <2>1, <2>4, Zenon
  <2>6. CASE j - 1 = i
    BY <1>3, <2>5, <2>6, Zenon
  <2>7. CASE j - 1 > i
    <3>1. j - 1 \in S /\ j - 1 < j
      BY ONLY <2>4, <2>5, <2>7
    <3> QED  BY <2>3, <3>1, Zenon
  <2> QED  BY ONLY <2>4, <2>6, <2>7
<1>4. \A i \in 0..pos[s] : \E t \in D : own[t] = k /\ pos[t] = i
  BY ONLY <1>3 DEF A
<1>5. PICK f : f = [i \in 0..pos[s] |-> CHOOSE t \in D : own[t] = k /\ pos[t] = i]
  BY Zenon
<1>6. \A i \in 0..pos[s] : f[i] \in D /\ pos[f[i]] = i
  BY <1>4, <1>5, Zenon
<1>7. f \in Injection(0..pos[s], Blocks)
  <2>1. f \in [0..pos[s] -> Blocks]
    BY <1>5, <1>6, Zenon
  <2>2. \A i, j \in 0..pos[s] : f[i] = f[j] => i = j
    BY <1>6, Zenon
  <2> QED  BY <2>1, <2>2, Zenon DEF Injection, IsInjective
<1>8. Cardinality(0..pos[s]) <= Cardinality(Blocks)
  BY <1>1, <1>7, FS_Injection, Zenon
<1>9. Cardinality(0..pos[s]) = pos[s] + 1
  BY ONLY FS_Interval
<1> QED  BY ONLY <1>1, <1>8, <1>9

-----------------------------------------------------------------------------
(* The invariant implies the properties.                                   *)

\* No block has two uses or none, and cache_list is exact.
LEMMA InvAccounts == Inv => BlocksAccounted
<1> SUFFICES ASSUME Inv PROVE BlocksAccounted
  BY Zenon
<1>1. {cache_list[i] : i \in DOMAIN cache_list} =
       {c \in Blocks : /\ cache[c] # NULL /\ cache[c].valid
                       /\ \A p \in Procs : ~(At(p, "list") /\ pc[p].cache = c)}
  BY MemoryIs DEF Inv, Listed, Entering
<1>2. ASSUME NEW b \in Blocks
      PROVE  /\ Cardinality({u \in {"pool", "cache", "slab"} :
                  \/ u = "pool" /\ b \in pool
                  \/ u = "cache" /\ cache[b] # NULL
                  \/ u = "slab" /\ slab[b] # NULL}) = 1
             /\ slab[b] # NULL => cache[slab[b].cache] # NULL
  <2>1. /\ b \in pool \/ cache[b] # NULL \/ slab[b] # NULL
        /\ ~(b \in pool /\ cache[b] # NULL) /\ ~(b \in pool /\ slab[b] # NULL)
        /\ ~(cache[b] # NULL /\ slab[b] # NULL)
        /\ slab[b] # NULL => cache[slab[b].cache] # NULL
    BY MemoryIs, Zenon DEF Inv, OneUse
  <2>2. PICK U : U = {u \in {"pool", "cache", "slab"} :
                        \/ u = "pool" /\ b \in pool
                        \/ u = "cache" /\ cache[b] # NULL
                        \/ u = "slab" /\ slab[b] # NULL}
    BY Zenon
  <2>3. U = {"pool"} \/ U = {"cache"} \/ U = {"slab"}
    BY <2>1, <2>2, Zenon
  <2>4. Cardinality(U) = 1
    BY <2>3, FS_Singleton, Zenon
  <2> QED  BY <2>1, <2>2, <2>4, Zenon
<1> QED  BY <1>1, <1>2, Zenon DEF Inv, Listed, BlocksAccounted

\* The values of an injective sequence are as many as its length.
LEMMA Distinct ==
  ASSUME NEW free \in Seq(Nat), \A i, j \in DOMAIN free : free[i] = free[j] => i = j
  PROVE  Cardinality({free[i] : i \in DOMAIN free}) = Len(free)
<1> DEFINE T == {free[i] : i \in DOMAIN free}
<1>1. DOMAIN free = 1..Len(free) /\ Len(free) \in Nat
  BY SeqLen, Zenon
<1>2. free \in Surjection(1..Len(free), T) /\ free \in Injection(1..Len(free), T)
  BY <1>1 DEF Surjection, Injection, IsInjective
<1>3. IsFiniteSet(1..Len(free)) /\ Cardinality(1..Len(free)) = Len(free)
  BY <1>1, FS_Interval, SMTT(20)
<1> QED  BY <1>2, <1>3, FS_Surjection, Zenon

\* Distinct objects are as many as their numbers.
LEMMA DistinctObjects ==
  ASSUME NEW X, IsFiniteSet(X), \A h, g \in X : h.obj = g.obj => h = g
  PROVE  Cardinality({h.obj : h \in X}) = Cardinality(X)
<1> DEFINE T == {h.obj : h \in X}
<1>1. PICK f : f = [h \in X |-> h.obj]
  BY Zenon
<1>2. f \in Surjection(X, T) /\ f \in Injection(X, T)
  BY <1>1 DEF Surjection, Injection, IsInjective
<1> QED  BY <1>2, FS_Surjection, Zenon

\* Every object is free once or held once, and the counters are exact.
LEMMA InvOwns == Inv => ObjectsOwnedOnce
<1> SUFFICES ASSUME Inv PROVE ObjectsOwnedOnce
  BY Zenon
<1>1. Right(Memory, held, DyingOnes) /\ Memory \in MemType
  BY Zenon DEF Inv, WellListed, Chained
<1>2. ASSUME NEW c \in Blocks, cache[c] # NULL, ~Dying(c)
      PROVE  /\ cache[c].num_allocated = Cardinality({h \in held : h.slab \in SlabsOf(c)})
             /\ cache[c].num_slabs = Cardinality(SlabsOf(c))
  <2>1. CacheRight(Memory, held, c)
    BY <1>1, <1>2, MemoryIs, Zenon DEF Right, DyingOnes
  <2> QED  BY <2>1, MemoryIs, Zenon DEF CacheRight, OutOf
<1>3. \A h \in held : slab[h.slab] # NULL
  BY <1>1, MemoryIs, Zenon DEF Right
<1>4. ASSUME NEW s \in Blocks, slab[s] # NULL, NEW free, free = slab[s].free_list,
             NEW out, out = {h \in held : h.slab = s}
      PROVE  /\ Len(free) = slab[s].num_free
             /\ Cardinality({free[i] : i \in DOMAIN free}) = Len(free)
             /\ {free[i] : i \in DOMAIN free} \cap {h.obj : h \in out} = {}
             /\ Cardinality({h.obj : h \in out}) = Cardinality(out)
             /\ ~Dying(slab[s].cache) => Len(free) + Cardinality(out) = slab[s].objs
  <2>1. SlabRight(Memory, held, DyingOnes, s) /\ out = Out(held, s)
    BY ONLY <1>1, <1>4, MemoryIs, SMTT(20) DEF Right, Out
  <2>2. /\ slab[s].num_free = Len(free)
        /\ \A i, j \in DOMAIN free : free[i] = free[j] => i = j
        /\ \A h \in out : \A i \in DOMAIN free : free[i] # h.obj
        /\ \A h, g \in out : h.obj = g.obj => h = g
        /\ slab[s].cache \notin DyingOnes => Len(free) + Cardinality(out) = slab[s].objs
    BY ONLY <1>4, <2>1, MemoryIs, Zenon DEF SlabRight
  <2>3. free \in Seq(Nat)
    BY ONLY <1>1, <1>4, MemoryIs, SMTT(20) DEF MemType, SlabType
  <2>4. IsFiniteSet(out)
    BY ONLY <1>1, <2>1, CountsOfSlab, CountingHolds, SMTT(20) DEF Right
  <2>5. Cardinality({free[i] : i \in DOMAIN free}) = Len(free)
    BY <2>2, <2>3, Distinct, Zenon
  <2>6. Cardinality({h.obj : h \in out}) = Cardinality(out)
    BY <2>2, <2>4, DistinctObjects, Zenon
  <2>7. {free[i] : i \in DOMAIN free} \cap {h.obj : h \in out} = {}
    BY ONLY <2>2
  <2>8. ~Dying(slab[s].cache) => slab[s].cache \notin DyingOnes
    BY Zenon DEF DyingOnes
  <2> QED  BY ONLY <2>2, <2>5, <2>6, <2>7, <2>8, SMTT(20)
<1> QED  BY <1>2, <1>3, <1>4, Zenon DEF ObjectsOwnedOnce

\* Every slab is on the list its count of free objects calls for.
LEMMA InvLists == Inv => SlabsOnTheirList
<1> SUFFICES ASSUME Inv, NEW c \in Blocks, cache[c] # NULL, NEW list \in Lists
             PROVE  /\ SlabsOn(c, list) = {s \in SlabsOf(c) : ListFor(s) = list}
                    /\ cache[c][list] # NULL => slab[cache[c][list]].prev = NULL
                    /\ \A s \in SlabsOn(c, list) :
                         slab[s].next # NULL => slab[slab[s].next].prev = s
  BY Zenon DEF SlabsOnTheirList
<1> DEFINE D == SlabsIn(Memory)
           own == OwnerOf(Memory, ListIn(Memory))
           nx == NextOf(Memory)
           pv == PrevOf(Memory)
           hd == HeadOf(Memory)
           k == <<c, list>>
           N == Cardinality(Blocks)
<1>1. PICK pos \in [Blocks -> Nat] : Linked(D, ListsOf(Memory), own, nx, pv, hd, pos)
  BY Zenon DEF Inv, WellListed, Chained, ChainedAt
<1>2. D \in SUBSET Blocks /\ D = {s \in Blocks : slab[s] # NULL}
  BY MemoryIs, Zenon DEF SlabsIn
<1>3. k \in ListsOf(Memory) /\ hd[k] = cache[c][list]
  BY MemoryIs, Zenon DEF ListsOf, HeadOf
<1>4. \A s \in D : own[s] = <<slab[s].cache, ListFor(s)>> /\ nx[s] = slab[s].next /\ pv[s] = slab[s].prev
  BY <1>2, MemoryIs, Zenon DEF OwnerOf, ListIn, ListOf, ListFor, NextOf, PrevOf
<1>5. N \in Nat
  BY SlabAssumption, FS_CardinalityType, Zenon
<1>6. \A s \in D : pos[s] <= N
  BY <1>1, <1>2, NotFar, Zenon
<1> HIDE DEF D, own, nx, pv, hd, N, k
<1>7. Follows(D, own, pos, k, hd[k], slab)
  <2>1. Nexts(D, nx, slab)
    BY <1>4, Zenon DEF Nexts
  <2> QED  BY <1>1, <1>2, <1>3, <2>1, NthIs, Zenon
<1>8. Walk(Link(c, list), N, hd[k], slab)
  <2>1. PICK w : Walk(w, N, hd[k], slab)
    BY <1>5, <1>7, WalkExists, Zenon
  <2>2. Link(c, list) = CHOOSE walk : Walk(walk, N, cache[c][list], slab)
    BY Zenon DEF Link, Walk, N
  <2> QED  BY <1>3, <2>1, <2>2, Zenon
<1>9. \A n \in 0..N : Link(c, list)[n] = Nth(D, own, pos, k, n)
  <2>1. Visits(Link(c, list), N, D, own, pos, k)
    BY <1>5, <1>7, <1>8, WalkIs, Zenon
  <2> QED  BY <2>1, Zenon DEF Visits
<1>10. \A n : Nth(D, own, pos, k, n) # NULL =>
         LET s == Nth(D, own, pos, k, n) IN s \in D /\ own[s] = k /\ pos[s] = n
  BY Zenon DEF Nth
<1>11. \A s \in D : own[s] = k => Nth(D, own, pos, k, pos[s]) = s
  <2> SUFFICES ASSUME NEW s \in D, own[s] = k PROVE Nth(D, own, pos, k, pos[s]) = s
    BY Zenon
  <2>1. PICK t : t = Nth(D, own, pos, k, pos[s])
    BY Zenon
  <2>2. t \in D /\ own[t] = k /\ pos[t] = pos[s]
    BY <2>1, Zenon DEF Nth
  <2> QED  BY <1>1, <2>1, <2>2, Zenon DEF Linked
<1>12. SlabsOn(c, list) = {s \in D : own[s] = k}
  <2>1. ASSUME NEW s \in SlabsOn(c, list) PROVE s \in D /\ own[s] = k
    <3>1. PICK n \in 0..N : s = Link(c, list)[n] /\ s # NULL
      BY Zenon DEF SlabsOn, N
    <3> QED  BY ONLY <1>9, <1>10, <3>1
  <2>2. ASSUME NEW s \in D, own[s] = k PROVE s \in SlabsOn(c, list)
    <3>1. pos[s] \in 0..N /\ s # NULL
      BY ONLY <1>2, <1>5, <1>6, SlabAssumption
    <3>2. Link(c, list)[pos[s]] = s
      BY <1>9, <1>11, <2>2, <3>1, Zenon
    <3> QED  BY <3>1, <3>2, Zenon DEF SlabsOn, N
  <2> QED  BY <2>1, <2>2, Zenon
<1>13. SlabsOn(c, list) = {s \in SlabsOf(c) : ListFor(s) = list}
  BY ONLY <1>2, <1>4, <1>12, SMTT(20) DEF SlabsOf, k
<1>14. cache[c][list] # NULL => slab[cache[c][list]].prev = NULL
  BY ONLY <1>1, <1>3, <1>4, SMTT(20) DEF Linked
<1>15. \A s \in SlabsOn(c, list) : slab[s].next # NULL => slab[slab[s].next].prev = s
  BY ONLY <1>1, <1>4, <1>12, SMTT(20) DEF Linked
<1> QED  BY <1>13, <1>14, <1>15, Zenon

-----------------------------------------------------------------------------
(* The invariant holds initially.                                          *)

\* Nothing is cached, held or under way when kmem_init returns.
LEMMA InitHolds == Init => Inv
<1> SUFFICES ASSUME Init PROVE Inv
  BY Zenon
<1> USE DEF Init
<1>1. TypeOK
  BY SlabAssumption DEF TypeOK, PcType, Idle, Places
<1>2. /\ Headers = {} /\ Valid = {} /\ AllSlabs = {} /\ SlabsIn(Memory) = {}
      /\ \A b \in Blocks : Memory.slab[b] = NULL /\ Memory.cache[b] = NULL
  BY MemoryIs DEF AllSlabs
<1>3. WellListed(Memory)
  <2>1. Memory \in MemType
    BY Zenon DEF Memory, MemType
  <2>2. ListIn(Memory) \in [Blocks -> Lists]
    BY Zenon DEF ListIn, ListOf, Lists
  <2>3. PICK pos : pos = [b \in Blocks |-> 0]
    BY Zenon
  <2>4. \A k \in ListsOf(Memory) : FALSE
    BY <1>2, Zenon DEF ListsOf
  <2>5. pos \in [Blocks -> Nat] /\ ChainedAt(Memory, {}, ListIn(Memory), pos)
    BY <2>3, <2>4, Zenon DEF ChainedAt, Linked
  <2> QED  BY <1>2, <2>1, <2>2, <2>5, Zenon DEF WellListed, Chained
<1>4. Right(Memory, held, DyingOnes)
  BY <1>2, FS_EmptySet, Zenon DEF Right
<1>5. OneUse /\ Public
  BY <1>2, Zenon DEF OneUse, Public
<1>6. Listed
  BY <1>2 DEF Listed
<1>7. Threads
  BY Zenon DEF Threads, Thread, Idle, Private
<1> QED  BY <1>1, <1>3, <1>4, <1>5, <1>6, <1>7, Zenon DEF Inv

-----------------------------------------------------------------------------
(* The theorems.                                                           *)

\* In every reachable state the invariant holds.
LEMMA Invariance == Spec => []Inv
<1>1. Init => Inv
  BY InitHolds, Zenon
<1>2. Inv /\ [Next]_vars => Inv'
  BY StepKeeps, CountingHolds, Zenon
<1> QED  BY <1>1, <1>2, PTL DEF Spec

\* Whatever the threads do, every block is with the buddy allocator, a cache header
\* or a slab of an existing cache, and only one of these, and cache_list holds
\* each cache that is neither being entered nor destroyed once.
THEOREM NoBlockLost == Spec => []BlocksAccounted
BY Invariance, InvAccounts, PTL

\* Whatever the threads do, every object of a slab is free once or held by one
\* client, no client holds an object of a slab given back, and the counters of
\* kmem_cache_info are exact until the cache is being destroyed.
THEOREM NoObjectLost == Spec => []ObjectsOwnedOnce
BY Invariance, InvOwns, PTL

\* Whatever the threads do, every slab of a cache is on the list that the number of
\* its free objects calls for, and the walk from the head of the list visits it.
THEOREM ListsAreRight == Spec => []SlabsOnTheirList
BY Invariance, InvLists, PTL
=============================================================================
