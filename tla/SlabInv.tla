------------------------------ MODULE SlabInv -------------------------------
(***************************************************************************)
(* The inductive invariant of the slab allocator: each slab is on the list *)
(* that the number of its free objects calls for, every object is free     *)
(* once or held once, the counters are exact, every block has one use.     *)
(* The operations on the memory keep what it says of the memory.           *)
(***************************************************************************)
EXTENDS Slab, TLAPS

-----------------------------------------------------------------------------
(* Sequences.                                                              *)

\* A sequence is a function on the numbers up to its length.
LEMMA SeqLen ==
  ASSUME NEW S, NEW q \in Seq(S)
  PROVE  Len(q) \in Nat /\ q \in [1..Len(q) -> S] /\ DOMAIN q = 1..Len(q)
OBVIOUS

\* Taking the first element of a sequence.
LEMMA SeqTail ==
  ASSUME NEW S, NEW q \in Seq(S), q # <<>>
  PROVE  /\ Head(q) \in S /\ Head(q) = q[1] /\ Len(q) \in Nat \ {0}
         /\ Tail(q) \in Seq(S) /\ Len(Tail(q)) = Len(q) - 1
         /\ \A i \in 1..Len(Tail(q)) : Tail(q)[i] = q[i + 1]
OBVIOUS

\* Joining two sequences.
LEMMA SeqJoin ==
  ASSUME NEW S, NEW q \in Seq(S), NEW r \in Seq(S)
  PROVE  /\ q \o r \in Seq(S) /\ Len(q \o r) = Len(q) + Len(r)
         /\ \A i \in 1..Len(q) + Len(r) : (q \o r)[i] = IF i <= Len(q) THEN q[i] ELSE r[i - Len(q)]
OBVIOUS

\* Sequences without repetition, and what is in them.
Inj(q) == \A i, j \in DOMAIN q : q[i] = q[j] => i = j
Among(x, q) == \E i \in DOMAIN q : q[i] = x

\* A new element at the front.
LEMMA Pushed ==
  ASSUME NEW q \in Seq(Blocks), Inj(q), NEW c \in Blocks, ~Among(c, q), NEW r, r = <<c>> \o q
  PROVE  Inj(r) /\ \A d : Among(d, r) <=> d = c \/ Among(d, q)
<1>1. <<c>> \in Seq(Blocks) /\ Len(<<c>>) = 1 /\ <<c>>[1] = c
  OBVIOUS
<1>2. Len(q) \in Nat /\ DOMAIN q = 1..Len(q)
  BY SeqLen, Zenon
<1>3. /\ r \in Seq(Blocks) /\ Len(r) = 1 + Len(q)
      /\ \A i \in 1..1 + Len(q) : r[i] = IF i <= 1 THEN <<c>>[i] ELSE q[i - 1]
  BY ONLY <1>1, q \in Seq(Blocks), r = <<c>> \o q, SeqJoin, Zenon
<1>4. DOMAIN r = 1..Len(q) + 1
  BY ONLY <1>2, <1>3, SeqLen
<1>5. r[1] = c /\ \A i \in 1..Len(q) : r[i + 1] = q[i]
  BY ONLY <1>1, <1>2, <1>3
<1>6. \A i \in DOMAIN r : i # 1 => i - 1 \in DOMAIN q /\ r[i] = q[i - 1]
  BY ONLY <1>1, <1>2, <1>3, <1>4
<1>7. \A d : Among(d, r) <=> d = c \/ Among(d, q)
  <2> SUFFICES ASSUME NEW d PROVE Among(d, r) <=> d = c \/ Among(d, q)
    BY Zenon
  <2>1. ASSUME Among(d, r) PROVE d = c \/ Among(d, q)
    BY <1>5, <1>6, <2>1, Zenon DEF Among
  <2>2. Among(c, r)
    BY ONLY <1>2, <1>4, <1>5 DEF Among
  <2>3. ASSUME Among(d, q) PROVE Among(d, r)
    <3>1. PICK i \in DOMAIN q : q[i] = d
      BY <2>3, Zenon DEF Among
    <3>2. i + 1 \in DOMAIN r /\ r[i + 1] = d
      BY ONLY <1>2, <1>4, <1>5, <3>1
    <3> QED  BY <3>2, Zenon DEF Among
  <2> QED  BY <2>1, <2>2, <2>3, Zenon
<1>8. ASSUME NEW i \in DOMAIN r, NEW j \in DOMAIN r, r[i] = r[j] PROVE i = j
  <2>1. i = 1 \/ j = 1 => i = j
    BY <1>5, <1>6, <1>8 DEF Among
  <2>2. CASE i # 1 /\ j # 1
    <3>1. i - 1 = j - 1
      BY <1>6, <1>8, <2>2, Zenon DEF Inj
    <3>2. i \in Int /\ j \in Int
      BY ONLY <1>2, <1>4
    <3> QED  BY ONLY <3>1, <3>2
  <2> QED  BY <2>1, <2>2, Zenon
<1> QED  BY <1>7, <1>8, Zenon DEF Inj

Dropped(q, k) == [i \in 1..Len(q) - 1 |-> IF i < k THEN q[i] ELSE q[i + 1]]

\* An element is taken out.
LEMMA Removed ==
  ASSUME NEW q \in Seq(Blocks), Inj(q), NEW k \in DOMAIN q, NEW c, q[k] = c, NEW r,
         r = Dropped(q, k)
  PROVE  r \in Seq(Blocks) /\ Inj(r) /\ \A d : Among(d, r) <=> d # c /\ Among(d, q)
<1>1. Len(q) \in Nat /\ DOMAIN q = 1..Len(q) /\ k \in 1..Len(q) /\ q \in [1..Len(q) -> Blocks]
  BY SeqLen, Zenon
<1>2. PICK n \in Nat : n = Len(q) - 1
  <2>1. Len(q) - 1 \in Nat
    BY ONLY <1>1
  <2> QED  BY <2>1, Zenon
<1>3. /\ \A i \in 1..n : i \in DOMAIN q /\ i + 1 \in DOMAIN q
      /\ DOMAIN r = 1..n /\ \A i \in 1..n : r[i] = IF i < k THEN q[i] ELSE q[i + 1]
  BY <1>1, <1>2 DEF Dropped
<1>4. r \in Seq(Blocks)
  <2>1. r \in [1..n -> Blocks]
    BY <1>1, <1>2, <1>3, Zenon DEF Dropped
  <2> QED  BY ONLY <2>1
<1>5. ASSUME NEW i \in 1..n, NEW j \in 1..n, r[i] = r[j] PROVE i = j
  <2>1. (IF i < k THEN i ELSE i + 1) = (IF j < k THEN j ELSE j + 1)
    BY <1>3, <1>5 DEF Inj
  <2> QED  BY ONLY <1>1, <2>1, i \in 1..n, j \in 1..n
<1>6. ASSUME NEW i \in 1..n PROVE r[i] # c /\ Among(r[i], q)
  <2>1. (IF i < k THEN i ELSE i + 1) # k
    BY ONLY <1>1
  <2>2. r[i] # q[k]
    BY <1>3, <2>1, Zenon DEF Inj
  <2> QED  BY <1>3, <2>2, Zenon DEF Among
<1>7. ASSUME NEW i \in DOMAIN q, q[i] # c PROVE Among(q[i], r)
  <2>1. i # k /\ i \in 1..Len(q)
    BY <1>1, <1>7, Zenon
  <2>2. CASE i < k
    <3>1. i \in 1..n /\ r[i] = q[i]
      BY ONLY <1>1, <1>2, <1>3, <2>1, <2>2
    <3> QED  BY <1>3, <3>1, Zenon DEF Among
  <2>3. CASE i > k
    <3>1. i - 1 \in 1..n /\ r[i - 1] = q[(i - 1) + 1] /\ (i - 1) + 1 = i
      BY ONLY <1>1, <1>2, <1>3, <2>1, <2>3
    <3> QED  BY <1>3, <3>1, Zenon DEF Among
  <2> QED  BY ONLY <1>1, <2>1, <2>2, <2>3
<1>8. Inj(r)
  BY <1>3, <1>5, Zenon DEF Inj
<1>9. \A d : Among(d, r) <=> d # c /\ Among(d, q)
  <2> SUFFICES ASSUME NEW d PROVE Among(d, r) <=> d # c /\ Among(d, q)
    BY Zenon
  <2>1. ASSUME Among(d, r) PROVE d # c /\ Among(d, q)
    <3>1. PICK i \in 1..n : r[i] = d
      BY <1>3, <2>1, Zenon DEF Among
    <3> QED  BY <1>6, <3>1, Zenon
  <2>2. ASSUME d # c, Among(d, q) PROVE Among(d, r)
    <3>1. PICK i \in DOMAIN q : q[i] = d
      BY <2>2, Zenon DEF Among
    <3> QED  BY <1>7, <2>2, <3>1, Zenon
  <2> QED  BY <2>1, <2>2, Zenon
<1> QED  BY <1>4, <1>8, <1>9, Zenon

-----------------------------------------------------------------------------
(* Counting.                                                               *)

\* The laws of numbers and finite sets that the proofs need.  They are theorems
\* of the library, which SlabProofs instantiates once the steps are done, to
\* keep it out of the provers' way: see CountingHolds.
Least == \A S \in SUBSET Nat : S # {} => \E x \in S : \A y \in S : ~(y < x)
CardEmpty == IsFiniteSet({}) /\ Cardinality({}) = 0 /\ \A S : IsFiniteSet(S) => (Cardinality(S) = 0 <=> S = {})
CardType == \A S : IsFiniteSet(S) => Cardinality(S) \in Nat
CardSubset == \A S : IsFiniteSet(S) => \A T \in SUBSET S : IsFiniteSet(T)
CardAdd == \A S, x : IsFiniteSet(S) =>
             IsFiniteSet(S \cup {x}) /\ Cardinality(S \cup {x}) = IF x \in S THEN Cardinality(S) ELSE Cardinality(S) + 1
CardRemove == \A S, x : IsFiniteSet(S) =>
                IsFiniteSet(S \ {x}) /\ Cardinality(S \ {x}) = IF x \in S THEN Cardinality(S) - 1 ELSE Cardinality(S)

Counting == Least /\ CardEmpty /\ CardType /\ CardSubset /\ CardAdd /\ CardRemove

-----------------------------------------------------------------------------
(* Objects that clients hold.                                              *)

Object == [slab : Blocks, obj : Nat, via : Blocks \cup {NULL}]

Out(H, s) == {h \in H : h.slab = s}
OutOf(H, S) == {h \in H : h.slab \in S}

\* The counts of held objects are numbers, and one object more or less held is
\* one more or less in the count.
LEMMA Counts ==
  ASSUME Counting, NEW H, IsFiniteSet(H), NEW S
  PROVE  /\ IsFiniteSet(OutOf(H, S)) /\ Cardinality(OutOf(H, S)) \in Nat
         /\ \A h : h \notin H =>
              Cardinality(OutOf(H \cup {h}, S)) = Cardinality(OutOf(H, S)) + IF h.slab \in S THEN 1 ELSE 0
         /\ \A h \in H :
              Cardinality(OutOf(H \ {h}, S)) = Cardinality(OutOf(H, S)) - IF h.slab \in S THEN 1 ELSE 0
<1>1. OutOf(H, S) \in SUBSET H
  BY Zenon DEF OutOf
<1>2. IsFiniteSet(OutOf(H, S)) /\ Cardinality(OutOf(H, S)) \in Nat
  BY <1>1, Zenon DEF Counting, CardType, CardSubset
<1>3. ASSUME NEW h, h \notin H
      PROVE  Cardinality(OutOf(H \cup {h}, S)) = Cardinality(OutOf(H, S)) + IF h.slab \in S THEN 1 ELSE 0
  <2>1. CASE h.slab \in S
    <3>1. OutOf(H \cup {h}, S) = OutOf(H, S) \cup {h} /\ h \notin OutOf(H, S)
      BY <1>3, <2>1, Zenon DEF OutOf
    <3> QED  BY <1>2, <2>1, <3>1, Zenon DEF Counting, CardAdd
  <2>2. CASE h.slab \notin S
    <3>1. OutOf(H \cup {h}, S) = OutOf(H, S)
      BY <2>2, Zenon DEF OutOf
    <3> QED  BY ONLY <1>2, <2>2, <3>1
  <2> QED  BY <2>1, <2>2, Zenon
<1>4. ASSUME NEW h \in H
      PROVE  Cardinality(OutOf(H \ {h}, S)) = Cardinality(OutOf(H, S)) - IF h.slab \in S THEN 1 ELSE 0
  <2>1. CASE h.slab \in S
    <3>1. OutOf(H \ {h}, S) = OutOf(H, S) \ {h} /\ h \in OutOf(H, S)
      BY <2>1, Zenon DEF OutOf
    <3> QED  BY <1>2, <2>1, <3>1, Zenon DEF Counting, CardRemove
  <2>2. CASE h.slab \notin S
    <3>1. OutOf(H \ {h}, S) = OutOf(H, S)
      BY <2>2, Zenon DEF OutOf
    <3> QED  BY ONLY <1>2, <2>2, <3>1
  <2> QED  BY <2>1, <2>2, Zenon
<1> QED  BY <1>2, <1>3, <1>4, Zenon

\* The same for the objects of one slab.
LEMMA CountsOfSlab ==
  ASSUME Counting, NEW H, IsFiniteSet(H), NEW s
  PROVE  /\ IsFiniteSet(Out(H, s)) /\ Cardinality(Out(H, s)) \in Nat
         /\ \A h : h \notin H =>
              Cardinality(Out(H \cup {h}, s)) = Cardinality(Out(H, s)) + IF h.slab = s THEN 1 ELSE 0
         /\ \A h \in H :
              Cardinality(Out(H \ {h}, s)) = Cardinality(Out(H, s)) - IF h.slab = s THEN 1 ELSE 0
<1>1. \A J : Out(J, s) = OutOf(J, {s})
  BY Zenon DEF Out, OutOf
<1>2. \A h : h.slab = s <=> h.slab \in {s}
  BY Zenon
<1> QED  BY <1>1, <1>2, Counts

-----------------------------------------------------------------------------
(* The linked lists.                                                       *)

MemType ==
  [cache : [Blocks -> CacheType \cup {NULL}], slab : [Blocks -> SlabType \cup {NULL}]]

\* Blocks of D on doubly linked lists: own says which of the lists Q a block is on,
\* nx and pv are its links, hd the heads, pos how far a block is from the head.
Linked(D, Q, own, nx, pv, hd, pos) ==
  /\ \A s \in D : own[s] \in Q
  /\ \A s \in D : nx[s] # NULL => nx[s] \in D /\ own[nx[s]] = own[s] /\ pv[nx[s]] = s
  /\ \A s \in D : pv[s] # NULL => /\ pv[s] \in D /\ own[pv[s]] = own[s] /\ nx[pv[s]] = s
                                  /\ pos[s] = pos[pv[s]] + 1
  /\ \A s \in D : pv[s] = NULL => hd[own[s]] = s /\ pos[s] = 0
  /\ \A k \in Q : hd[k] # NULL => hd[k] \in D /\ own[hd[k]] = k /\ pv[hd[k]] = NULL
  /\ \A s, t \in D : own[s] = own[t] /\ pos[s] = pos[t] => s = t

NextOf(m) == [s \in Blocks |-> m.slab[s].next]
PrevOf(m) == [s \in Blocks |-> m.slab[s].prev]
OwnerOf(m, on) == [s \in Blocks |-> <<m.slab[s].cache, on[s]>>]
HeadOf(m) == [k \in Blocks \X Lists |-> m.cache[k[1]][k[2]]]
ListsOf(m) == {k \in Blocks \X Lists : m.cache[k[1]] # NULL}

\* The slabs of D are on the lists of their caches, each on the one on gives it.
ChainedAt(m, D, on, pos) ==
  /\ \A s \in D : m.slab[s] # NULL
  /\ Linked(D, ListsOf(m), OwnerOf(m, on), NextOf(m), PrevOf(m), HeadOf(m), pos)

Chained(m, D, on) ==
  /\ m \in MemType /\ D \in SUBSET Blocks /\ on \in [Blocks -> Lists]
  /\ \E pos \in [Blocks -> Nat] : ChainedAt(m, D, on, pos)

\* The fields of a slab header that are no links.
SameObjects(r, t) ==
  /\ t.cache = r.cache /\ t.objs = r.objs /\ t.num_free = r.num_free /\ t.free_list = r.free_list

\* The fields of a cache header that are no links.
SameCounts(r, t) ==
  /\ t.valid = r.valid /\ t.objs = r.objs
  /\ t.num_slabs = r.num_slabs /\ t.num_allocated = r.num_allocated

\* The memories differ in the links of the lists only.
SameSlab(m, n, b) ==
  /\ m.slab[b] = NULL <=> n.slab[b] = NULL
  /\ m.slab[b] # NULL => SameObjects(m.slab[b], n.slab[b])

SameCache(m, n, b) ==
  /\ m.cache[b] = NULL <=> n.cache[b] = NULL
  /\ m.cache[b] # NULL => SameCounts(m.cache[b], n.cache[b])

SameButLinks(m, n) == \A b \in Blocks : SameSlab(m, n, b) /\ SameCache(m, n, b)

-----------------------------------------------------------------------------

\* Two changes of links are one.
LEMMA SameTransitive ==
  ASSUME NEW m, NEW n, NEW x, SameButLinks(m, n), SameButLinks(n, x)
  PROVE  SameButLinks(m, x)
<1> SUFFICES ASSUME NEW b \in Blocks
             PROVE  SameSlab(m, x, b) /\ SameCache(m, x, b)
  BY Zenon DEF SameButLinks
<1>1. SameSlab(m, n, b) /\ SameCache(m, n, b) /\ SameSlab(n, x, b) /\ SameCache(n, x, b)
  BY Zenon DEF SameButLinks
<1>2. SameSlab(m, x, b)
  BY <1>1, Zenon DEF SameSlab, SameObjects
<1>3. SameCache(m, x, b)
  BY <1>1, Zenon DEF SameCache, SameCounts
<1> QED  BY <1>2, <1>3, Zenon

SetNext(r, x) == [r EXCEPT !.next = x]
SetPrev(r, x) == [r EXCEPT !.prev = x]
SetHead(r, l, x) == [r EXCEPT ![l] = x]

\* The heads of the lists are the same but for list l, which begins with x.
SameHeads(r, t, l, x) == \A k \in Lists : t[k] = IF k = l THEN x ELSE r[k]

\* Writing a link of a slab header changes nothing else of it.
LEMMA SlabLink ==
  ASSUME NEW r \in SlabType, NEW x \in Blocks \cup {NULL}
  PROVE  /\ SetNext(r, x) \in SlabType /\ SetNext(r, x) # NULL /\ SameObjects(r, SetNext(r, x))
         /\ SetNext(r, x).next = x /\ SetNext(r, x).prev = r.prev
         /\ SetPrev(r, x) \in SlabType /\ SetPrev(r, x) # NULL /\ SameObjects(r, SetPrev(r, x))
         /\ SetPrev(r, x).prev = x /\ SetPrev(r, x).next = r.next
<1>1. SetNext(r, x) \in SlabType /\ SetPrev(r, x) \in SlabType
  BY Zenon DEF SlabType, SetNext, SetPrev
<1>2. SetNext(r, x) # NULL /\ SetPrev(r, x) # NULL
  BY <1>1, SlabAssumption, Zenon
<1> QED  BY <1>1, <1>2, Zenon DEF SlabType, SetNext, SetPrev, SameObjects

\* Writing the head of a list changes nothing else of a cache header.
LEMMA CacheLink ==
  ASSUME NEW r \in CacheType, NEW l \in Lists, NEW x \in Blocks \cup {NULL}
  PROVE  /\ SetHead(r, l, x) \in CacheType /\ SetHead(r, l, x) # NULL
         /\ SameCounts(r, SetHead(r, l, x)) /\ SameHeads(r, SetHead(r, l, x), l, x)
<1>1. SetHead(r, l, x) \in CacheType
  BY Zenon DEF CacheType, Lists, SetHead
<1>2. SetHead(r, l, x) # NULL
  BY <1>1, SlabAssumption, Zenon
<1>3. SameHeads(r, SetHead(r, l, x), l, x)
  BY Zenon DEF CacheType, Lists, SetHead, SameHeads
<1>4. SameCounts(r, SetHead(r, l, x))
  BY Zenon DEF CacheType, Lists, SetHead, SameCounts
<1> QED  BY <1>1, <1>2, <1>3, <1>4, Zenon

\* Links are blocks or NULL.
LEMMA Links ==
  /\ \A r \in CacheType, l \in Lists : r[l] \in Blocks \cup {NULL}
  /\ \A r \in SlabType : /\ r.next \in Blocks \cup {NULL} /\ r.prev \in Blocks \cup {NULL}
                         /\ r.cache \in Blocks
<1>1. \A r \in CacheType, l \in Lists : r[l] \in Blocks \cup {NULL}
  BY Zenon DEF CacheType, Lists
<1> QED  BY <1>1, Zenon DEF SlabType

SetError(r) == [r EXCEPT !.error_state = TRUE]
SetNoGrown(r) == [r EXCEPT !.grown = FALSE]
SetInvalid(r) == [r EXCEPT !.valid = FALSE]

\* Writing a flag leaves the rest of a header as it was.
LEMMA FlagIs ==
  ASSUME NEW r \in CacheType
  PROVE  /\ SetError(r) \in CacheType /\ SetError(r) # NULL /\ SameCounts(r, SetError(r))
         /\ SetNoGrown(r) \in CacheType /\ SetNoGrown(r) # NULL /\ SameCounts(r, SetNoGrown(r))
         /\ SetInvalid(r) \in CacheType /\ SetInvalid(r) # NULL /\ ~SetInvalid(r).valid
         /\ \A l \in Lists : SetError(r)[l] = r[l] /\ SetNoGrown(r)[l] = r[l] /\ SetInvalid(r)[l] = r[l]
<1>1. SetError(r) \in CacheType /\ SetNoGrown(r) \in CacheType /\ SetInvalid(r) \in CacheType
  BY Zenon DEF CacheType, SetError, SetNoGrown, SetInvalid
<1>2. SetError(r) # NULL /\ SetNoGrown(r) # NULL /\ SetInvalid(r) # NULL
  BY <1>1, SlabAssumption, Zenon
<1>3. SameCounts(r, SetError(r)) /\ SameCounts(r, SetNoGrown(r)) /\ ~SetInvalid(r).valid
  BY Zenon DEF CacheType, SetError, SetNoGrown, SetInvalid, SameCounts
<1>4. \A l \in Lists : SetError(r)[l] = r[l] /\ SetNoGrown(r)[l] = r[l] /\ SetInvalid(r)[l] = r[l]
  BY Zenon DEF CacheType, SetError, SetNoGrown, SetInvalid, Lists
<1> QED  BY <1>1, <1>2, <1>3, <1>4, Zenon

\* A new header has no slabs and counts nothing.
LEMMA NewCacheIs ==
  ASSUME NEW k \in Nat, NEW r, r = NewCache(k)
  PROVE  /\ r \in CacheType /\ r # NULL /\ r.valid /\ r.num_slabs = 0 /\ r.num_allocated = 0
         /\ \A l \in Lists : r[l] = NULL
<1>1. r \in CacheType
  BY DEF NewCache, CacheType
<1>2. r # NULL
  BY <1>1, SlabAssumption, Zenon
<1> QED  BY <1>1, <1>2 DEF NewCache, Lists

-----------------------------------------------------------------------------
(* Doubly linked lists.                                                    *)

\* s is put at the head of list k.
Inserted(D, Q, own, nx, pv, hd, own2, nx2, pv2, hd2, s, k) ==
  /\ own2[s] = k /\ \A t \in D : own2[t] = own[t]
  /\ nx2[s] = hd[k] /\ \A t \in D : nx2[t] = nx[t]
  /\ pv2[s] = NULL /\ \A t \in D : pv2[t] = IF t = hd[k] THEN s ELSE pv[t]
  /\ hd2[k] = s /\ \A j \in Q : j # k => hd2[j] = hd[j]

\* s is taken off its list.
Unlinked(D, Q, own, nx, pv, hd, own2, nx2, pv2, hd2, s) ==
  /\ \A t \in D \ {s} : own2[t] = own[t]
  /\ \A t \in D \ {s} : nx2[t] = IF t = pv[s] THEN nx[s] ELSE nx[t]
  /\ \A t \in D \ {s} : pv2[t] = IF t = nx[s] THEN pv[s] ELSE pv[t]
  /\ hd2[own[s]] = IF pv[s] = NULL THEN nx[s] ELSE hd[own[s]]
  /\ \A j \in Q : j # own[s] => hd2[j] = hd[j]

\* Putting a block at the head of a list leaves the lists linked.
LEMMA Insert ==
  ASSUME NEW D \in SUBSET Blocks, NEW Q, NEW own, NEW nx, NEW pv, NEW hd,
         NEW pos \in [Blocks -> Nat], Linked(D, Q, own, nx, pv, hd, pos),
         NEW s \in Blocks, s \notin D, NEW k \in Q,
         NEW own2, NEW nx2, NEW pv2, NEW hd2,
         Inserted(D, Q, own, nx, pv, hd, own2, nx2, pv2, hd2, s, k)
  PROVE  \E q \in [Blocks -> Nat] : Linked(D \cup {s}, Q, own2, nx2, pv2, hd2, q)
<1> DEFINE q == [t \in Blocks |-> IF t = s THEN 0 ELSE IF own[t] = k THEN pos[t] + 1 ELSE pos[t]]
<1>1. /\ q \in [Blocks -> Nat] /\ NULL \notin Blocks
      /\ q[s] = 0 /\ \A t \in D : q[t] = IF own[t] = k THEN pos[t] + 1 ELSE pos[t]
      /\ \A t \in D : pos[t] \in Nat
  BY SlabAssumption
<1> HIDE DEF q
<1>2. /\ s # NULL /\ \A t \in D : t # NULL /\ t # s
  BY <1>1, Zenon
<1>3. \A t \in D \cup {s} : own2[t] \in Q
  BY Zenon DEF Linked, Inserted
<1>4. \A t \in D \cup {s} : nx2[t] # NULL => nx2[t] \in D \cup {s} /\ own2[nx2[t]] = own2[t] /\ pv2[nx2[t]] = t
  BY <1>2 DEF Linked, Inserted
<1>5. \A t \in D \cup {s} : pv2[t] # NULL => /\ pv2[t] \in D \cup {s} /\ own2[pv2[t]] = own2[t] /\ nx2[pv2[t]] = t
                                             /\ q[t] = q[pv2[t]] + 1
  BY <1>1, <1>2 DEF Linked, Inserted
<1>6. \A t \in D \cup {s} : pv2[t] = NULL => hd2[own2[t]] = t /\ q[t] = 0
  BY <1>1, <1>2 DEF Linked, Inserted
<1>7. \A j \in Q : hd2[j] # NULL => hd2[j] \in D \cup {s} /\ own2[hd2[j]] = j /\ pv2[hd2[j]] = NULL
  BY <1>2 DEF Linked, Inserted
<1>8. \A t, u \in D \cup {s} : own2[t] = own2[u] /\ q[t] = q[u] => t = u
  BY <1>1, <1>2 DEF Linked, Inserted
<1> QED  BY <1>1, <1>3, <1>4, <1>5, <1>6, <1>7, <1>8, Zenon DEF Linked

\* So does taking one off its list, wherever it is.
LEMMA Unlink ==
  ASSUME NEW D \in SUBSET Blocks, NEW Q, NEW own, NEW nx, NEW pv, NEW hd,
         NEW pos \in [Blocks -> Nat], Linked(D, Q, own, nx, pv, hd, pos),
         NEW s \in D, NEW own2, NEW nx2, NEW pv2, NEW hd2,
         Unlinked(D, Q, own, nx, pv, hd, own2, nx2, pv2, hd2, s)
  PROVE  \E q \in [Blocks -> Nat] : Linked(D \ {s}, Q, own2, nx2, pv2, hd2, q)
<1> DEFINE q == [t \in Blocks |-> IF own[t] = own[s] /\ pos[t] > pos[s] THEN pos[t] - 1 ELSE pos[t]]
<1>1. /\ q \in [Blocks -> Nat] /\ NULL \notin Blocks
      /\ \A t \in D : q[t] = IF own[t] = own[s] /\ pos[t] > pos[s] THEN pos[t] - 1 ELSE pos[t]
      /\ \A t \in D : pos[t] \in Nat
  BY ONLY SlabAssumption
<1> HIDE DEF q
<1>2. \A t \in D : t # NULL
  BY <1>1, Zenon
<1>3. \A t \in D \ {s} : own2[t] \in Q
  BY Zenon DEF Linked, Unlinked
<1>4. nx[s] # s /\ pv[s] # s /\ (nx[s] # NULL => nx[s] # pv[s])
  BY <1>1 DEF Linked
<1>5. \A t \in D \ {s} : nx2[t] # NULL => nx2[t] \in D \ {s} /\ own2[nx2[t]] = own2[t] /\ pv2[nx2[t]] = t
  BY <1>2, <1>4 DEF Linked, Unlinked
<1>6. \A t \in D \ {s} : pv2[t] # NULL => /\ pv2[t] \in D \ {s} /\ own2[pv2[t]] = own2[t] /\ nx2[pv2[t]] = t
  BY <1>2, <1>4 DEF Linked, Unlinked
<1>7. \A t \in D \ {s} : pv2[t] # NULL => q[t] = q[pv2[t]] + 1
  BY <1>1, <1>2, <1>4 DEF Linked, Unlinked
<1>8. \A t \in D \ {s} : pv2[t] = NULL => hd2[own2[t]] = t
  BY <1>1, <1>2, <1>4 DEF Linked, Unlinked
<1>9. \A t \in D \ {s} : pv2[t] = NULL => q[t] = 0
  BY <1>1, <1>2, <1>4 DEF Linked, Unlinked
<1>10. \A j \in Q : hd2[j] # NULL => hd2[j] \in D \ {s} /\ own2[hd2[j]] = j /\ pv2[hd2[j]] = NULL
  BY <1>2, <1>4 DEF Linked, Unlinked
<1>11. \A t, u \in D \ {s} : own2[t] = own2[u] /\ q[t] = q[u] => t = u
  BY <1>1, <1>2 DEF Linked, Unlinked
<1> QED  BY ONLY <1>1, <1>3, <1>5, <1>6, <1>7, <1>8, <1>9, <1>10, <1>11 DEF Linked

-----------------------------------------------------------------------------
(* add_slab_to_list.                                                       *)

\* What add_slab_to_list writes.
AddedFirst(m, n, c, l, s, first) ==
  /\ n \in MemType /\ SameButLinks(m, n)
  /\ n.cache[c][l] = s
  /\ \A d \in Blocks, k \in Lists :
       m.cache[d] # NULL /\ (d # c \/ k # l) => n.cache[d][k] = m.cache[d][k]
  /\ n.slab[s].next = first /\ n.slab[s].prev = NULL
  /\ \A b \in Blocks : b # s /\ m.slab[b] # NULL =>
       /\ n.slab[b].next = m.slab[b].next
       /\ n.slab[b].prev = IF b = first THEN s ELSE m.slab[b].prev

\* add_slab_to_list puts a slab before the first one of a list.
LEMMA AddIs ==
  ASSUME NEW m \in MemType, NEW c \in Blocks, m.cache[c] # NULL, NEW l \in Lists,
         NEW s \in Blocks, m.slab[s] # NULL,
         NEW first, first = m.cache[c][l], first # s,
         first # NULL => m.slab[first] # NULL,
         NEW n, n = add_slab_to_list(m, c, l, s)
  PROVE  AddedFirst(m, n, c, l, s, first)
<1>1. /\ m.cache \in [Blocks -> CacheType \cup {NULL}]
      /\ m.slab \in [Blocks -> SlabType \cup {NULL}]
  BY Zenon DEF MemType
<1>2. first \in Blocks \cup {NULL} /\ NULL \notin Blocks
  BY <1>1, Links, SlabAssumption, Zenon
<1>3. n = [cache |-> n.cache, slab |-> n.slab]
  BY Zenon DEF add_slab_to_list
<1>4. n.cache = [d \in Blocks |-> IF d = c THEN SetHead(m.cache[c], l, s) ELSE m.cache[d]]
  BY <1>1, Zenon DEF add_slab_to_list, SetHead
<1>5. n.slab = [b \in Blocks |->
                 IF b = s THEN SetPrev(SetNext(m.slab[b], first), NULL)
                 ELSE IF b = first THEN SetPrev(m.slab[b], s) ELSE m.slab[b]]
  BY <1>1, Zenon DEF add_slab_to_list, SetNext, SetPrev
<1>6. ASSUME NEW b \in Blocks
      PROVE  /\ n.slab[b] \in SlabType \cup {NULL} /\ SameSlab(m, n, b)
             /\ b = s => n.slab[b].next = first /\ n.slab[b].prev = NULL
             /\ b # s /\ m.slab[b] # NULL => /\ n.slab[b].next = m.slab[b].next
                                             /\ n.slab[b].prev = IF b = first THEN s ELSE m.slab[b].prev
  <2>1. CASE b = s
    <3> DEFINE r == SetNext(m.slab[s], first)
               t == SetPrev(r, NULL)
    <3>1. m.slab[s] \in SlabType /\ n.slab[b] = t
      BY <1>1, <1>5, <2>1, Zenon
    <3>2. r \in SlabType /\ SameObjects(m.slab[s], r) /\ r.next = first
      BY <1>2, <3>1, SlabLink, Zenon
    <3>3. t \in SlabType /\ t # NULL /\ SameObjects(r, t) /\ t.next = r.next /\ t.prev = NULL
      BY <3>2, SlabLink, Zenon
    <3> HIDE DEF r, t
    <3> QED  BY <2>1, <3>1, <3>2, <3>3, Zenon DEF SameSlab, SameObjects
  <2>2. CASE b # s /\ b = first
    <3> DEFINE t == SetPrev(m.slab[b], s)
    <3>1. m.slab[b] # NULL /\ m.slab[b] \in SlabType /\ n.slab[b] = t
      BY <1>1, <1>2, <1>5, <2>2, Zenon
    <3>2. t \in SlabType /\ t # NULL /\ SameObjects(m.slab[b], t) /\ t.next = m.slab[b].next /\ t.prev = s
      BY <3>1, SlabLink, Zenon
    <3> HIDE DEF t
    <3> QED  BY <2>2, <3>1, <3>2, Zenon DEF SameSlab, SameObjects
  <2>3. CASE b # s /\ b # first
    BY <1>1, <1>2, <1>5, <2>3, Zenon DEF SameSlab, SameObjects
  <2> QED  BY <2>1, <2>2, <2>3, Zenon
<1>7. ASSUME NEW d \in Blocks
      PROVE  /\ n.cache[d] \in CacheType \cup {NULL} /\ SameCache(m, n, d)
             /\ \A k \in Lists : m.cache[d] # NULL /\ (d # c \/ k # l) => n.cache[d][k] = m.cache[d][k]
             /\ n.cache[c][l] = s
  <2>1. CASE d = c
    BY <1>1, <1>2, <1>4, <2>1, CacheLink, SMTT(20) DEF SameCache, SameHeads
  <2>2. CASE d # c
    BY <1>1, <1>2, <1>4, <2>2, CacheLink DEF SameCache, SameCounts, SameHeads
  <2> QED  BY <2>1, <2>2, Zenon
<1>8. n.slab \in [Blocks -> SlabType \cup {NULL}] /\ n.cache \in [Blocks -> CacheType \cup {NULL}]
  BY ONLY <1>4, <1>5, <1>6, <1>7
<1>9. n \in MemType
  BY <1>3, <1>8, Zenon DEF MemType
<1>10. SameButLinks(m, n)
  BY <1>6, <1>7, Zenon DEF SameButLinks
<1> QED  BY <1>6, <1>7, <1>9, <1>10, Zenon DEF AddedFirst

\* A slab not on a list is put at the head of one.
LEMMA AddKeeps ==
  ASSUME NEW m, NEW D, NEW on, Chained(m, D, on),
         NEW s \in Blocks, s \notin D, m.slab[s] # NULL,
         NEW c \in Blocks, c = m.slab[s].cache, m.cache[c] # NULL, NEW l \in Lists,
         NEW n, n = add_slab_to_list(m, c, l, s)
  PROVE  /\ SameButLinks(m, n)
         /\ Chained(n, D \cup {s}, [on EXCEPT ![s] = l])
<1>0. /\ m \in MemType /\ D \in SUBSET Blocks /\ on \in [Blocks -> Lists]
  BY Zenon DEF Chained
<1>at. PICK pos \in [Blocks -> Nat] : ChainedAt(m, D, on, pos)
  BY Zenon DEF Chained
<1> USE <1>0, <1>at
<1> DEFINE k == <<c, l>>
           first == HeadOf(m)[k]
           at == [on EXCEPT ![s] = l]
<1>1. k \in Blocks \X Lists /\ k[1] = c /\ k[2] = l /\ k \in ListsOf(m) /\ first = m.cache[c][l]
  BY Zenon DEF ListsOf, HeadOf
<1>2. first # NULL => first \in D /\ m.slab[first] # NULL
  BY <1>1, Zenon DEF ChainedAt, Linked
<1>3. AddedFirst(m, n, c, l, s, first)
  <2>1. first # s
    BY <1>2, SlabAssumption, Zenon
  <2> HIDE DEF first
  <2> QED  BY <1>1, <1>2, <2>1, AddIs, Zenon
<1>4. /\ \A b \in Blocks : m.slab[b] # NULL => n.slab[b] # NULL /\ n.slab[b].cache = m.slab[b].cache
      /\ \A b \in Blocks : m.cache[b] = NULL <=> n.cache[b] = NULL
  BY <1>3, Zenon DEF AddedFirst, SameButLinks, SameSlab, SameCache, SameObjects
<1>5. ListsOf(n) = ListsOf(m)
  BY <1>4, Zenon DEF ListsOf
<1>6. OwnerOf(n, at)[s] = k /\ \A t \in D : OwnerOf(n, at)[t] = OwnerOf(m, on)[t]
  <2>1. at[s] = l /\ \A t \in D : at[t] = on[t]
    BY Zenon
  <2>2. n.slab[s].cache = c /\ \A t \in D : n.slab[t].cache = m.slab[t].cache
    BY <1>4, Zenon DEF ChainedAt
  <2> QED  BY <2>1, <2>2, Zenon DEF OwnerOf
<1>7. NextOf(n)[s] = first /\ \A t \in D : NextOf(n)[t] = NextOf(m)[t]
  BY <1>3, Zenon DEF AddedFirst, NextOf, ChainedAt
<1>8. PrevOf(n)[s] = NULL /\ \A t \in D : PrevOf(n)[t] = IF t = first THEN s ELSE PrevOf(m)[t]
  BY <1>3, Zenon DEF AddedFirst, PrevOf, ChainedAt
<1>9. HeadOf(n)[k] = s /\ \A j \in ListsOf(m) : j # k => HeadOf(n)[j] = HeadOf(m)[j]
  <2>1. HeadOf(n)[k] = s
    BY <1>1, <1>3, Zenon DEF AddedFirst, HeadOf
  <2>2. ASSUME NEW j \in ListsOf(m), j # k
        PROVE  HeadOf(n)[j] = HeadOf(m)[j]
    <3>1. j \in Blocks \X Lists /\ j[1] \in Blocks /\ j[2] \in Lists /\ m.cache[j[1]] # NULL
      BY Zenon DEF ListsOf
    <3>2. j[1] # c \/ j[2] # l
      BY ONLY <2>2, <3>1
    <3> QED  BY <1>3, <3>1, <3>2, Zenon DEF AddedFirst, HeadOf
  <2> QED  BY <2>1, <2>2, Zenon
<1> HIDE DEF k, first, at
<1>10. \E q \in [Blocks -> Nat] :
         Linked(D \cup {s}, ListsOf(m), OwnerOf(n, at), NextOf(n), PrevOf(n), HeadOf(n), q)
  <2>1. Linked(D, ListsOf(m), OwnerOf(m, on), NextOf(m), PrevOf(m), HeadOf(m), pos)
    BY Zenon DEF ChainedAt
  <2>2. Inserted(D, ListsOf(m), OwnerOf(m, on), NextOf(m), PrevOf(m), HeadOf(m),
                 OwnerOf(n, at), NextOf(n), PrevOf(n), HeadOf(n), s, k)
    BY <1>6, <1>7, <1>8, <1>9, Zenon DEF first, Inserted
  <2>3. k \in ListsOf(m) /\ D \in SUBSET Blocks /\ pos \in [Blocks -> Nat] /\ s \in Blocks /\ s \notin D
    BY <1>1, Zenon
  <2> QED  BY ONLY <2>1, <2>2, <2>3, Insert, Zenon
<1>11. \A t \in D \cup {s} : n.slab[t] # NULL
  BY <1>4, Zenon DEF ChainedAt
<1> QED  BY <1>3, <1>5, <1>10, <1>11, Zenon DEF AddedFirst, ChainedAt, Chained, at

-----------------------------------------------------------------------------
(* remove_slab_from_list.                                                  *)

\* What remove_slab_from_list writes.
TakenOff(m, n, c, l, s, next, prev) ==
  /\ n \in MemType /\ SameButLinks(m, n)
  /\ n.cache[c][l] = IF prev = NULL THEN next ELSE m.cache[c][l]
  /\ \A d \in Blocks, k \in Lists :
       m.cache[d] # NULL /\ (d # c \/ k # l) => n.cache[d][k] = m.cache[d][k]
  /\ \A b \in Blocks : b # s /\ m.slab[b] # NULL =>
       /\ n.slab[b].next = IF b = prev THEN next ELSE m.slab[b].next
       /\ n.slab[b].prev = IF b = next THEN prev ELSE m.slab[b].prev

\* remove_slab_from_list links the neighbours of a slab with each other.
LEMMA RemoveIs ==
  ASSUME NEW m \in MemType, NEW c \in Blocks, m.cache[c] # NULL, NEW l \in Lists,
         NEW s \in Blocks, m.slab[s] # NULL,
         NEW next, next = m.slab[s].next, NEW prev, prev = m.slab[s].prev,
         next # NULL => m.slab[next] # NULL /\ next # prev,
         prev # NULL => m.slab[prev] # NULL, next # s, prev # s,
         NEW n, n = remove_slab_from_list(m, c, l, s)
  PROVE  TakenOff(m, n, c, l, s, next, prev)
<1>1. /\ m.cache \in [Blocks -> CacheType \cup {NULL}]
      /\ m.slab \in [Blocks -> SlabType \cup {NULL}]
  BY Zenon DEF MemType
<1>2. next \in Blocks \cup {NULL} /\ prev \in Blocks \cup {NULL} /\ NULL \notin Blocks
  BY <1>1, Links, SlabAssumption, Zenon
<1>3. n = [cache |-> n.cache, slab |-> n.slab]
  BY Zenon DEF remove_slab_from_list
<1>4. n.cache = IF prev = NULL
                THEN [d \in Blocks |-> IF d = c THEN SetHead(m.cache[c], l, next) ELSE m.cache[d]]
                ELSE m.cache
  BY <1>1, Zenon DEF remove_slab_from_list, SetHead
<1>5. n.slab = [b \in Blocks |->
                 IF b = s THEN SetPrev(SetNext(m.slab[b], NULL), NULL)
                 ELSE IF b = prev THEN SetNext(m.slab[b], next)
                 ELSE IF b = next THEN SetPrev(m.slab[b], prev) ELSE m.slab[b]]
  <2>1. n.slab = [b \in Blocks |->
                   CASE b = s -> [m.slab[b] EXCEPT !.next = NULL, !.prev = NULL]
                     [] b = prev -> [m.slab[b] EXCEPT !.next = next]
                     [] b = next -> [m.slab[b] EXCEPT !.prev = prev]
                     [] OTHER -> m.slab[b]]
    <3>1. n.slab = [b \in Blocks |->
                     CASE b = s -> [m.slab[b] EXCEPT !.next = NULL, !.prev = NULL]
                       [] b = m.slab[s].prev -> [m.slab[b] EXCEPT !.next = m.slab[s].next]
                       [] b = m.slab[s].next -> [m.slab[b] EXCEPT !.prev = m.slab[s].prev]
                       [] OTHER -> m.slab[b]]
      BY Zenon DEF remove_slab_from_list
    <3> QED  BY ONLY <3>1, next = m.slab[s].next, prev = m.slab[s].prev, Zenon
  <2>2. \A r : [r EXCEPT !.next = NULL, !.prev = NULL] = SetPrev(SetNext(r, NULL), NULL)
    BY Zenon DEF SetNext, SetPrev
  <2>3. s # prev /\ s # next /\ (next # NULL => next # prev)
    BY Zenon
  <2>4. ASSUME NEW b \in Blocks
        PROVE  (CASE b = s -> SetPrev(SetNext(m.slab[b], NULL), NULL)
                  [] b = prev -> SetNext(m.slab[b], next)
                  [] b = next -> SetPrev(m.slab[b], prev)
                  [] OTHER -> m.slab[b]) =
               IF b = s THEN SetPrev(SetNext(m.slab[b], NULL), NULL)
               ELSE IF b = prev THEN SetNext(m.slab[b], next)
               ELSE IF b = next THEN SetPrev(m.slab[b], prev) ELSE m.slab[b]
    BY <1>2, <2>3, Zenon
  <2>5. ASSUME NEW b \in Blocks
        PROVE  n.slab[b] = (CASE b = s -> SetPrev(SetNext(m.slab[b], NULL), NULL)
                              [] b = prev -> SetNext(m.slab[b], next)
                              [] b = next -> SetPrev(m.slab[b], prev)
                              [] OTHER -> m.slab[b])
    <3>1. n.slab[b] = CASE b = s -> [m.slab[b] EXCEPT !.next = NULL, !.prev = NULL]
                       [] b = prev -> [m.slab[b] EXCEPT !.next = next]
                       [] b = next -> [m.slab[b] EXCEPT !.prev = prev]
                       [] OTHER -> m.slab[b]
      BY <2>1, Zenon
    <3> QED  BY ONLY <3>1, <2>2, Zenon DEF SetNext, SetPrev
  <2>6. n.slab = [b \in Blocks |-> n.slab[b]]
    BY <2>1, Zenon
  <2> QED  BY ONLY <2>4, <2>5, <2>6
<1>6. ASSUME NEW b \in Blocks
      PROVE  /\ n.slab[b] \in SlabType \cup {NULL} /\ SameSlab(m, n, b)
             /\ b # s /\ m.slab[b] # NULL =>
                  /\ n.slab[b].next = IF b = prev THEN next ELSE m.slab[b].next
                  /\ n.slab[b].prev = IF b = next THEN prev ELSE m.slab[b].prev
  <2>1. CASE b = s
    <3> DEFINE r == SetNext(m.slab[s], NULL)
               t == SetPrev(r, NULL)
    <3>1. m.slab[s] \in SlabType /\ n.slab[b] = t
      BY <1>1, <1>5, <2>1, Zenon
    <3>2. r \in SlabType /\ SameObjects(m.slab[s], r)
      BY <1>2, <3>1, SlabLink, Zenon
    <3>3. t \in SlabType /\ t # NULL /\ SameObjects(r, t)
      BY <3>2, SlabLink, Zenon
    <3> HIDE DEF r, t
    <3> QED  BY <2>1, <3>1, <3>2, <3>3, Zenon DEF SameSlab, SameObjects
  <2>2. CASE b # s /\ b = prev
    <3> DEFINE t == SetNext(m.slab[b], next)
    <3>1. m.slab[b] # NULL /\ m.slab[b] \in SlabType /\ n.slab[b] = t /\ b # next
      BY <1>1, <1>2, <1>5, <2>2
    <3>2. t \in SlabType /\ t # NULL /\ SameObjects(m.slab[b], t) /\ t.next = next /\ t.prev = m.slab[b].prev
      BY <1>2, <3>1, SlabLink, Zenon
    <3> HIDE DEF t
    <3> QED  BY <2>2, <3>1, <3>2, Zenon DEF SameSlab, SameObjects
  <2>3. CASE b # s /\ b # prev /\ b = next
    <3> DEFINE t == SetPrev(m.slab[b], prev)
    <3>1. m.slab[b] # NULL /\ m.slab[b] \in SlabType /\ n.slab[b] = t
      BY <1>1, <1>2, <1>5, <2>3, Zenon
    <3>2. t \in SlabType /\ t # NULL /\ SameObjects(m.slab[b], t) /\ t.next = m.slab[b].next /\ t.prev = prev
      BY <1>2, <3>1, SlabLink, Zenon
    <3> HIDE DEF t
    <3> QED  BY <2>3, <3>1, <3>2, Zenon DEF SameSlab, SameObjects
  <2>4. CASE b # s /\ b # prev /\ b # next
    BY <1>1, <1>2, <1>5, <2>4, Zenon DEF SameSlab, SameObjects
  <2> QED  BY <2>1, <2>2, <2>3, <2>4, Zenon
<1>7. ASSUME NEW d \in Blocks
      PROVE  /\ n.cache[d] \in CacheType \cup {NULL} /\ SameCache(m, n, d)
             /\ \A k \in Lists : m.cache[d] # NULL /\ (d # c \/ k # l) => n.cache[d][k] = m.cache[d][k]
             /\ n.cache[c][l] = IF prev = NULL THEN next ELSE m.cache[c][l]
  <2> DEFINE r == SetHead(m.cache[c], l, next)
  <2>5. m.cache[c] \in CacheType
    BY <1>1, Zenon
  <2>0. /\ r \in CacheType /\ r # NULL /\ SameCounts(m.cache[c], r)
        /\ SameHeads(m.cache[c], r, l, next)
    BY <1>2, <2>5, CacheLink, Zenon
  <2>4. prev = NULL => n.cache = [e \in Blocks |-> IF e = c THEN r ELSE m.cache[e]]
    BY <1>4, Zenon
  <2> HIDE DEF r
  <2>1. CASE d = c /\ prev = NULL
    BY <1>1, <2>0, <2>1, <2>4, Zenon DEF SameCache, SameHeads
  <2>2. CASE d # c /\ prev = NULL
    BY <1>1, <2>0, <2>2, <2>4, Zenon DEF SameCache, SameCounts, SameHeads
  <2>3. CASE prev # NULL
    BY <1>1, <1>2, <1>4, <2>3, Zenon DEF SameCache, SameCounts
  <2> QED  BY <2>1, <2>2, <2>3, Zenon
<1>8. n.slab \in [Blocks -> SlabType \cup {NULL}] /\ n.cache \in [Blocks -> CacheType \cup {NULL}]
  BY ONLY <1>1, <1>4, <1>5, <1>6, <1>7
<1>9. n \in MemType
  BY <1>3, <1>8, Zenon DEF MemType
<1>10. SameButLinks(m, n)
  BY <1>6, <1>7, Zenon DEF SameButLinks
<1> QED  BY <1>6, <1>7, <1>9, <1>10, Zenon DEF TakenOff

\* A slab is taken off its list, wherever it is on it.
LEMMA RemoveKeeps ==
  ASSUME NEW m, NEW D, NEW on, Chained(m, D, on),
         NEW s \in D, NEW c \in Blocks, c = m.slab[s].cache, NEW l \in Lists, l = on[s],
         NEW n, n = remove_slab_from_list(m, c, l, s)
  PROVE  /\ SameButLinks(m, n) /\ m.slab[s] # NULL /\ m.cache[c] # NULL
         /\ Chained(n, D \ {s}, on)
<1>0. /\ m \in MemType /\ D \in SUBSET Blocks /\ on \in [Blocks -> Lists]
  BY Zenon DEF Chained
<1>at. PICK pos \in [Blocks -> Nat] : ChainedAt(m, D, on, pos)
  BY Zenon DEF Chained
<1> USE <1>0, <1>at
<1> DEFINE k == OwnerOf(m, on)[s]
           next == NextOf(m)[s]
           prev == PrevOf(m)[s]
<1>1. /\ k = <<c, l>> /\ k[1] = c /\ k[2] = l /\ k \in Blocks \X Lists
      /\ next = m.slab[s].next /\ prev = m.slab[s].prev /\ m.slab[s] # NULL
  BY Zenon DEF OwnerOf, NextOf, PrevOf, ChainedAt
<1>2. Linked(D, ListsOf(m), OwnerOf(m, on), NextOf(m), PrevOf(m), HeadOf(m), pos)
  BY Zenon DEF ChainedAt
<1>3. m.cache[c] # NULL /\ k \in ListsOf(m)
  <2>1. k \in ListsOf(m)
    BY <1>2, Zenon DEF Linked
  <2> QED  BY <1>1, <2>1, Zenon DEF ListsOf
<1>4. (next # NULL => next \in D /\ next # prev /\ next # s) /\ (prev # NULL => prev \in D /\ prev # s)
  <2>1. next # NULL => next \in D /\ PrevOf(m)[next] = s
    BY <1>2, Zenon DEF Linked
  <2>2. \A t \in D : PrevOf(m)[t] # NULL => PrevOf(m)[t] \in D /\ pos[t] = pos[PrevOf(m)[t]] + 1
    BY <1>2, Zenon DEF Linked
  <2>3. NULL \notin D /\ \A t \in D : pos[t] \in Nat
    BY SlabAssumption, Zenon
  <2> QED  BY ONLY <2>1, <2>2, <2>3
<1>5. /\ next # NULL => m.slab[next] # NULL /\ next # prev
      /\ prev # NULL => m.slab[prev] # NULL
      /\ next # s /\ prev # s
  BY <1>4, SlabAssumption, Zenon DEF ChainedAt
<1> HIDE DEF k, next, prev
<1>6. TakenOff(m, n, c, l, s, next, prev)
  BY <1>1, <1>3, <1>5, RemoveIs, Zenon
<1>7. /\ \A b \in Blocks : m.slab[b] # NULL => n.slab[b] # NULL /\ n.slab[b].cache = m.slab[b].cache
      /\ \A b \in Blocks : m.cache[b] = NULL <=> n.cache[b] = NULL
  BY <1>6, Zenon DEF TakenOff, SameButLinks, SameSlab, SameCache, SameObjects
<1>8. ListsOf(n) = ListsOf(m)
  BY <1>7, Zenon DEF ListsOf
<1>9. \A t \in D : m.slab[t] # NULL
  BY Zenon DEF ChainedAt
<1>10. \A t \in D \ {s} : OwnerOf(n, on)[t] = OwnerOf(m, on)[t]
  BY <1>7, <1>9, Zenon DEF OwnerOf
<1>11. \A t \in D \ {s} : NextOf(n)[t] = IF t = prev THEN next ELSE NextOf(m)[t]
  BY <1>6, <1>9, Zenon DEF TakenOff, NextOf
<1>12. \A t \in D \ {s} : PrevOf(n)[t] = IF t = next THEN prev ELSE PrevOf(m)[t]
  BY <1>6, <1>9, Zenon DEF TakenOff, PrevOf
<1>13. HeadOf(n)[k] = IF prev = NULL THEN next ELSE HeadOf(m)[k]
  BY <1>1, <1>6, Zenon DEF TakenOff, HeadOf
<1>14. ASSUME NEW j \in ListsOf(m), j # k
       PROVE  HeadOf(n)[j] = HeadOf(m)[j]
  <2>1. j \in Blocks \X Lists /\ j[1] \in Blocks /\ j[2] \in Lists /\ m.cache[j[1]] # NULL
    BY Zenon DEF ListsOf
  <2>2. j[1] # c \/ j[2] # l
    BY ONLY <1>1, <1>14, <2>1
  <2> QED  BY <1>6, <2>1, <2>2, Zenon DEF TakenOff, HeadOf
<1>15. \E q \in [Blocks -> Nat] :
         Linked(D \ {s}, ListsOf(m), OwnerOf(n, on), NextOf(n), PrevOf(n), HeadOf(n), q)
  <2>1. Unlinked(D, ListsOf(m), OwnerOf(m, on), NextOf(m), PrevOf(m), HeadOf(m),
                 OwnerOf(n, on), NextOf(n), PrevOf(n), HeadOf(n), s)
    BY <1>10, <1>11, <1>12, <1>13, <1>14, Zenon DEF Unlinked, k, next, prev
  <2>2. D \in SUBSET Blocks /\ pos \in [Blocks -> Nat] /\ s \in D
    BY Zenon
  <2> QED  BY ONLY <1>2, <2>1, <2>2, Unlink, Zenon
<1>16. \A t \in D \ {s} : n.slab[t] # NULL
  BY <1>7, <1>9, Zenon
<1> QED  BY <1>1, <1>3, <1>6, <1>8, <1>15, <1>16, Zenon DEF TakenOff, ChainedAt, Chained

\* Moving a slab from its list to another.
LEMMA MoveKeeps ==
  ASSUME NEW m, NEW D, NEW on, Chained(m, D, on),
         NEW s \in D, NEW c \in Blocks, c = m.slab[s].cache,
         NEW from \in Lists, from = on[s], NEW to \in Lists,
         NEW n, n = MoveSlab(m, c, from, to, s)
  PROVE  SameButLinks(m, n) /\ Chained(n, D, [on EXCEPT ![s] = to])
<1>1. PICK x : x = remove_slab_from_list(m, c, from, s)
  BY Zenon
<1>2. /\ SameButLinks(m, x) /\ m.slab[s] # NULL /\ m.cache[c] # NULL
      /\ Chained(x, D \ {s}, on)
  BY <1>1, RemoveKeeps, Zenon
<1>3. x.slab[s] # NULL /\ x.slab[s].cache = c /\ x.cache[c] # NULL /\ s \in Blocks
  BY <1>2, Zenon DEF SameButLinks, SameSlab, SameCache, SameObjects, Chained
<1>4. n = add_slab_to_list(x, c, to, s) /\ s \notin D \ {s}
  BY <1>1, Zenon DEF MoveSlab
<1>5. SameButLinks(x, n) /\ Chained(n, (D \ {s}) \cup {s}, [on EXCEPT ![s] = to])
  BY <1>2, <1>3, <1>4, AddKeeps, Zenon
<1>6. (D \ {s}) \cup {s} = D
  BY Zenon
<1> QED  BY <1>2, <1>5, <1>6, SameTransitive, Zenon

-----------------------------------------------------------------------------
(* Changes that leave the links alone.                                     *)

\* The links of the slabs of D are the same in both memories, new caches have
\* empty lists, and no slab of D loses its cache.
SameLinks(m, n, D) ==
  /\ \A s \in D : /\ n.slab[s] # NULL /\ n.slab[s].cache = m.slab[s].cache
                  /\ n.slab[s].next = m.slab[s].next /\ n.slab[s].prev = m.slab[s].prev
                  /\ n.cache[n.slab[s].cache] # NULL
  /\ \A b \in Blocks, l \in Lists : n.cache[b] # NULL =>
       n.cache[b][l] = IF m.cache[b] = NULL THEN NULL ELSE m.cache[b][l]

\* Which links there are is all that matters.
LEMMA LinksMatter ==
  ASSUME NEW m, NEW D, NEW on, Chained(m, D, on),
         NEW n \in MemType, SameLinks(m, n, D),
         NEW at \in [Blocks -> Lists], \A s \in D : at[s] = on[s]
  PROVE  Chained(n, D, at)
<1>1. m \in MemType /\ D \in SUBSET Blocks /\ on \in [Blocks -> Lists]
  BY Zenon DEF Chained
<1>2. PICK pos \in [Blocks -> Nat] : ChainedAt(m, D, on, pos)
  BY Zenon DEF Chained
<1>3. Linked(D, ListsOf(m), OwnerOf(m, on), NextOf(m), PrevOf(m), HeadOf(m), pos)
  BY <1>2, Zenon DEF ChainedAt
<1>4. \A s \in D : /\ OwnerOf(n, at)[s] = OwnerOf(m, on)[s]
                   /\ NextOf(n)[s] = NextOf(m)[s] /\ PrevOf(n)[s] = PrevOf(m)[s]
  BY <1>1, Zenon DEF SameLinks, OwnerOf, NextOf, PrevOf
<1>5. \A s \in D : OwnerOf(n, at)[s] \in ListsOf(n)
  <2> SUFFICES ASSUME NEW s \in D
               PROVE  OwnerOf(n, at)[s] \in ListsOf(n)
    BY Zenon
  <2>1. n.slab[s] \in SlabType /\ n.cache[n.slab[s].cache] # NULL
    BY <1>1 DEF SameLinks, MemType
  <2>2. n.slab[s].cache \in Blocks /\ at[s] \in Lists /\ s \in Blocks
    BY <1>1, <2>1, Links, Zenon
  <2> QED  BY <2>1, <2>2, Zenon DEF OwnerOf, ListsOf
<1>6. \A k \in ListsOf(n) : HeadOf(n)[k] = IF k \in ListsOf(m) THEN HeadOf(m)[k] ELSE NULL
  <2> SUFFICES ASSUME NEW k \in ListsOf(n)
               PROVE  HeadOf(n)[k] = IF k \in ListsOf(m) THEN HeadOf(m)[k] ELSE NULL
    BY Zenon
  <2>1. k \in Blocks \X Lists /\ k[1] \in Blocks /\ k[2] \in Lists /\ n.cache[k[1]] # NULL
    BY Zenon DEF ListsOf
  <2>2. k \in ListsOf(m) <=> m.cache[k[1]] # NULL
    BY <2>1, Zenon DEF ListsOf
  <2>3. HeadOf(n)[k] = n.cache[k[1]][k[2]] /\ HeadOf(m)[k] = m.cache[k[1]][k[2]]
    BY <2>1, Zenon DEF HeadOf
  <2> QED  BY <2>1, <2>2, <2>3 DEF SameLinks
<1>7. Linked(D, ListsOf(n), OwnerOf(n, at), NextOf(n), PrevOf(n), HeadOf(n), pos)
  BY ONLY <1>3, <1>4, <1>5, <1>6 DEF Linked
<1> QED  BY <1>1, <1>7, Zenon DEF Chained, ChainedAt, SameLinks

\* A slab on a list belongs to a cache.
LEMMA CacheOfSlab ==
  ASSUME NEW m, NEW D, NEW on, Chained(m, D, on), NEW s \in D
  PROVE  /\ s \in Blocks /\ m.slab[s] \in SlabType /\ m.slab[s] # NULL
         /\ m.slab[s].cache \in Blocks /\ m.cache[m.slab[s].cache] # NULL
         /\ m.cache[m.slab[s].cache] \in CacheType
<1>1. m \in MemType /\ D \in SUBSET Blocks /\ on \in [Blocks -> Lists]
  BY Zenon DEF Chained
<1>2. PICK pos \in [Blocks -> Nat] : ChainedAt(m, D, on, pos)
  BY Zenon DEF Chained
<1>3. OwnerOf(m, on)[s] \in ListsOf(m) /\ m.slab[s] # NULL
  BY <1>2, Zenon DEF ChainedAt, Linked
<1>4. s \in Blocks /\ m.slab[s] \in SlabType /\ m.slab[s].cache \in Blocks
  BY <1>1, <1>3, Links, Zenon DEF MemType
<1>5. <<m.slab[s].cache, on[s]>> \in ListsOf(m)
  BY <1>3, <1>4, Zenon DEF OwnerOf
<1>6. m.cache[m.slab[s].cache] # NULL
  BY <1>5, Zenon DEF ListsOf
<1> QED  BY <1>1, <1>3, <1>4, <1>6, Zenon DEF MemType

-----------------------------------------------------------------------------
(* Objects.                                                                *)

SlabsIn(m) == {s \in Blocks : m.slab[s] # NULL}

ListOf(r) ==
  IF r.num_free = r.objs THEN "empty" ELSE IF r.num_free = 0 THEN "full" ELSE "partial"

ListIn(m) == [s \in Blocks |-> IF m.slab[s] = NULL THEN "empty" ELSE ListOf(m.slab[s])]

\* Every slab is on the list its count of free objects calls for.
WellListed(m) == Chained(m, SlabsIn(m), ListIn(m))

\* The memories differ in the links, in the free objects of slab s, which are now
\* the free ones, and in the number of objects allocated from cache c.
Moved(m, n, c, s, free, allocated) ==
  /\ n \in MemType
  /\ \A b \in Blocks \ {s} : SameSlab(m, n, b)
  /\ \A b \in Blocks \ {c} : SameCache(m, n, b)
  /\ n.slab[s] # NULL /\ n.slab[s].cache = m.slab[s].cache /\ n.slab[s].objs = m.slab[s].objs
  /\ n.slab[s].free_list = free /\ n.slab[s].num_free = Len(free)
  /\ n.cache[c] # NULL /\ n.cache[c].valid = m.cache[c].valid /\ n.cache[c].objs = m.cache[c].objs
  /\ n.cache[c].num_slabs = m.cache[c].num_slabs /\ n.cache[c].num_allocated = allocated

\* The first of the free objects of slab s is handed out.
Handed(m, n, c, s, free) == Moved(m, n, c, s, Tail(free), m.cache[c].num_allocated + 1)

\* Object k of slab s is free again, before the others.
Returned(m, n, c, s, free, k) == Moved(m, n, c, s, <<k>> \o free, m.cache[c].num_allocated - 1)

SetFree(r, free, k) == [r EXCEPT !.free_list = free, !.num_free = k]
SetAllocated(r, k) == [r EXCEPT !.num_allocated = k]

\* Writing the free objects of a slab header.
LEMMA FreeIs ==
  ASSUME NEW r \in SlabType, NEW free \in Seq(Nat), NEW k \in Int
  PROVE  /\ SetFree(r, free, k) \in SlabType /\ SetFree(r, free, k) # NULL
         /\ SetFree(r, free, k).free_list = free /\ SetFree(r, free, k).num_free = k
         /\ SetFree(r, free, k).cache = r.cache /\ SetFree(r, free, k).objs = r.objs
         /\ SetFree(r, free, k).next = r.next /\ SetFree(r, free, k).prev = r.prev
<1>1. SetFree(r, free, k) \in SlabType
  BY Zenon DEF SlabType, SetFree
<1>2. SetFree(r, free, k) # NULL
  BY <1>1, SlabAssumption, Zenon
<1> QED  BY <1>1, <1>2, Zenon DEF SlabType, SetFree

\* Writing the count of objects of a cache header.
LEMMA AllocatedIs ==
  ASSUME NEW r \in CacheType, NEW k \in Int
  PROVE  /\ SetAllocated(r, k) \in CacheType /\ SetAllocated(r, k) # NULL
         /\ SetAllocated(r, k).num_allocated = k /\ SetAllocated(r, k).num_slabs = r.num_slabs
         /\ SetAllocated(r, k).valid = r.valid /\ SetAllocated(r, k).objs = r.objs
         /\ \A l \in Lists : SetAllocated(r, k)[l] = r[l]
<1>1. SetAllocated(r, k) \in CacheType
  BY Zenon DEF CacheType, SetAllocated
<1>2. SetAllocated(r, k) # NULL
  BY <1>1, SlabAssumption, Zenon
<1> QED  BY <1>1, <1>2, Zenon DEF CacheType, SetAllocated, Lists

\* An object enters or leaves the free list of a slab, and is counted.
LEMMA MarkIs ==
  ASSUME NEW m \in MemType, NEW c \in Blocks, m.cache[c] # NULL, NEW s \in Blocks, m.slab[s] # NULL,
         NEW free \in Seq(Nat), NEW allocated \in Int, NEW n,
         n = [cache |-> [m.cache EXCEPT ![c] = SetAllocated(m.cache[c], allocated)],
              slab |-> [m.slab EXCEPT ![s] = SetFree(m.slab[s], free, Len(free))]]
  PROVE  Moved(m, n, c, s, free, allocated) /\ (WellListed(m) => SameLinks(m, n, SlabsIn(m)))
<1>1. /\ m.cache \in [Blocks -> CacheType \cup {NULL}]
      /\ m.slab \in [Blocks -> SlabType \cup {NULL}]
      /\ m.cache[c] \in CacheType /\ m.slab[s] \in SlabType
  BY Zenon DEF MemType
<1>2. PICK r : r = SetAllocated(m.cache[c], allocated)
  BY Zenon
<1>3. PICK t : t = SetFree(m.slab[s], free, Len(free))
  BY Zenon
<1>4. /\ r \in CacheType /\ r # NULL
      /\ r.num_allocated = allocated /\ r.num_slabs = m.cache[c].num_slabs
      /\ r.valid = m.cache[c].valid /\ r.objs = m.cache[c].objs
      /\ \A l \in Lists : r[l] = m.cache[c][l]
  BY <1>1, <1>2, AllocatedIs, Zenon
<1>5. /\ t \in SlabType /\ t # NULL
      /\ t.free_list = free /\ t.num_free = Len(free) /\ t.cache = m.slab[s].cache
      /\ t.objs = m.slab[s].objs /\ t.next = m.slab[s].next /\ t.prev = m.slab[s].prev
  <2>1. Len(free) \in Int
    BY ONLY SeqLen
  <2> QED  BY ONLY <1>1, <1>3, <2>1, FreeIs
<1>6. /\ n = [cache |-> n.cache, slab |-> n.slab]
      /\ n.cache = [m.cache EXCEPT ![c] = r] /\ n.slab = [m.slab EXCEPT ![s] = t]
  BY ONLY <1>2, <1>3, n = [cache |-> [m.cache EXCEPT ![c] = SetAllocated(m.cache[c], allocated)],
                           slab |-> [m.slab EXCEPT ![s] = SetFree(m.slab[s], free, Len(free))]], Zenon
<1>7. n.cache[c] = r /\ \A b \in Blocks \ {c} : n.cache[b] = m.cache[b]
  BY <1>1, <1>6, Zenon
<1>8. n.slab[s] = t /\ \A b \in Blocks \ {s} : n.slab[b] = m.slab[b]
  BY <1>1, <1>6, Zenon
<1>9. n \in MemType
  <2>1. n.cache \in [Blocks -> CacheType \cup {NULL}]
    BY ONLY <1>1, <1>4, <1>6
  <2>2. n.slab \in [Blocks -> SlabType \cup {NULL}]
    BY ONLY <1>1, <1>5, <1>6
  <2> QED  BY <1>6, <2>1, <2>2, Zenon DEF MemType
<1>10. Moved(m, n, c, s, free, allocated)
  <2>1. \A b \in Blocks \ {s} : SameSlab(m, n, b)
    BY <1>8, Zenon DEF SameSlab, SameObjects
  <2>2. \A b \in Blocks \ {c} : SameCache(m, n, b)
    BY <1>7, Zenon DEF SameCache, SameCounts
  <2> QED  BY <1>4, <1>5, <1>7, <1>8, <1>9, <2>1, <2>2, Zenon DEF Moved
<1>11. ASSUME WellListed(m)
       PROVE  SameLinks(m, n, SlabsIn(m))
  <2>1. \A b \in Blocks, l \in Lists : n.cache[b] # NULL =>
          n.cache[b][l] = IF m.cache[b] = NULL THEN NULL ELSE m.cache[b][l]
    BY <1>4, <1>7
  <2>2. ASSUME NEW b \in SlabsIn(m)
        PROVE  /\ n.slab[b] # NULL /\ n.slab[b].cache = m.slab[b].cache
               /\ n.slab[b].next = m.slab[b].next /\ n.slab[b].prev = m.slab[b].prev
    <3>1. CASE b = s
      BY <1>5, <1>8, <3>1, Zenon
    <3>2. CASE b # s
      BY <1>8, <3>2, Zenon DEF SlabsIn
    <3> QED  BY <3>1, <3>2, Zenon
  <2>3. ASSUME NEW b \in SlabsIn(m)
        PROVE  n.cache[m.slab[b].cache] # NULL
    <3>1. m.cache[m.slab[b].cache] # NULL /\ m.slab[b].cache \in Blocks
      BY <1>11, CacheOfSlab, Zenon DEF WellListed
    <3> QED  BY <1>4, <1>7, <3>1, Zenon
  <2> QED  BY <2>1, <2>2, <2>3, Zenon DEF SameLinks
<1> QED  BY <1>10, <1>11, Zenon

-----------------------------------------------------------------------------
(* What the operations of the allocator do to the lists.                   *)

\* The list of a slab whose count changed is written anew.
LEMMA Relisted ==
  ASSUME NEW m, NEW n, NEW s \in Blocks, NEW c \in Blocks, NEW free, NEW k, Moved(m, n, c, s, free, k),
         NEW to \in Lists, Chained(n, SlabsIn(m), [ListIn(m) EXCEPT ![s] = to]),
         to = ListOf(n.slab[s]), m.slab[s] # NULL
  PROVE  WellListed(n)
<1>1. SlabsIn(n) = SlabsIn(m)
  BY Zenon DEF SlabsIn, Moved, SameSlab
<1>2. ASSUME NEW b \in Blocks
      PROVE  ListIn(n)[b] = [ListIn(m) EXCEPT ![s] = to][b]
  <2>1. CASE b = s
    BY <2>1, Zenon DEF ListIn, Moved
  <2>2. CASE b # s
    BY <2>2, Zenon DEF ListIn, Moved, SameSlab, SameObjects, ListOf
  <2> QED  BY <2>1, <2>2, Zenon
<1>3. ListIn(n) = [ListIn(m) EXCEPT ![s] = to]
  BY <1>2, Zenon DEF ListIn
<1> QED  BY <1>1, <1>3, Zenon DEF WellListed

\* Changing links after objects.
LEMMA MovedOn ==
  ASSUME NEW m, NEW n, NEW x, NEW s \in Blocks, NEW c \in Blocks, NEW free, NEW k,
         Moved(m, n, c, s, free, k), SameButLinks(n, x), x \in MemType
  PROVE  Moved(m, x, c, s, free, k)
<1>1. \A b \in Blocks : SameSlab(n, x, b) /\ SameCache(n, x, b)
  BY Zenon DEF SameButLinks
<1>2. \A b \in Blocks \ {s} : SameSlab(m, x, b)
  BY <1>1 DEF Moved, SameSlab, SameObjects
<1>3. \A b \in Blocks \ {c} : SameCache(m, x, b)
  BY <1>1 DEF Moved, SameCache, SameCounts
<1>4. /\ x.slab[s] # NULL /\ x.slab[s].cache = m.slab[s].cache /\ x.slab[s].objs = m.slab[s].objs
      /\ x.slab[s].free_list = free /\ x.slab[s].num_free = Len(free)
  BY <1>1, Zenon DEF Moved, SameSlab, SameObjects
<1>5. /\ x.cache[c] # NULL /\ x.cache[c].valid = m.cache[c].valid /\ x.cache[c].objs = m.cache[c].objs
      /\ x.cache[c].num_slabs = m.cache[c].num_slabs /\ x.cache[c].num_allocated = k
  BY <1>1, Zenon DEF Moved, SameCache, SameCounts
<1> QED  BY <1>2, <1>3, <1>4, <1>5, Zenon DEF Moved

\* Nothing changed is nothing but links changed.
LEMMA SameReflexive ==
  ASSUME NEW m PROVE SameButLinks(m, m)
BY Zenon DEF SameButLinks, SameSlab, SameCache, SameObjects, SameCounts

\* A slab on its list stays there.
LEMMA StaysListed ==
  ASSUME NEW m, NEW D, NEW on, Chained(m, D, on), NEW s \in D, NEW to, on[s] = to
  PROVE  SameButLinks(m, m) /\ Chained(m, D, [on EXCEPT ![s] = to])
<1>1. on \in [Blocks -> Lists] /\ s \in Blocks
  BY Zenon DEF Chained
<1>2. [on EXCEPT ![s] = to] = on
  BY <1>1, Zenon
<1> QED  BY <1>2, SameReflexive, Zenon

\* kmem_cache_alloc takes the first free object of a slab and moves the slab to
\* the list it then belongs to.
LEMMA TakeIs ==
  ASSUME NEW m, WellListed(m), NEW c \in Blocks, NEW s \in Blocks, m.slab[s] # NULL,
         c = m.slab[s].cache, NEW free, free = m.slab[s].free_list, free # <<>>,
         m.slab[s].num_free = Len(free), Len(free) <= m.slab[s].objs,
         NEW n, n = TakeObject(m, c, s)
  PROVE  WellListed(n) /\ Handed(m, n, c, s, free)
<1>1. /\ m \in MemType /\ s \in SlabsIn(m) /\ SlabsIn(m) \in SUBSET Blocks
      /\ ListIn(m) \in [Blocks -> Lists]
  BY Zenon DEF WellListed, Chained, SlabsIn
<1>2. /\ m.slab[s] \in SlabType /\ m.cache[c] # NULL /\ m.cache[c] \in CacheType
      /\ m = [cache |-> m.cache, slab |-> m.slab]
      /\ m.cache \in [Blocks -> CacheType \cup {NULL}] /\ m.slab \in [Blocks -> SlabType \cup {NULL}]
  BY <1>1, CacheOfSlab DEF WellListed, MemType
<1>3. /\ free \in Seq(Nat) /\ m.cache[c].num_allocated \in Int /\ m.slab[s].objs \in Nat
  BY <1>2, Zenon DEF SlabType, CacheType
<1>4. /\ Tail(free) \in Seq(Nat) /\ Len(Tail(free)) = Len(free) - 1 /\ Len(free) \in Nat \ {0}
  BY <1>3, SeqTail, SeqLen, Zenon
<1>5. PICK took : took = [cache |-> [m.cache EXCEPT ![c] = SetAllocated(m.cache[c], m.cache[c].num_allocated + 1)],
                          slab |-> [m.slab EXCEPT ![s] = SetFree(m.slab[s], Tail(free), Len(Tail(free)))]]
  BY Zenon
<1>6. Took(m, c, s) = took
  BY <1>2, <1>4, <1>5, Zenon DEF SetFree, SetAllocated, Took
<1>7. Moved(m, took, c, s, Tail(free), m.cache[c].num_allocated + 1) /\ SameLinks(m, took, SlabsIn(m))
  <2>1. m.cache[c].num_allocated + 1 \in Int
    BY ONLY <1>3
  <2> QED  BY <1>1, <1>2, <1>4, <1>5, <2>1, MarkIs, Zenon
<1>8. took \in MemType /\ Chained(took, SlabsIn(m), ListIn(m))
  <2>1. took \in MemType
    BY <1>7, Zenon DEF Moved
  <2> QED  BY <1>1, <1>7, <2>1, LinksMatter, Zenon DEF WellListed
<1>9. /\ took.slab[s].num_free = Len(free) - 1 /\ took.slab[s].objs = m.slab[s].objs
      /\ took.slab[s].cache = c
  BY <1>4, <1>7, Zenon DEF Moved
<1>10. ListIn(m)[s] = IF Len(free) = m.slab[s].objs THEN "empty" ELSE "partial"
  BY <1>4, Zenon DEF ListIn, ListOf
<1>11. PICK used : used = IF took.slab[s].num_free = took.slab[s].objs - 1
                          THEN MoveSlab(took, c, "empty", "partial", s) ELSE took
  BY Zenon
<1>12. n = IF took.slab[s].num_free = 0 THEN MoveSlab(used, c, "partial", "full", s) ELSE used
  BY ONLY <1>6, <1>11, n = TakeObject(m, c, s), Zenon DEF TakeObject
<1>13. SameButLinks(took, used) /\ Chained(used, SlabsIn(m), [ListIn(m) EXCEPT ![s] = "partial"])
  <2>1. Len(free) = m.slab[s].objs <=> took.slab[s].num_free = took.slab[s].objs - 1
    BY ONLY <1>3, <1>4, <1>9
  <2>2. "empty" \in Lists /\ "partial" \in Lists
    BY Zenon DEF Lists
  <2>3. CASE Len(free) = m.slab[s].objs
    BY <1>1, <1>8, <1>9, <1>10, <1>11, <2>1, <2>2, <2>3, MoveKeeps, Zenon
  <2>4. CASE Len(free) # m.slab[s].objs
    BY <1>1, <1>8, <1>10, <1>11, <2>1, <2>4, StaysListed, Zenon
  <2> QED  BY <2>3, <2>4, Zenon
<1>14. used.slab[s].cache = c /\ used \in MemType
  BY <1>9, <1>7, <1>13, Zenon DEF SameButLinks, SameSlab, SameObjects, Chained, Moved
<1>15. PICK to : to = IF took.slab[s].num_free = 0 THEN "full" ELSE "partial"
  BY Zenon
<1>16. SameButLinks(used, n) /\ Chained(n, SlabsIn(m), [ListIn(m) EXCEPT ![s] = to])
  <2> DEFINE on == [ListIn(m) EXCEPT ![s] = "partial"]
  <2>1. on[s] = "partial" /\ [on EXCEPT ![s] = "full"] = [ListIn(m) EXCEPT ![s] = "full"]
    BY <1>1, Zenon
  <2>2. "full" \in Lists /\ "partial" \in Lists
    BY Zenon DEF Lists
  <2>3. CASE took.slab[s].num_free = 0
    BY ONLY <1>1, <1>12, <1>13, <1>14, <1>15, <2>1, <2>2, <2>3, MoveKeeps
  <2>4. CASE took.slab[s].num_free # 0
    BY <1>12, <1>13, <1>15, <2>4, SameReflexive, Zenon
  <2> QED  BY <2>3, <2>4, Zenon
<1>17. Moved(m, n, c, s, Tail(free), m.cache[c].num_allocated + 1)
  <2>1. n \in MemType
    BY <1>16, Zenon DEF Chained
  <2> QED  BY <1>7, <1>13, <1>14, <1>16, <2>1, MovedOn, Zenon
<1>18. to = ListOf(n.slab[s]) /\ to \in Lists
  <2>1. n.slab[s].num_free = Len(free) - 1 /\ n.slab[s].objs = m.slab[s].objs
    BY ONLY <1>4, <1>17, Zenon DEF Moved
  <2>2. n.slab[s].num_free # n.slab[s].objs
    BY ONLY <1>3, <1>4, <2>1, Len(free) <= m.slab[s].objs
  <2>3. n.slab[s].num_free = took.slab[s].num_free
    BY ONLY <1>9, <2>1, Zenon
  <2>4. ListOf(n.slab[s]) = IF n.slab[s].num_free = 0 THEN "full" ELSE "partial"
    BY ONLY <2>2, Zenon DEF ListOf
  <2>5. to \in Lists
    BY ONLY <1>15, Zenon DEF Lists
  <2> QED  BY ONLY <1>15, <2>3, <2>4, <2>5, Zenon
<1>19. WellListed(n)
  BY <1>16, <1>17, <1>18, Relisted, Zenon
<1> QED  BY ONLY <1>17, <1>19, Zenon DEF Handed

\* kmem_cache_free puts an object first on the free list of its slab and moves the
\* slab to the list it then belongs to.
LEMMA PutIs ==
  ASSUME NEW m, WellListed(m), NEW c \in Blocks, NEW s \in Blocks, m.slab[s] # NULL,
         c = m.slab[s].cache, NEW free, free = m.slab[s].free_list, NEW i \in Nat,
         m.slab[s].num_free = Len(free), Len(free) < m.slab[s].objs,
         NEW n, n = PutObject(m, c, s, i)
  PROVE  WellListed(n) /\ Returned(m, n, c, s, free, i)
<1>1. /\ m \in MemType /\ s \in SlabsIn(m) /\ SlabsIn(m) \in SUBSET Blocks
      /\ ListIn(m) \in [Blocks -> Lists]
  BY Zenon DEF WellListed, Chained, SlabsIn
<1>2. /\ m.slab[s] \in SlabType /\ m.cache[c] # NULL /\ m.cache[c] \in CacheType
      /\ m = [cache |-> m.cache, slab |-> m.slab]
      /\ m.cache \in [Blocks -> CacheType \cup {NULL}] /\ m.slab \in [Blocks -> SlabType \cup {NULL}]
  BY <1>1, CacheOfSlab, Zenon DEF WellListed, MemType
<1>3. /\ free \in Seq(Nat) /\ m.cache[c].num_allocated \in Int /\ m.slab[s].objs \in Nat
  BY <1>2, Zenon DEF SlabType, CacheType
<1>4. /\ <<i>> \o free \in Seq(Nat) /\ Len(<<i>> \o free) = Len(free) + 1 /\ Len(free) \in Nat
  BY ONLY <1>3, SeqJoin, SeqLen
<1>5. PICK put : put = [cache |-> [m.cache EXCEPT ![c] = SetAllocated(m.cache[c], m.cache[c].num_allocated - 1)],
                        slab |-> [m.slab EXCEPT ![s] = SetFree(m.slab[s], <<i>> \o free, Len(<<i>> \o free))]]
  BY Zenon
<1>6. Gave(m, c, s, i) = put
  BY <1>2, <1>4, <1>5, Zenon DEF SetFree, SetAllocated, Gave
<1>7. Moved(m, put, c, s, <<i>> \o free, m.cache[c].num_allocated - 1) /\ SameLinks(m, put, SlabsIn(m))
  <2>1. m.cache[c].num_allocated - 1 \in Int
    BY ONLY <1>3
  <2> QED  BY <1>1, <1>2, <1>4, <1>5, <2>1, MarkIs, Zenon
<1>8. put \in MemType /\ Chained(put, SlabsIn(m), ListIn(m))
  <2>1. put \in MemType
    BY <1>7, Zenon DEF Moved
  <2> QED  BY <1>1, <1>7, <2>1, LinksMatter, Zenon DEF WellListed
<1>9. /\ put.slab[s].num_free = Len(free) + 1 /\ put.slab[s].objs = m.slab[s].objs
      /\ put.slab[s].cache = c
  BY <1>4, <1>7, Zenon DEF Moved
<1>10. ListIn(m)[s] = IF Len(free) = 0 THEN "full" ELSE "partial"
  BY <1>3, <1>4 DEF ListIn, ListOf
<1>11. PICK part : part = IF put.slab[s].num_free = 1
                          THEN MoveSlab(put, c, "full", "partial", s) ELSE put
  BY Zenon
<1>12. n = IF put.slab[s].num_free = part.slab[s].objs
           THEN MoveSlab(part, c, "partial", "empty", s) ELSE part
  BY ONLY <1>6, <1>11, n = PutObject(m, c, s, i), Zenon DEF PutObject
<1>13. SameButLinks(put, part) /\ Chained(part, SlabsIn(m), [ListIn(m) EXCEPT ![s] = "partial"])
  <2>1. Len(free) = 0 <=> put.slab[s].num_free = 1
    BY ONLY <1>4, <1>9
  <2>2. "full" \in Lists /\ "partial" \in Lists
    BY Zenon DEF Lists
  <2>3. CASE Len(free) = 0
    BY <1>1, <1>8, <1>9, <1>10, <1>11, <2>1, <2>2, <2>3, MoveKeeps, Zenon
  <2>4. CASE Len(free) # 0
    BY <1>1, <1>8, <1>10, <1>11, <2>1, <2>4, StaysListed, Zenon
  <2> QED  BY <2>3, <2>4, Zenon
<1>14. part.slab[s].cache = c /\ part \in MemType /\ part.slab[s].objs = m.slab[s].objs
  BY <1>9, <1>7, <1>13, Zenon DEF SameButLinks, SameSlab, SameObjects, Chained, Moved
<1>15. PICK to : to = IF put.slab[s].num_free = m.slab[s].objs THEN "empty" ELSE "partial"
  BY Zenon
<1>16. SameButLinks(part, n) /\ Chained(n, SlabsIn(m), [ListIn(m) EXCEPT ![s] = to])
  <2> DEFINE on == [ListIn(m) EXCEPT ![s] = "partial"]
  <2>1. on[s] = "partial" /\ [on EXCEPT ![s] = "empty"] = [ListIn(m) EXCEPT ![s] = "empty"]
    BY <1>1, Zenon
  <2>2. "empty" \in Lists /\ "partial" \in Lists
    BY Zenon DEF Lists
  <2>3. CASE put.slab[s].num_free = m.slab[s].objs
    BY ONLY <1>1, <1>12, <1>13, <1>14, <1>15, <2>1, <2>2, <2>3, MoveKeeps
  <2>4. CASE put.slab[s].num_free # m.slab[s].objs
    BY <1>12, <1>13, <1>14, <1>15, <2>4, SameReflexive, Zenon
  <2> QED  BY <2>3, <2>4, Zenon
<1>17. Moved(m, n, c, s, <<i>> \o free, m.cache[c].num_allocated - 1)
  <2>1. n \in MemType
    BY <1>16, Zenon DEF Chained
  <2> QED  BY <1>7, <1>13, <1>14, <1>16, <2>1, MovedOn, Zenon
<1>18. to = ListOf(n.slab[s]) /\ to \in Lists
  <2>1. n.slab[s].num_free = Len(free) + 1 /\ n.slab[s].objs = m.slab[s].objs
    BY <1>4, <1>17, Zenon DEF Moved
  <2> QED  BY ONLY <1>4, <1>9, <1>15, <2>1 DEF ListOf, Lists
<1>19. WellListed(n)
  BY <1>16, <1>17, <1>18, Relisted, Zenon
<1> QED  BY ONLY <1>17, <1>19, Zenon DEF Returned

-----------------------------------------------------------------------------
(* Slabs and caches come and go.                                           *)

\* Changes of cache headers that keep the lists.
LEMMA OnlyCaches ==
  ASSUME NEW m, WellListed(m), NEW n \in MemType, n.slab = m.slab,
         \A b \in Blocks, l \in Lists : n.cache[b] # NULL =>
           n.cache[b][l] = IF m.cache[b] = NULL THEN NULL ELSE m.cache[b][l],
         \A s \in SlabsIn(m) : n.cache[m.slab[s].cache] # NULL
  PROVE  WellListed(n)
<1>1. SlabsIn(n) = SlabsIn(m) /\ ListIn(n) = ListIn(m)
  BY DEF SlabsIn, ListIn
<1>2. SameLinks(m, n, SlabsIn(m))
  BY Zenon DEF SameLinks, SlabsIn
<1>3. Chained(m, SlabsIn(m), ListIn(m)) /\ ListIn(m) \in [Blocks -> Lists]
  BY Zenon DEF WellListed, Chained
<1> QED  BY <1>1, <1>2, <1>3, LinksMatter, Zenon DEF WellListed

\* The memories differ in a new slab b of cache c, and in links.
Grown(m, n, c, b) ==
  /\ n \in MemType
  /\ \A x \in Blocks \ {b} : SameSlab(m, n, x)
  /\ \A x \in Blocks \ {c} : SameCache(m, n, x)
  /\ n.slab[b] # NULL /\ n.slab[b].cache = c /\ n.slab[b].objs = m.cache[c].objs
  /\ n.slab[b].num_free = m.cache[c].objs /\ n.slab[b].free_list = [i \in 1..m.cache[c].objs |-> i]
  /\ n.cache[c] # NULL /\ n.cache[c].valid = m.cache[c].valid /\ n.cache[c].objs = m.cache[c].objs
  /\ n.cache[c].num_slabs = m.cache[c].num_slabs + 1
  /\ n.cache[c].num_allocated = m.cache[c].num_allocated

SetGrown(r) == [r EXCEPT !.num_slabs = @ + 1, !.grown = TRUE]

\* kmem_cache_grow counts the slab.
LEMMA GrownIs ==
  ASSUME NEW r \in CacheType
  PROVE  /\ SetGrown(r) \in CacheType /\ SetGrown(r) # NULL
         /\ SetGrown(r).num_slabs = r.num_slabs + 1 /\ SetGrown(r).num_allocated = r.num_allocated
         /\ SetGrown(r).valid = r.valid /\ SetGrown(r).objs = r.objs
         /\ \A l \in Lists : SetGrown(r)[l] = r[l]
<1>1. SetGrown(r) \in CacheType
  <2>1. r.num_slabs + 1 \in Int
    BY DEF CacheType
  <2> QED  BY <2>1, Zenon DEF CacheType, SetGrown
<1>2. SetGrown(r) # NULL
  BY <1>1, SlabAssumption, Zenon
<1> QED  BY <1>1, <1>2, Zenon DEF CacheType, SetGrown, Lists

\* A new slab has its objects free, and is on no list.
LEMMA NewSlabIs ==
  ASSUME NEW c \in Blocks, NEW k \in Nat, NEW t, t = kmem_slab_create(c, k)
  PROVE  /\ t \in SlabType /\ t # NULL /\ t.cache = c /\ t.objs = k /\ t.num_free = k
         /\ t.free_list = [i \in 1..k |-> i] /\ ListOf(t) = "empty"
<1>1. [i \in 1..k |-> i] \in Seq(Nat)
  OBVIOUS
<1>2. t \in SlabType
  BY <1>1 DEF SlabType, kmem_slab_create
<1>3. t # NULL
  BY <1>2, SlabAssumption, Zenon
<1> QED  BY <1>2, <1>3, Zenon DEF kmem_slab_create, ListOf

\* kmem_cache_grow makes a block a slab on the list of empty ones.
LEMMA GrowIs ==
  ASSUME NEW m, WellListed(m), NEW c \in Blocks, m.cache[c] # NULL,
         NEW b \in Blocks, m.slab[b] = NULL, NEW n, n = kmem_cache_grow(m, c, b)
  PROVE  WellListed(n) /\ Grown(m, n, c, b)
<1>1. /\ m \in MemType /\ m.cache[c] \in CacheType /\ b \notin SlabsIn(m) /\ SlabsIn(m) \in SUBSET Blocks
      /\ m.cache \in [Blocks -> CacheType \cup {NULL}] /\ m.slab \in [Blocks -> SlabType \cup {NULL}]
      /\ ListIn(m) \in [Blocks -> Lists]
  BY DEF WellListed, Chained, SlabsIn, MemType
<1>2. PICK r : r = SetGrown(m.cache[c])
  BY Zenon
<1>3. PICK t : t = kmem_slab_create(c, m.cache[c].objs)
  BY Zenon
<1>4. /\ r \in CacheType /\ r # NULL
      /\ r.num_slabs = m.cache[c].num_slabs + 1 /\ r.num_allocated = m.cache[c].num_allocated
      /\ r.valid = m.cache[c].valid /\ r.objs = m.cache[c].objs
      /\ \A l \in Lists : r[l] = m.cache[c][l]
  BY <1>1, <1>2, GrownIs, Zenon
<1>5. /\ t \in SlabType /\ t # NULL /\ t.cache = c /\ t.objs = m.cache[c].objs /\ t.num_free = m.cache[c].objs
      /\ t.free_list = [i \in 1..m.cache[c].objs |-> i] /\ ListOf(t) = "empty"
  <2>1. m.cache[c].objs \in Nat
    BY <1>1, Zenon DEF CacheType
  <2> QED  BY ONLY <1>3, <2>1, NewSlabIs
<1>6. PICK x : x = [cache |-> [m.cache EXCEPT ![c] = r], slab |-> [m.slab EXCEPT ![b] = t]]
  BY Zenon
<1>7. n = add_slab_to_list(x, c, "empty", b)
  BY <1>1, <1>2, <1>3, <1>6, Zenon DEF kmem_cache_grow, SetGrown
<1>8. /\ x.cache \in [Blocks -> CacheType \cup {NULL}] /\ x.slab \in [Blocks -> SlabType \cup {NULL}]
      /\ x \in MemType
      /\ x.cache[c] = r /\ \A d \in Blocks \ {c} : x.cache[d] = m.cache[d]
      /\ x.slab[b] = t /\ \A s \in Blocks \ {b} : x.slab[s] = m.slab[s]
  BY <1>1, <1>4, <1>5, <1>6, Zenon DEF MemType
<1>9. Chained(x, SlabsIn(m), ListIn(m))
  <2>1. \A s \in SlabsIn(m) : s # b /\ x.slab[s] = m.slab[s] /\ m.slab[s] # NULL
    BY <1>1, <1>8, Zenon DEF SlabsIn
  <2>2. \A s \in SlabsIn(m) : m.slab[s].cache \in Blocks /\ m.cache[m.slab[s].cache] # NULL
    BY CacheOfSlab, Zenon DEF WellListed
  <2>3. SameLinks(m, x, SlabsIn(m))
    BY <1>4, <1>8, <2>1, <2>2 DEF SameLinks
  <2> QED  BY <1>1, <1>8, <2>3, LinksMatter, Zenon DEF WellListed
<1>10. SameButLinks(x, n) /\ Chained(n, SlabsIn(m) \cup {b}, [ListIn(m) EXCEPT ![b] = "empty"])
  <2>1. "empty" \in Lists
    BY Zenon DEF Lists
  <2>2. x.slab[b] # NULL /\ x.slab[b].cache = c /\ x.cache[c] # NULL
    BY <1>4, <1>5, <1>8, Zenon
  <2> QED  BY <1>1, <1>7, <1>9, <2>1, <2>2, AddKeeps, Zenon
<1>11. n \in MemType /\ \A d \in Blocks : SameSlab(x, n, d) /\ SameCache(x, n, d)
  BY <1>10, Zenon DEF Chained, SameButLinks
<1>12. Grown(m, n, c, b)
  <2>1. \A d \in Blocks \ {b} : SameSlab(m, n, d)
    BY ONLY <1>8, <1>11 DEF SameSlab, SameObjects
  <2>2. \A d \in Blocks \ {c} : SameCache(m, n, d)
    BY ONLY <1>8, <1>11 DEF SameCache, SameCounts
  <2>3. SameSlab(x, n, b) /\ SameCache(x, n, c)
    BY <1>11, Zenon
  <2>4. /\ n.slab[b] # NULL /\ n.slab[b].cache = c /\ n.slab[b].objs = m.cache[c].objs
        /\ n.slab[b].num_free = m.cache[c].objs /\ n.slab[b].free_list = [i \in 1..m.cache[c].objs |-> i]
    BY <1>5, <1>8, <2>3, Zenon DEF SameSlab, SameObjects
  <2>5. /\ n.cache[c] # NULL /\ n.cache[c].valid = m.cache[c].valid /\ n.cache[c].objs = m.cache[c].objs
        /\ n.cache[c].num_slabs = m.cache[c].num_slabs + 1
        /\ n.cache[c].num_allocated = m.cache[c].num_allocated
    BY <1>4, <1>8, <2>3, Zenon DEF SameCache, SameCounts
  <2> QED  BY <1>11, <2>1, <2>2, <2>4, <2>5, Zenon DEF Grown
<1>13. WellListed(n)
  <2>1. SlabsIn(n) = SlabsIn(m) \cup {b}
    BY <1>12, Zenon DEF Grown, SlabsIn, SameSlab
  <2>2. ASSUME NEW d \in Blocks
        PROVE  ListIn(n)[d] = [ListIn(m) EXCEPT ![b] = "empty"][d]
    <3>1. CASE d = b
      BY <1>12, <3>1, Zenon DEF ListIn, Grown, ListOf
    <3>2. CASE d # b
      BY ONLY <1>12, <3>2 DEF ListIn, Grown, SameSlab, SameObjects, ListOf
    <3> QED  BY <3>1, <3>2, Zenon
  <2>3. ListIn(n) = [ListIn(m) EXCEPT ![b] = "empty"]
    BY <2>2, Zenon DEF ListIn
  <2> QED  BY <1>10, <2>1, <2>3, Zenon DEF WellListed
<1> QED  BY <1>12, <1>13, Zenon

\* The first slab of a list is one of the cache, and belongs on it.
LEMMA HeadIs ==
  ASSUME NEW m, WellListed(m), NEW c \in Blocks, m.cache[c] # NULL, NEW l \in Lists,
         NEW s, s = m.cache[c][l], s # NULL
  PROVE  /\ s \in SlabsIn(m) /\ s \in Blocks /\ m.slab[s] # NULL
         /\ m.slab[s].cache = c /\ ListOf(m.slab[s]) = l /\ ListIn(m)[s] = l
<1>1. PICK pos \in [Blocks -> Nat] : ChainedAt(m, SlabsIn(m), ListIn(m), pos)
  BY Zenon DEF WellListed, Chained
<1>2. <<c, l>> \in ListsOf(m) /\ HeadOf(m)[<<c, l>>] = s
  BY Zenon DEF ListsOf, HeadOf
<1>3. s \in SlabsIn(m) /\ OwnerOf(m, ListIn(m))[s] = <<c, l>>
  BY <1>1, <1>2 DEF ChainedAt, Linked
<1>4. s \in Blocks /\ m.slab[s] # NULL
  BY <1>3, Zenon DEF SlabsIn
<1>5. m.slab[s].cache = c /\ ListIn(m)[s] = l
  BY <1>3, <1>4, Zenon DEF OwnerOf
<1> QED  BY <1>3, <1>4, <1>5, Zenon DEF ListIn

\* A cache whose lists are empty has no slabs.
LEMMA NoHeads ==
  ASSUME Counting, NEW m, WellListed(m), NEW c \in Blocks, \A l \in Lists : m.cache[c][l] = NULL
  PROVE  \A s \in SlabsIn(m) : m.slab[s].cache # c
<1>1. PICK pos \in [Blocks -> Nat] : ChainedAt(m, SlabsIn(m), ListIn(m), pos)
  BY Zenon DEF WellListed, Chained
<1> DEFINE own == OwnerOf(m, ListIn(m))
           T == {s \in SlabsIn(m) : m.slab[s].cache = c}
           P == {pos[s] : s \in T}
<1>2. /\ \A s \in SlabsIn(m) : s \in Blocks /\ ListIn(m)[s] \in Lists /\ own[s] = <<m.slab[s].cache, ListIn(m)[s]>>
      /\ \A s \in SlabsIn(m) : own[s] \in ListsOf(m) /\ own[s] \in Blocks \X Lists
  <2>1. \A s \in SlabsIn(m) : s \in Blocks /\ ListIn(m)[s] \in Lists /\ own[s] = <<m.slab[s].cache, ListIn(m)[s]>>
    BY Zenon DEF WellListed, Chained, OwnerOf, SlabsIn
  <2>2. \A s \in SlabsIn(m) : own[s] \in ListsOf(m)
    BY <1>1, Zenon DEF ChainedAt, Linked
  <2> QED  BY <2>1, <2>2, Zenon DEF ListsOf
<1>3. \A s \in SlabsIn(m) : pos[s] \in Nat
  BY <1>2, Zenon
<1>4. ASSUME NEW s \in T
      PROVE  /\ PrevOf(m)[s] \in T /\ pos[s] = pos[PrevOf(m)[s]] + 1
  <2>1. s \in SlabsIn(m) /\ m.slab[s].cache = c
    BY Zenon
  <2>2. PrevOf(m)[s] # NULL
    <3> SUFFICES ASSUME PrevOf(m)[s] = NULL PROVE FALSE
      BY Zenon
    <3>1. HeadOf(m)[own[s]] = s
      BY <1>1, <2>1, Zenon DEF ChainedAt, Linked
    <3>2. HeadOf(m)[own[s]] = m.cache[c][ListIn(m)[s]]
      BY ONLY <1>2, <2>1 DEF HeadOf
    <3> QED  BY <1>2, <2>1, <3>1, <3>2, SlabAssumption, Zenon
  <2>3. /\ PrevOf(m)[s] \in SlabsIn(m) /\ own[PrevOf(m)[s]] = own[s]
        /\ pos[s] = pos[PrevOf(m)[s]] + 1
    BY <1>1, <2>1, <2>2, Zenon DEF ChainedAt, Linked
  <2>4. m.slab[PrevOf(m)[s]].cache = c
    BY ONLY <1>2, <2>1, <2>3
  <2> QED  BY <2>3, <2>4, Zenon
<1> HIDE DEF T
<1>5. P \in SUBSET Nat
  BY <1>3, Zenon DEF T
<1>6. ASSUME P # {} PROVE FALSE
  <2>1. PICK x \in P : \A y \in P : ~(y < x)
    BY <1>5, <1>6, Zenon DEF Counting, Least
  <2>2. PICK s \in T : x = pos[s]
    BY <2>1, Zenon
  <2>3. pos[PrevOf(m)[s]] \in P /\ x = pos[PrevOf(m)[s]] + 1
    BY <1>4, <2>2, Zenon
  <2> HIDE DEF P
  <2>4. pos[PrevOf(m)[s]] \in Nat /\ ~(pos[PrevOf(m)[s]] < x)
    BY <1>5, <2>1, <2>3, Zenon
  <2> QED  BY ONLY <2>3, <2>4
<1> QED  BY <1>6, Zenon DEF T

\* The memories differ in slab s of cache c, which is gone, and in links.
Shrunk(m, n, c, s, slabs) ==
  /\ n \in MemType
  /\ \A x \in Blocks \ {s} : SameSlab(m, n, x)
  /\ \A x \in Blocks \ {c} : SameCache(m, n, x)
  /\ n.slab[s] = NULL
  /\ n.cache[c] # NULL /\ n.cache[c].valid = m.cache[c].valid /\ n.cache[c].objs = m.cache[c].objs
  /\ n.cache[c].num_slabs = slabs /\ n.cache[c].num_allocated = m.cache[c].num_allocated

SetSlabs(r, k) == [r EXCEPT !.num_slabs = k]

\* Writing the count of slabs of a cache header.
LEMMA SlabsIs ==
  ASSUME NEW r \in CacheType, NEW k \in Int
  PROVE  /\ SetSlabs(r, k) \in CacheType /\ SetSlabs(r, k) # NULL
         /\ SetSlabs(r, k).num_slabs = k /\ SetSlabs(r, k).num_allocated = r.num_allocated
         /\ SetSlabs(r, k).valid = r.valid /\ SetSlabs(r, k).objs = r.objs
         /\ \A l \in Lists : SetSlabs(r, k)[l] = r[l]
<1>1. SetSlabs(r, k) \in CacheType
  BY Zenon DEF CacheType, SetSlabs
<1>2. SetSlabs(r, k) # NULL
  BY <1>1, SlabAssumption, Zenon
<1> QED  BY <1>1, <1>2, Zenon DEF CacheType, SetSlabs, Lists

Shed(x, c, s, k) ==
  [cache |-> [x.cache EXCEPT ![c].num_slabs = @ - k], slab |-> [x.slab EXCEPT ![s] = NULL]]

\* Giving the first slab of a list back.
LEMMA ShedIs ==
  ASSUME NEW m, WellListed(m), NEW c \in Blocks, m.cache[c] # NULL, NEW l \in Lists,
         NEW s, s = m.cache[c][l], s # NULL, NEW k \in Int,
         NEW x, x = remove_slab_from_list(m, c, l, s),
         NEW n, n = Shed(x, c, s, k)
  PROVE  /\ WellListed(n) /\ Shrunk(m, n, c, s, m.cache[c].num_slabs - k)
         /\ s \in Blocks /\ m.slab[s] # NULL /\ m.slab[s].cache = c /\ ListOf(m.slab[s]) = l
<1>1. /\ s \in SlabsIn(m) /\ s \in Blocks /\ m.slab[s] # NULL
      /\ m.slab[s].cache = c /\ ListOf(m.slab[s]) = l /\ ListIn(m)[s] = l
  BY HeadIs
<1>2. SameButLinks(m, x) /\ Chained(x, SlabsIn(m) \ {s}, ListIn(m))
  BY <1>1, RemoveKeeps, Zenon DEF WellListed
<1>3. \A d \in Blocks : SameSlab(m, x, d) /\ SameCache(m, x, d)
  BY <1>2, Zenon DEF SameButLinks
<1>4. /\ x \in MemType /\ x.cache[c] \in CacheType
      /\ x.cache \in [Blocks -> CacheType \cup {NULL}] /\ x.slab \in [Blocks -> SlabType \cup {NULL}]
  BY <1>2, <1>3, Zenon DEF Chained, MemType, SameCache
<1>5. PICK r : r = SetSlabs(x.cache[c], x.cache[c].num_slabs - k)
  BY Zenon
<1>6. /\ r \in CacheType /\ r # NULL /\ r.num_slabs = m.cache[c].num_slabs - k
      /\ r.num_allocated = m.cache[c].num_allocated
      /\ r.valid = m.cache[c].valid /\ r.objs = m.cache[c].objs
      /\ \A j \in Lists : r[j] = x.cache[c][j]
  <2>1. x.cache[c].num_slabs - k \in Int
    BY ONLY <1>4 DEF CacheType
  <2>2. SameCounts(m.cache[c], x.cache[c])
    BY <1>3, Zenon DEF SameCache
  <2>3. /\ r \in CacheType /\ r # NULL /\ r.num_slabs = x.cache[c].num_slabs - k
        /\ r.num_allocated = x.cache[c].num_allocated
        /\ r.valid = x.cache[c].valid /\ r.objs = x.cache[c].objs
        /\ \A j \in Lists : r[j] = x.cache[c][j]
    BY ONLY <1>4, <1>5, <2>1, SlabsIs, Zenon
  <2> QED  BY <2>2, <2>3, Zenon DEF SameCounts
<1>7. /\ n = [cache |-> n.cache, slab |-> n.slab]
      /\ n.cache = [x.cache EXCEPT ![c] = r] /\ n.slab = [x.slab EXCEPT ![s] = NULL]
  BY ONLY <1>4, <1>5, n = Shed(x, c, s, k), Zenon DEF SetSlabs, Shed
<1>8. /\ n \in MemType
      /\ n.cache[c] = r /\ \A d \in Blocks \ {c} : n.cache[d] = x.cache[d]
      /\ n.slab[s] = NULL /\ \A d \in Blocks \ {s} : n.slab[d] = x.slab[d]
  <2>1. n.cache \in [Blocks -> CacheType \cup {NULL}] /\ n.slab \in [Blocks -> SlabType \cup {NULL}]
    <3>1. n.cache \in [Blocks -> CacheType \cup {NULL}]
      BY ONLY <1>4, <1>6, <1>7
    <3>2. n.slab \in [Blocks -> SlabType \cup {NULL}]
      BY ONLY <1>4, <1>7, Zenon
    <3> QED  BY <3>1, <3>2, Zenon
  <2>2. n \in MemType
    BY ONLY <1>7, <2>1, Zenon DEF MemType
  <2> QED  BY ONLY <1>1, <1>4, <1>7, <2>2, Zenon
<1>9. Shrunk(m, n, c, s, m.cache[c].num_slabs - k)
  <2>1. ASSUME NEW d \in Blocks \ {s} PROVE SameSlab(m, n, d)
    <3>1. SameSlab(m, x, d) /\ n.slab[d] = x.slab[d]
      BY ONLY <1>3, <1>8, d \in Blocks \ {s}, Zenon
    <3> QED  BY ONLY <3>1, Zenon DEF SameSlab
  <2>2. ASSUME NEW d \in Blocks \ {c} PROVE SameCache(m, n, d)
    <3>1. SameCache(m, x, d) /\ n.cache[d] = x.cache[d]
      BY ONLY <1>3, <1>8, d \in Blocks \ {c}, Zenon
    <3> QED  BY ONLY <3>1, Zenon DEF SameCache
  <2> QED  BY <1>6, <1>8, <2>1, <2>2, Zenon DEF Shrunk
<1>10. SlabsIn(n) = SlabsIn(m) \ {s}
  <2>1. n.slab[s] = NULL /\ \A d \in Blocks \ {s} : n.slab[d] = NULL <=> m.slab[d] = NULL
    BY <1>9, Zenon DEF Shrunk, SameSlab
  <2> QED  BY ONLY <2>1, Zenon DEF SlabsIn
<1>11. \A d \in SlabsIn(n) : ListIn(n)[d] = ListIn(m)[d]
  <2> SUFFICES ASSUME NEW d \in SlabsIn(n)
               PROVE  ListIn(n)[d] = ListIn(m)[d]
    BY Zenon
  <2>1. d \in Blocks /\ n.slab[d] # NULL /\ SameSlab(m, n, d)
    BY <1>9, <1>10, Zenon DEF Shrunk, SlabsIn
  <2> QED  BY <2>1, Zenon DEF SameSlab, SameObjects, ListIn, ListOf
<1>12. SameLinks(x, n, SlabsIn(n))
  <2>1. \A d \in SlabsIn(n) : d \in Blocks \ {s} /\ n.slab[d] = x.slab[d] /\ n.slab[d] # NULL
    BY <1>8, Zenon DEF SlabsIn
  <2>2. \A d \in SlabsIn(n) : x.slab[d].cache \in Blocks /\ x.cache[x.slab[d].cache] # NULL
    <3>1. Chained(x, SlabsIn(n), ListIn(m))
      BY <1>2, <1>10, Zenon
    <3> QED  BY ONLY <3>1, CacheOfSlab, Zenon
  <2>3. x.cache[c] # NULL
    BY <1>3, Zenon DEF SameCache
  <2>4. \A d \in Blocks : n.cache[d] = NULL <=> x.cache[d] = NULL
    BY ONLY <1>6, <1>8, <2>3
  <2>5. \A d \in Blocks, j \in Lists : n.cache[d] # NULL => n.cache[d][j] = x.cache[d][j]
    <3>1. \A j \in Lists : n.cache[c][j] = x.cache[c][j]
      BY <1>6, <1>8, Zenon
    <3>2. \A d \in Blocks \ {c} : n.cache[d] = x.cache[d]
      BY <1>8, Zenon
    <3> QED  BY ONLY <3>1, <3>2, Zenon
  <2> QED  BY ONLY <2>1, <2>2, <2>4, <2>5 DEF SameLinks
<1>13. WellListed(n)
  <2>1. ListIn(n) \in [Blocks -> Lists]
    BY Zenon DEF ListIn, ListOf, Lists
  <2>2. Chained(x, SlabsIn(n), ListIn(m)) /\ n \in MemType
    BY <1>2, <1>8, <1>10, Zenon
  <2>3. Chained(n, SlabsIn(n), ListIn(n))
    BY ONLY <1>11, <1>12, <2>1, <2>2, LinksMatter, Zenon
  <2> QED  BY <2>3, Zenon DEF WellListed
<1> QED  BY <1>1, <1>9, <1>13, Zenon

-----------------------------------------------------------------------------
(* The objects and the counters of a memory m, when clients hold the       *)
(* objects H and the caches K are being destroyed.                         *)

Of(m, c) == {s \in Blocks : m.slab[s] # NULL /\ m.slab[s].cache = c}

\* In slab s every object is free once or held once.
SlabRight(m, H, K, s) ==
  LET free == m.slab[s].free_list IN
  /\ m.slab[s].num_free = Len(free)
  /\ \A i, j \in DOMAIN free : free[i] = free[j] => i = j
  /\ \A h \in Out(H, s) : \A i \in DOMAIN free : free[i] # h.obj
  /\ \A h, g \in Out(H, s) : h.obj = g.obj => h = g
  /\ m.slab[s].cache \notin K => Len(free) + Cardinality(Out(H, s)) = m.slab[s].objs

\* The counters of cache c are exact.
CacheRight(m, H, c) ==
  /\ m.cache[c].num_allocated = Cardinality(OutOf(H, Of(m, c)))
  /\ m.cache[c].num_slabs = Cardinality(Of(m, c))

Right(m, H, K) ==
  /\ IsFiniteSet(H) /\ H \in SUBSET Object /\ \A h \in H : m.slab[h.slab] # NULL
  /\ \A s \in Blocks : m.slab[s] # NULL => SlabRight(m, H, K, s)
  /\ \A c \in Blocks : m.cache[c] # NULL /\ c \notin K => CacheRight(m, H, c)

\* A slab no step touches stays right.
LEMMA SlabStays ==
  ASSUME NEW m, NEW n, NEW H, NEW J, NEW K, NEW L, NEW t \in Blocks, m.slab[t] # NULL,
         SlabRight(m, H, K, t), SameSlab(m, n, t), Out(J, t) \subseteq Out(H, t),
         m.slab[t].cache \notin L => m.slab[t].cache \notin K /\ Out(J, t) = Out(H, t)
  PROVE  n.slab[t] # NULL /\ SlabRight(n, J, L, t)
<1>1. n.slab[t] # NULL /\ SameObjects(m.slab[t], n.slab[t])
  BY Zenon DEF SameSlab
<1> QED  BY <1>1, Zenon DEF SlabRight, SameObjects

\* So does a cache.
LEMMA CacheStays ==
  ASSUME NEW m, NEW n, NEW H, NEW J, NEW c \in Blocks, m.cache[c] # NULL,
         CacheRight(m, H, c), SameCache(m, n, c), Of(n, c) = Of(m, c),
         OutOf(J, Of(m, c)) = OutOf(H, Of(m, c))
  PROVE  CacheRight(n, J, c)
BY Zenon DEF CacheRight, SameCache, SameCounts

\* An object moved between a slab and a client: the slabs of a cache are the same.
LEMMA MovedOf ==
  ASSUME NEW m, NEW n, NEW c \in Blocks, NEW s \in Blocks, NEW free, NEW k, m.slab[s] # NULL,
         Moved(m, n, c, s, free, k), NEW d
  PROVE  Of(n, d) = Of(m, d)
<1> SUFFICES ASSUME NEW t \in Blocks
             PROVE  n.slab[t] # NULL /\ n.slab[t].cache = d <=> m.slab[t] # NULL /\ m.slab[t].cache = d
  BY Zenon DEF Of
<1>1. CASE t = s
  BY <1>1, Zenon DEF Moved
<1>2. CASE t # s
  <2>1. SameSlab(m, n, t)
    BY <1>2, Zenon DEF Moved
  <2> QED  BY <2>1, Zenon DEF SameSlab, SameObjects
<1> QED  BY <1>1, <1>2, Zenon

\* Handing out the first free object of a slab keeps objects and counters right.
LEMMA TakeRight ==
  ASSUME Counting, NEW m \in MemType, NEW n, NEW H, NEW K, Right(m, H, K),
         NEW c \in Blocks, NEW s \in Blocks, m.slab[s] # NULL, c = m.slab[s].cache, c \notin K,
         m.cache[c] # NULL, NEW free, free = m.slab[s].free_list, free # <<>>,
         Handed(m, n, c, s, free),
         NEW via \in Blocks \cup {NULL}, NEW h, h = [slab |-> s, obj |-> Head(free), via |-> via]
  PROVE  Right(n, H \cup {h}, K)
<1>0. Moved(m, n, c, s, Tail(free), m.cache[c].num_allocated + 1)
  BY ONLY Handed(m, n, c, s, free), Zenon DEF Handed
<1>1. m.slab[s] \in SlabType /\ m.cache[c] \in CacheType
  BY Zenon DEF MemType
<1>2. /\ free \in Seq(Nat) /\ Tail(free) \in Seq(Nat) /\ Head(free) \in Nat /\ Head(free) = free[1]
      /\ Len(free) \in Nat \ {0} /\ Len(Tail(free)) = Len(free) - 1
      /\ \A i \in 1..Len(Tail(free)) : Tail(free)[i] = free[i + 1]
      /\ DOMAIN free = 1..Len(free) /\ DOMAIN Tail(free) = 1..Len(Tail(free))
  BY <1>1, SeqTail, SeqLen, Zenon DEF SlabType
<1>3. /\ SlabRight(m, H, K, s) /\ CacheRight(m, H, c) /\ IsFiniteSet(H) /\ H \in SUBSET Object
      /\ \A g \in H : m.slab[g.slab] # NULL
  BY Zenon DEF Right
<1>4. h \in Object /\ h.slab = s /\ h.obj = free[1]
  BY <1>2, Zenon DEF Object
<1>once. /\ \A i, j \in DOMAIN free : free[i] = free[j] => i = j
      /\ \A g \in Out(H, s) : \A i \in DOMAIN free : free[i] # g.obj
  BY ONLY <1>3, free = m.slab[s].free_list, Zenon DEF SlabRight
<1>first. 1 \in DOMAIN free
  BY ONLY <1>2
<1>5. h \notin H
  <2>1. h \notin Out(H, s)
    BY ONLY <1>4, <1>once, <1>first, Zenon
  <2> QED  BY ONLY <1>4, <2>1, Zenon DEF Out
<1>6. IsFiniteSet(H \cup {h})
  BY <1>3, Zenon DEF Counting, CardAdd
<1>7. /\ n.slab[s] # NULL /\ n.slab[s].cache = c /\ n.slab[s].objs = m.slab[s].objs
      /\ n.slab[s].free_list = Tail(free) /\ n.slab[s].num_free = Len(Tail(free))
  BY <1>0, Zenon DEF Moved
<1>8. \A g \in H \cup {h} : n.slab[g.slab] # NULL
  <2> SUFFICES ASSUME NEW g \in H, g.slab # s PROVE n.slab[g.slab] # NULL
    BY <1>4, <1>7, Zenon
  <2>1. g.slab \in Blocks \ {s} /\ m.slab[g.slab] # NULL
    BY <1>3, Zenon DEF Object
  <2> QED  BY <1>0, <2>1, Zenon DEF Moved, SameSlab
<1>9. SlabRight(n, H \cup {h}, K, s)
  <2>1. \A i, j \in DOMAIN Tail(free) : Tail(free)[i] = Tail(free)[j] => i = j
    BY ONLY <1>2, <1>once, SMTT(20)
  <2>2. \A g \in Out(H, s) : \A i \in DOMAIN Tail(free) : Tail(free)[i] # g.obj
    BY ONLY <1>2, <1>once
  <2>3. \A i \in DOMAIN Tail(free) : Tail(free)[i] # h.obj
    BY ONLY <1>2, <1>4, <1>once, SMTT(20)
  <2>4. Out(H \cup {h}, s) = Out(H, s) \cup {h}
    BY <1>4, Zenon DEF Out
  <2>5. \A g, e \in Out(H, s) : g.obj = e.obj => g = e
    BY <1>3, Zenon DEF SlabRight
  <2>6. \A g \in Out(H, s) : g.obj # h.obj
    BY ONLY <1>4, <1>once, <1>first, Zenon
  <2>7. Cardinality(Out(H \cup {h}, s)) = Cardinality(Out(H, s)) + 1 /\ Cardinality(Out(H, s)) \in Nat
    BY <1>3, <1>4, <1>5, CountsOfSlab
  <2>8. Len(free) + Cardinality(Out(H, s)) = m.slab[s].objs
    BY <1>3, Zenon DEF SlabRight
  <2>9. Len(Tail(free)) + Cardinality(Out(H \cup {h}, s)) = n.slab[s].objs
    BY ONLY <1>2, <1>7, <2>7, <2>8
  <2>10. \A g, e \in Out(H, s) \cup {h} : g.obj = e.obj => g = e
    BY ONLY <2>5, <2>6, Zenon
  <2> QED  BY ONLY <1>7, <2>1, <2>2, <2>3, <2>4, <2>9, <2>10, Zenon DEF SlabRight
<1>10. ASSUME NEW t \in Blocks, n.slab[t] # NULL PROVE SlabRight(n, H \cup {h}, K, t)
  <2>1. CASE t = s
    BY <1>9, <2>1, Zenon
  <2>2. CASE t # s
    <3>1. SameSlab(m, n, t)
      BY <1>0, <2>2, Zenon DEF Moved
    <3>2. m.slab[t] # NULL
      BY <1>10, <3>1, Zenon DEF SameSlab
    <3>3. SlabRight(m, H, K, t)
      BY <3>2, Zenon DEF Right
    <3>4. Out(H \cup {h}, t) = Out(H, t)
      BY <1>4, <2>2, Zenon DEF Out
    <3> QED  BY <3>1, <3>2, <3>3, <3>4, SlabStays, Zenon
  <2> QED  BY <2>1, <2>2, Zenon
<1>11. ASSUME NEW d \in Blocks, n.cache[d] # NULL, d \notin K PROVE CacheRight(n, H \cup {h}, d)
  <2>1. Of(n, d) = Of(m, d)
    BY <1>0, MovedOf, Zenon
  <2>2. CASE d = c
    <3>1. s \in Of(m, c)
      BY Zenon DEF Of
    <3>2. Cardinality(OutOf(H \cup {h}, Of(m, c))) = Cardinality(OutOf(H, Of(m, c))) + 1
      BY <1>3, <1>4, <1>5, <3>1, Counts
    <3>3. n.cache[c].num_slabs = m.cache[c].num_slabs /\ n.cache[c].num_allocated = m.cache[c].num_allocated + 1
      BY <1>0, Zenon DEF Moved
    <3> QED  BY <1>3, <2>1, <2>2, <3>2, <3>3, Zenon DEF CacheRight
  <2>3. CASE d # c
    <3>1. SameCache(m, n, d)
      BY <1>0, <2>3, Zenon DEF Moved
    <3>2. m.cache[d] # NULL
      BY <1>11, <3>1, Zenon DEF SameCache
    <3>3. CacheRight(m, H, d)
      BY <1>11, <3>2, Zenon DEF Right
    <3>4. s \notin Of(m, d)
      BY <2>3, Zenon DEF Of
    <3>5. OutOf(H \cup {h}, Of(m, d)) = OutOf(H, Of(m, d))
      BY <1>4, <3>4, Zenon DEF OutOf
    <3> QED  BY <2>1, <3>1, <3>2, <3>3, <3>5, CacheStays, Zenon
  <2> QED  BY <2>2, <2>3, Zenon
<1>12. H \cup {h} \in SUBSET Object
  BY <1>3, <1>4, Zenon
<1> QED  BY <1>6, <1>8, <1>10, <1>11, <1>12, Zenon DEF Right

\* Taking an object back keeps objects and counters right.
LEMMA PutRight ==
  ASSUME Counting, NEW m \in MemType, NEW n, NEW H, NEW K, Right(m, H, K), NEW h \in H,
         NEW c \in Blocks, NEW s \in Blocks, s = h.slab, c = m.slab[s].cache, c \notin K,
         m.cache[c] # NULL, NEW free, free = m.slab[s].free_list,
         Returned(m, n, c, s, free, h.obj)
  PROVE  Right(n, H \ {h}, K)
<1>0. Moved(m, n, c, s, <<h.obj>> \o free, m.cache[c].num_allocated - 1)
  BY ONLY Returned(m, n, c, s, free, h.obj), Zenon DEF Returned
<1>1. m.slab[s] # NULL /\ m.slab[s] \in SlabType /\ m.cache[c] \in CacheType
  BY Zenon DEF MemType, Right
<1>2. SlabRight(m, H, K, s) /\ CacheRight(m, H, c) /\ IsFiniteSet(H) /\ H \in SUBSET Object /\ h \in Object
  BY <1>1, Zenon DEF Right
<1>3. free \in Seq(Nat) /\ h.obj \in Nat /\ Len(free) \in Nat /\ m.slab[s].objs \in Nat
  BY <1>1, <1>2, SeqLen, Zenon DEF SlabType, Object
<1>4. PICK more : more = <<h.obj>> \o free
  BY Zenon
<1>5. /\ more \in Seq(Nat) /\ Len(more) = Len(free) + 1 /\ more[1] = h.obj
      /\ \A i \in 1..Len(free) : more[i + 1] = free[i]
      /\ DOMAIN free = 1..Len(free) /\ DOMAIN more = 1..Len(more)
  <2>1. <<h.obj>> \in Seq(Nat) /\ Len(<<h.obj>>) = 1 /\ <<h.obj>>[1] = h.obj
    BY ONLY <1>3
  <2>2. more \in Seq(Nat) /\ Len(more) = 1 + Len(free)
    BY ONLY <1>3, <1>4, <2>1, SeqJoin, Zenon
  <2>3. \A i \in 1..1 + Len(free) : more[i] = IF i <= 1 THEN <<h.obj>>[i] ELSE free[i - 1]
    BY ONLY <1>3, <1>4, <2>1, SeqJoin, Zenon
  <2>4. DOMAIN free = 1..Len(free) /\ DOMAIN more = 1..Len(more)
    BY <1>3, <2>2, SeqLen, Zenon
  <2>5. more[1] = h.obj
    BY ONLY <1>3, <2>1, <2>3
  <2>6. \A i \in 1..Len(free) : more[i + 1] = free[i]
    BY ONLY <1>3, <2>3
  <2>7. Len(more) = Len(free) + 1
    BY ONLY <1>3, <2>2
  <2> QED  BY <2>2, <2>4, <2>5, <2>6, <2>7, Zenon
<1>6. /\ \A i, j \in DOMAIN free : free[i] = free[j] => i = j
      /\ \A g \in Out(H, s) : \A i \in DOMAIN free : free[i] # g.obj
      /\ \A g, e \in Out(H, s) : g.obj = e.obj => g = e
      /\ Len(free) + Cardinality(Out(H, s)) = m.slab[s].objs
  BY ONLY <1>2, free = m.slab[s].free_list, c = m.slab[s].cache, c \notin K, Zenon DEF SlabRight
<1>7. h \in Out(H, s) /\ Out(H \ {h}, s) = Out(H, s) \ {h}
  BY Zenon DEF Out
<1>8. /\ n.slab[s] # NULL /\ n.slab[s].cache = c /\ n.slab[s].objs = m.slab[s].objs
      /\ n.slab[s].free_list = more /\ n.slab[s].num_free = Len(more)
  BY <1>0, <1>4, Zenon DEF Moved
<1>9. \A i, j \in DOMAIN more : more[i] = more[j] => i = j
  <2> SUFFICES ASSUME NEW i \in DOMAIN more, NEW j \in DOMAIN more, more[i] = more[j], i # j
               PROVE  FALSE
    BY Zenon
  <2>1. ASSUME NEW k \in DOMAIN more, k # 1 PROVE k - 1 \in DOMAIN free /\ more[k] = free[k - 1]
    <3>1. k \in 1..Len(free) + 1
      BY ONLY k \in DOMAIN more, <1>5, Zenon
    <3>2. k - 1 \in 1..Len(free) /\ (k - 1) + 1 = k
      BY ONLY <1>3, <2>1, <3>1
    <3>3. more[(k - 1) + 1] = free[k - 1]
      BY ONLY <1>5, <3>2, Zenon
    <3> QED BY ONLY <1>5, <3>2, <3>3, Zenon
  <2>2. \A k \in DOMAIN more : k # 1 => more[k] # more[1]
    BY ONLY <1>5, <1>6, <1>7, <2>1
  <2>3. i # 1 /\ j # 1
    BY <2>2, Zenon
  <2>4. i - 1 = j - 1 /\ i \in Int /\ j \in Int
    <3>1. /\ i - 1 \in DOMAIN free /\ more[i] = free[i - 1]
          /\ j - 1 \in DOMAIN free /\ more[j] = free[j - 1]
      BY <2>1, <2>3, Zenon
    <3>2. i - 1 = j - 1
      BY ONLY <1>6, <3>1, more[i] = more[j], Zenon
    <3>3. i \in 1..Len(more) /\ j \in 1..Len(more)
      BY <1>5, Zenon
    <3> QED  BY ONLY <3>2, <3>3
  <2> QED  BY <2>4
<1>10. \A g \in Out(H, s) \ {h} : \A i \in DOMAIN more : more[i] # g.obj
  <2>1. \A k \in DOMAIN more : k = 1 \/ (k - 1 \in DOMAIN free /\ more[k] = free[k - 1])
    BY ONLY <1>3, <1>5
  <2> QED  BY ONLY <1>5, <1>6, <1>7, <2>1
<1>11. Len(more) + Cardinality(Out(H \ {h}, s)) = n.slab[s].objs
  <2>1. Cardinality(Out(H \ {h}, s)) = Cardinality(Out(H, s)) - 1 /\ Cardinality(Out(H, s)) \in Nat
    BY <1>2, CountsOfSlab
  <2> QED  BY ONLY <1>3, <1>5, <1>6, <1>8, <2>1
<1>12. SlabRight(n, H \ {h}, K, s)
  BY ONLY <1>6, <1>7, <1>8, <1>9, <1>10, <1>11, Zenon DEF SlabRight
<1>13. ASSUME NEW t \in Blocks, n.slab[t] # NULL PROVE SlabRight(n, H \ {h}, K, t)
  <2>1. CASE t = s
    BY <1>12, <2>1, Zenon
  <2>2. CASE t # s
    <3>1. SameSlab(m, n, t)
      BY <1>0, <2>2, Zenon DEF Moved
    <3>2. m.slab[t] # NULL
      BY <1>13, <3>1, Zenon DEF SameSlab
    <3>3. SlabRight(m, H, K, t)
      BY <3>2, Zenon DEF Right
    <3>4. Out(H \ {h}, t) = Out(H, t)
      BY <2>2, Zenon DEF Out
    <3> QED  BY <3>1, <3>2, <3>3, <3>4, SlabStays, Zenon
  <2> QED  BY <2>1, <2>2, Zenon
<1>14. ASSUME NEW d \in Blocks, n.cache[d] # NULL, d \notin K PROVE CacheRight(n, H \ {h}, d)
  <2>1. Of(n, d) = Of(m, d)
    BY <1>0, <1>1, MovedOf, Zenon
  <2>2. CASE d = c
    <3>1. s \in Of(m, c)
      BY <1>1, Zenon DEF Of
    <3>2. Cardinality(OutOf(H \ {h}, Of(m, c))) = Cardinality(OutOf(H, Of(m, c))) - 1
      BY <1>2, <3>1, Counts, Zenon
    <3>3. n.cache[c].num_slabs = m.cache[c].num_slabs /\ n.cache[c].num_allocated = m.cache[c].num_allocated - 1
      BY <1>0, Zenon DEF Moved
    <3> QED  BY <1>2, <2>1, <2>2, <3>2, <3>3, Zenon DEF CacheRight
  <2>3. CASE d # c
    <3>1. SameCache(m, n, d)
      BY <1>0, <2>3, Zenon DEF Moved
    <3>2. m.cache[d] # NULL
      BY <1>14, <3>1, Zenon DEF SameCache
    <3>3. CacheRight(m, H, d)
      BY <1>14, <3>2, Zenon DEF Right
    <3>4. s \notin Of(m, d)
      BY <2>3, Zenon DEF Of
    <3>5. OutOf(H \ {h}, Of(m, d)) = OutOf(H, Of(m, d))
      BY <3>4, Zenon DEF OutOf
    <3> QED  BY <2>1, <3>1, <3>2, <3>3, <3>5, CacheStays, Zenon
  <2> QED  BY <2>2, <2>3, Zenon
<1>15. ASSUME NEW g \in H \ {h} PROVE n.slab[g.slab] # NULL
  <2>1. g.slab \in Blocks /\ m.slab[g.slab] # NULL
    BY <1>2, Zenon DEF Object, Right
  <2>2. g.slab = s \/ SameSlab(m, n, g.slab)
    BY <1>0, <2>1, Zenon DEF Moved
  <2> QED  BY <1>8, <2>1, <2>2, Zenon DEF SameSlab
<1>16. IsFiniteSet(H \ {h}) /\ H \ {h} \in SUBSET Object
  BY <1>2, Zenon DEF Counting, CardRemove
<1> QED  BY <1>13, <1>14, <1>15, <1>16, Zenon DEF Right

\* A new slab has all its objects free.
LEMMA GrowRight ==
  ASSUME Counting, NEW m \in MemType, NEW n, NEW H, NEW K, Right(m, H, K),
         NEW c \in Blocks, m.cache[c] # NULL, NEW b \in Blocks, m.slab[b] = NULL, Grown(m, n, c, b)
  PROVE  Right(n, H, K)
<1>1. IsFiniteSet(H) /\ H \in SUBSET Object /\ \A g \in H : m.slab[g.slab] # NULL /\ g.slab \in Blocks
  BY Zenon DEF Right, Object
<1>2. Out(H, b) = {}
  BY <1>1, Zenon DEF Out
<1>3. PICK k : k = m.cache[c].objs
  BY Zenon
<1>4. PICK free : free = [i \in 1..k |-> i]
  BY Zenon
<1>5. k \in Nat
  BY <1>3, Zenon DEF MemType, CacheType
<1>6. /\ n.slab[b] # NULL /\ n.slab[b].cache = c /\ n.slab[b].objs = k
      /\ n.slab[b].num_free = k /\ n.slab[b].free_list = free
  BY <1>3, <1>4, Zenon DEF Grown
<1>7. SlabRight(n, H, K, b)
  <2>1. /\ DOMAIN free = 1..k /\ Len(free) = k
        /\ \A i, j \in DOMAIN free : free[i] = free[j] => i = j
    BY ONLY <1>4, <1>5
  <2>2. Cardinality(Out(H, b)) = 0
    BY <1>2, Zenon DEF Counting, CardEmpty
  <2> QED  BY ONLY <1>2, <1>5, <1>6, <2>1, <2>2 DEF SlabRight
<1>8. ASSUME NEW t \in Blocks, n.slab[t] # NULL PROVE SlabRight(n, H, K, t)
  <2>1. CASE t = b
    BY <1>7, <2>1, Zenon
  <2>2. CASE t # b
    <3>1. SameSlab(m, n, t)
      BY <2>2, Zenon DEF Grown
    <3>2. m.slab[t] # NULL
      BY <1>8, <3>1, Zenon DEF SameSlab
    <3>3. SlabRight(m, H, K, t)
      BY <3>2, Zenon DEF Right
    <3> QED  BY <3>1, <3>2, <3>3, SlabStays, Zenon
  <2> QED  BY <2>1, <2>2, Zenon
<1>9. ASSUME NEW d PROVE Of(n, d) = Of(m, d) \cup (IF d = c THEN {b} ELSE {})
  <2> SUFFICES ASSUME NEW t \in Blocks
               PROVE  n.slab[t] # NULL /\ n.slab[t].cache = d <=>
                        \/ m.slab[t] # NULL /\ m.slab[t].cache = d
                        \/ t = b /\ d = c
    BY Zenon DEF Of
  <2>1. CASE t = b
    BY <1>6, <2>1, Zenon
  <2>2. CASE t # b
    <3>1. SameSlab(m, n, t)
      BY <2>2, Zenon DEF Grown
    <3> QED  BY <2>2, <3>1, Zenon DEF SameSlab, SameObjects
  <2> QED  BY <2>1, <2>2, Zenon
<1>10. ASSUME NEW d \in Blocks, n.cache[d] # NULL, d \notin K PROVE CacheRight(n, H, d)
  <2>1. CASE d = c
    <3>1. Of(n, c) = Of(m, c) \cup {b} /\ b \notin Of(m, c) /\ Of(m, c) \in SUBSET Blocks
      BY <1>9, Zenon DEF Of
    <3>2. Cardinality(Of(n, c)) = Cardinality(Of(m, c)) + 1
      BY <3>1, SlabAssumption, Zenon DEF Counting, CardSubset, CardAdd
    <3>3. OutOf(H, Of(n, c)) = OutOf(H, Of(m, c))
      BY <1>2, <3>1, Zenon DEF Out, OutOf
    <3>4. CacheRight(m, H, c)
      BY <1>10, <2>1, Zenon DEF Right
    <3>5. n.cache[c].num_slabs = m.cache[c].num_slabs + 1 /\ n.cache[c].num_allocated = m.cache[c].num_allocated
      BY Zenon DEF Grown
    <3> QED  BY <2>1, <3>2, <3>3, <3>4, <3>5, Zenon DEF CacheRight
  <2>2. CASE d # c
    <3>1. SameCache(m, n, d)
      BY <2>2, Zenon DEF Grown
    <3>2. m.cache[d] # NULL
      BY <1>10, <3>1, Zenon DEF SameCache
    <3>3. CacheRight(m, H, d)
      BY <1>10, <3>2, Zenon DEF Right
    <3>4. Of(n, d) = Of(m, d)
      BY <1>9, <2>2, Zenon
    <3> QED  BY <3>1, <3>2, <3>3, <3>4, CacheStays, Zenon
  <2> QED  BY <2>1, <2>2, Zenon
<1>11. ASSUME NEW g \in H PROVE n.slab[g.slab] # NULL
  <2>1. SameSlab(m, n, g.slab) /\ m.slab[g.slab] # NULL
    BY <1>1, Zenon DEF Grown
  <2> QED  BY <2>1, Zenon DEF SameSlab
<1> QED  BY <1>1, <1>8, <1>10, <1>11, Zenon DEF Right

\* A slab none of whose objects is held may be given back.
LEMMA ShrinkRight ==
  ASSUME Counting, NEW m \in MemType, NEW n, NEW H, NEW K, Right(m, H, K),
         NEW c \in Blocks, m.cache[c] # NULL, NEW s \in Blocks, m.slab[s] # NULL, m.slab[s].cache = c,
         Out(H, s) = {}, NEW k \in Int, c \notin K => k = m.cache[c].num_slabs - 1, Shrunk(m, n, c, s, k)
  PROVE  Right(n, H, K)
<1>1. IsFiniteSet(H) /\ H \in SUBSET Object /\ \A g \in H : m.slab[g.slab] # NULL /\ g.slab \in Blocks
  BY Zenon DEF Right, Object
<1>2. n.slab[s] = NULL
  BY Zenon DEF Shrunk
<1>3. ASSUME NEW t \in Blocks, n.slab[t] # NULL PROVE SlabRight(n, H, K, t)
  <2>1. SameSlab(m, n, t)
    BY <1>2, <1>3, Zenon DEF Shrunk
  <2>2. m.slab[t] # NULL
    BY <1>3, <2>1, Zenon DEF SameSlab
  <2>3. SlabRight(m, H, K, t)
    BY <2>2, Zenon DEF Right
  <2> QED  BY <2>1, <2>2, <2>3, SlabStays, Zenon
<1>4. ASSUME NEW d PROVE Of(n, d) = Of(m, d) \ {s}
  <2> SUFFICES ASSUME NEW t \in Blocks
               PROVE  n.slab[t] # NULL /\ n.slab[t].cache = d <=>
                        m.slab[t] # NULL /\ m.slab[t].cache = d /\ t # s
    BY Zenon DEF Of
  <2>1. CASE t = s
    BY <1>2, <2>1, Zenon
  <2>2. CASE t # s
    <3>1. SameSlab(m, n, t)
      BY <2>2, Zenon DEF Shrunk
    <3> QED  BY <2>2, <3>1, Zenon DEF SameSlab, SameObjects
  <2> QED  BY <2>1, <2>2, Zenon
<1>5. ASSUME NEW d \in Blocks, n.cache[d] # NULL, d \notin K PROVE CacheRight(n, H, d)
  <2>1. CASE d = c
    <3>1. Of(n, c) = Of(m, c) \ {s} /\ s \in Of(m, c) /\ Of(m, c) \in SUBSET Blocks
      BY <1>4 DEF Of
    <3>2. Cardinality(Of(n, c)) = Cardinality(Of(m, c)) - 1
      <4>1. IsFiniteSet(Of(m, c))
        BY <3>1, SlabAssumption, Zenon DEF Counting, CardSubset
      <4>2. Cardinality(Of(m, c) \ {s}) = IF s \in Of(m, c) THEN Cardinality(Of(m, c)) - 1 ELSE Cardinality(Of(m, c))
        BY ONLY Counting, <4>1, Zenon DEF Counting, CardRemove
      <4> QED  BY ONLY <3>1, <4>2
    <3>3. OutOf(H, Of(n, c)) = OutOf(H, Of(m, c))
      BY <3>1, Zenon DEF Out, OutOf
    <3>4. CacheRight(m, H, c)
      BY <1>5, <2>1, Zenon DEF Right
    <3>5. n.cache[c].num_slabs = k /\ n.cache[c].num_allocated = m.cache[c].num_allocated
      BY Zenon DEF Shrunk
    <3> QED  BY <1>5, <2>1, <3>2, <3>3, <3>4, <3>5, Zenon DEF CacheRight
  <2>2. CASE d # c
    <3>1. SameCache(m, n, d)
      BY <2>2, Zenon DEF Shrunk
    <3>2. m.cache[d] # NULL
      BY <1>5, <3>1, Zenon DEF SameCache
    <3>3. CacheRight(m, H, d)
      BY <1>5, <3>2, Zenon DEF Right
    <3>4. Of(n, d) = Of(m, d)
      BY <1>4, <2>2, Zenon DEF Of
    <3> QED  BY <3>1, <3>2, <3>3, <3>4, CacheStays, Zenon
  <2> QED  BY <2>1, <2>2, Zenon
<1>6. ASSUME NEW g \in H PROVE n.slab[g.slab] # NULL
  <2>1. SameSlab(m, n, g.slab) /\ m.slab[g.slab] # NULL
    BY <1>1, Zenon DEF Shrunk, Out
  <2> QED  BY <2>1, Zenon DEF SameSlab
<1> QED  BY <1>1, <1>3, <1>5, <1>6, Zenon DEF Right

\* Headers change, or clients give up objects, only where a cache is created or
\* destroyed.
Kept(m, n, H, J, K, L) ==
  /\ n.slab = m.slab /\ J \subseteq H
  /\ \A s \in Blocks : m.slab[s] # NULL /\ m.slab[s].cache \notin L =>
       m.slab[s].cache \notin K /\ Out(J, s) = Out(H, s)
  /\ \A c \in Blocks : n.cache[c] # NULL /\ c \notin L =>
       \/ m.cache[c] # NULL /\ c \notin K /\ SameCache(m, n, c)
       \/ Of(m, c) = {} /\ n.cache[c].num_allocated = 0 /\ n.cache[c].num_slabs = 0

\* Then objects and counters stay right.
LEMMA KeptRight ==
  ASSUME Counting, NEW m, NEW n, NEW H, NEW J, NEW K, NEW L, Right(m, H, K), Kept(m, n, H, J, K, L)
  PROVE  Right(n, J, L)
<1>1. IsFiniteSet(H) /\ H \in SUBSET Object /\ \A g \in H : m.slab[g.slab] # NULL
  BY Zenon DEF Right
<1>2. n.slab = m.slab /\ J \in SUBSET H
  BY Zenon DEF Kept
<1>3. IsFiniteSet(J) /\ J \in SUBSET Object /\ \A g \in J : n.slab[g.slab] # NULL
  BY <1>1, <1>2, Zenon DEF Counting, CardSubset
<1>4. ASSUME NEW t \in Blocks, n.slab[t] # NULL PROVE SlabRight(n, J, L, t)
  <2>1. SameSlab(m, n, t) /\ m.slab[t] # NULL
    BY <1>2, <1>4, Zenon DEF SameSlab, SameObjects
  <2>2. SlabRight(m, H, K, t)
    BY <2>1, Zenon DEF Right
  <2>3. m.slab[t].cache \notin L => m.slab[t].cache \notin K /\ Out(J, t) = Out(H, t)
    BY <2>1, Zenon DEF Kept
  <2>4. Out(J, t) \subseteq Out(H, t)
    BY <1>2, Zenon DEF Out
  <2> QED  BY <2>1, <2>2, <2>3, <2>4, SlabStays, Zenon
<1>5. \A d : Of(n, d) = Of(m, d)
  BY <1>2, Zenon DEF Of
<1>6. ASSUME NEW d \in Blocks, n.cache[d] # NULL, d \notin L PROVE CacheRight(n, J, d)
  <2>1. CASE m.cache[d] # NULL /\ d \notin K /\ SameCache(m, n, d)
    <3>1. CacheRight(m, H, d)
      BY <2>1, Zenon DEF Right
    <3>2. \A s \in Of(m, d) : Out(J, s) = Out(H, s)
      BY <1>6, Zenon DEF Of, Kept
    <3>3. OutOf(J, Of(m, d)) = OutOf(H, Of(m, d))
      BY <3>2, Zenon DEF Out, OutOf
    <3> QED  BY <1>5, <2>1, <3>1, <3>3, CacheStays, Zenon
  <2>2. CASE Of(m, d) = {} /\ n.cache[d].num_allocated = 0 /\ n.cache[d].num_slabs = 0
    <3>1. Of(n, d) = {} /\ OutOf(J, {}) = {}
      BY <1>5, <2>2, Zenon DEF OutOf
    <3> QED  BY <2>2, <3>1, Zenon DEF CacheRight, Counting, CardEmpty
  <2> QED  BY <1>6, <2>1, <2>2, Zenon DEF Kept
<1> QED  BY <1>3, <1>4, <1>6, Zenon DEF Right

-----------------------------------------------------------------------------
(* The inductive invariant.                                                *)

Places == {"idle", "list", "grow", "created", "shrink", "destroy", "destroyed", "kmalloc"}

PcType == [Procs -> [at : Places, cache : Blocks \cup {NULL}, why : Classes \cup {NULL}]]

TypeOK ==
  /\ pool \in SUBSET Blocks /\ open \in SUBSET Blocks
  /\ cache_list \in Seq(Blocks)
  /\ buffer_caches \in [Classes -> Blocks \cup {NULL}]
  /\ lock \in [Blocks -> Procs \cup {NULL}]
  /\ pc \in PcType

\* The blocks that are cache headers, those of caches not yet destroyed, and the
\* cache of each slab.
HeadersIn(m) == {c \in Blocks : m.cache[c] # NULL}
ValidIn(m) == {c \in Blocks : m.cache[c] # NULL /\ m.cache[c].valid}
HomeIn(m) == [s \in Blocks |-> m.slab[s].cache]

Headers == HeadersIn(Memory)
Valid == ValidIn(Memory)
AllSlabs == SlabsIn(Memory)
Home == HomeIn(Memory)

\* A block has one use.
OneUse ==
  /\ pool \cap Headers = {} /\ pool \cap AllSlabs = {} /\ Headers \cap AllSlabs = {}
  /\ Blocks = pool \cup Headers \cup AllSlabs
  /\ \A s \in AllSlabs : Home[s] \in Headers

\* The caches of cache_list are the valid ones, but for those still to be entered.
Entering == {c \in Blocks : \E p \in Procs : At(p, "list") /\ pc[p].cache = c}

Listed ==
  /\ \A i, j \in DOMAIN cache_list : cache_list[i] = cache_list[j] => i = j
  /\ \A c : (\E i \in DOMAIN cache_list : cache_list[i] = c) <=> c \in Valid \ Entering

\* While a cache is created or destroyed only its thread knows of it.
Private == {"list", "grow", "created", "destroy", "destroyed"}

Alone(p) ==
  LET c == pc[p].cache IN
  /\ \A q \in Procs : q # p => pc[q].cache # c
  /\ c \notin open /\ \A k \in Classes : buffer_caches[k] # c
  /\ \A h \in held : h.via # c /\ Home[h.slab] # c

Thread(p) ==
  LET c == pc[p].cache IN
  /\ pc[p].at = "idle" => c = NULL
  /\ pc[p].at \notin {"idle", "created"} => c # NULL
  /\ c # NULL => c \in Headers
  /\ c # NULL /\ pc[p].at # "destroyed" => c \in Valid
  /\ pc[p].at \in Private /\ c # NULL => Alone(p)
  /\ pc[p].at = "shrink" => c \in open
  /\ pc[p].at \in {"shrink", "destroy"} => lock[c] = p
  /\ pc[p].at = "kmalloc" => c \notin open
  /\ pc[p].at = "destroyed" => c \notin Valid /\ \A s \in AllSlabs : Home[s] # c

Threads == \A p \in Procs : Thread(p)

\* Clients know valid caches, kmalloc's are not among them, and an object is
\* freed through the cache it came from.
Public ==
  /\ open \subseteq Valid
  /\ \A k \in Classes : buffer_caches[k] # NULL => buffer_caches[k] \in Valid \ open
  /\ \A h \in held : IF h.via = NULL THEN Home[h.slab] \notin open
                     ELSE h.via \in open /\ Home[h.slab] = h.via

DyingOnes == {c \in Blocks : Dying(c)}

Inv ==
  /\ TypeOK /\ WellListed(Memory) /\ Right(Memory, held, DyingOnes)
  /\ OneUse /\ Listed /\ Threads /\ Public

-----------------------------------------------------------------------------
(* What the operations on the memory do to the uses of the blocks.         *)

\* The headers, the valid ones and the caches of the slabs both have are the same.
SameUse(m, n) ==
  /\ HeadersIn(n) = HeadersIn(m) /\ ValidIn(n) = ValidIn(m)
  /\ \A t \in SlabsIn(n) \cap SlabsIn(m) : HomeIn(n)[t] = HomeIn(m)[t]

\* Headers that agree on being there and on being valid.
LEMMA SameHeaders ==
  ASSUME NEW m, NEW n, NEW c \in Blocks, m.cache[c] # NULL, \A x \in Blocks \ {c} : SameCache(m, n, x),
         n.cache[c] # NULL /\ n.cache[c].valid = m.cache[c].valid
  PROVE  HeadersIn(n) = HeadersIn(m) /\ ValidIn(n) = ValidIn(m)
<1>1. ASSUME NEW x \in Blocks
      PROVE  /\ n.cache[x] # NULL <=> m.cache[x] # NULL
             /\ n.cache[x] # NULL => n.cache[x].valid = m.cache[x].valid
  <2>1. CASE x = c
    BY <2>1, Zenon
  <2>2. CASE x # c
    <3>1. SameCache(m, n, x)
      BY <2>2, Zenon
    <3> QED  BY <3>1, Zenon DEF SameCache, SameCounts
  <2> QED  BY <2>1, <2>2, Zenon
<1> QED  BY <1>1, Zenon DEF HeadersIn, ValidIn

\* Slabs that agree on being there and on their cache.
LEMMA SameHomes ==
  ASSUME NEW m, NEW n, NEW s \in Blocks, \A x \in Blocks \ {s} : SameSlab(m, n, x)
  PROVE  /\ SlabsIn(n) \ {s} = SlabsIn(m) \ {s}
         /\ \A t \in SlabsIn(n) \ {s} : HomeIn(n)[t] = HomeIn(m)[t]
<1>1. ASSUME NEW x \in Blocks \ {s}
      PROVE  /\ n.slab[x] # NULL <=> m.slab[x] # NULL
             /\ n.slab[x] # NULL => n.slab[x].cache = m.slab[x].cache
  <2>1. SameSlab(m, n, x)
    BY Zenon
  <2> QED  BY <2>1, Zenon DEF SameSlab, SameObjects
<1> QED  BY <1>1, Zenon DEF SlabsIn, HomeIn

\* An object moved.
LEMMA MovedUse ==
  ASSUME NEW m, NEW n, NEW c \in Blocks, m.cache[c] # NULL, NEW s \in Blocks, m.slab[s] # NULL,
         NEW free, NEW k, Moved(m, n, c, s, free, k)
  PROVE  SameUse(m, n) /\ SlabsIn(n) = SlabsIn(m)
<1>1. HeadersIn(n) = HeadersIn(m) /\ ValidIn(n) = ValidIn(m)
  <2>1. /\ \A x \in Blocks \ {c} : SameCache(m, n, x)
        /\ n.cache[c] # NULL /\ n.cache[c].valid = m.cache[c].valid
    BY Zenon DEF Moved
  <2> QED  BY <2>1, SameHeaders, Zenon
<1>2. SlabsIn(n) \ {s} = SlabsIn(m) \ {s} /\ \A t \in SlabsIn(n) \ {s} : HomeIn(n)[t] = HomeIn(m)[t]
  <2>1. \A x \in Blocks \ {s} : SameSlab(m, n, x)
    BY Zenon DEF Moved
  <2> QED  BY ONLY <2>1, s \in Blocks, SameHomes
<1>3. s \in SlabsIn(n) /\ s \in SlabsIn(m) /\ HomeIn(n)[s] = HomeIn(m)[s]
  BY Zenon DEF Moved, SlabsIn, HomeIn
<1> QED  BY ONLY <1>1, <1>2, <1>3 DEF SameUse

AddedSlab(m, n, c, b) == SlabsIn(n) = SlabsIn(m) \cup {b} /\ HomeIn(n)[b] = c

\* A cache grew by slab b.
LEMMA GrownUse ==
  ASSUME NEW m, NEW n, NEW c \in Blocks, m.cache[c] # NULL, NEW b \in Blocks, m.slab[b] = NULL,
         Grown(m, n, c, b)
  PROVE  SameUse(m, n) /\ AddedSlab(m, n, c, b)
<1>1. HeadersIn(n) = HeadersIn(m) /\ ValidIn(n) = ValidIn(m)
  <2>1. /\ \A x \in Blocks \ {c} : SameCache(m, n, x)
        /\ n.cache[c] # NULL /\ n.cache[c].valid = m.cache[c].valid
    BY Zenon DEF Grown
  <2> QED  BY <2>1, SameHeaders, Zenon
<1>2. SlabsIn(n) \ {b} = SlabsIn(m) \ {b} /\ \A t \in SlabsIn(n) \ {b} : HomeIn(n)[t] = HomeIn(m)[t]
  <2>1. \A x \in Blocks \ {b} : SameSlab(m, n, x)
    BY Zenon DEF Grown
  <2> QED  BY ONLY <2>1, b \in Blocks, SameHomes
<1>3. b \in SlabsIn(n) /\ b \notin SlabsIn(m) /\ HomeIn(n)[b] = c
  BY Zenon DEF Grown, SlabsIn, HomeIn
<1> QED  BY <1>1, <1>2, <1>3, Zenon DEF SameUse, AddedSlab

LostSlab(m, n, s) == SlabsIn(n) = SlabsIn(m) \ {s}

\* A cache lost slab s.
LEMMA ShrunkUse ==
  ASSUME NEW m, NEW n, NEW c \in Blocks, m.cache[c] # NULL, NEW s \in Blocks, NEW k,
         Shrunk(m, n, c, s, k)
  PROVE  SameUse(m, n) /\ LostSlab(m, n, s)
<1>1. HeadersIn(n) = HeadersIn(m) /\ ValidIn(n) = ValidIn(m)
  <2>1. /\ \A x \in Blocks \ {c} : SameCache(m, n, x)
        /\ n.cache[c] # NULL /\ n.cache[c].valid = m.cache[c].valid
    BY Zenon DEF Shrunk
  <2> QED  BY <2>1, SameHeaders, Zenon
<1>2. SlabsIn(n) \ {s} = SlabsIn(m) \ {s} /\ \A t \in SlabsIn(n) \ {s} : HomeIn(n)[t] = HomeIn(m)[t]
  <2>1. \A x \in Blocks \ {s} : SameSlab(m, n, x)
    BY Zenon DEF Shrunk
  <2> QED  BY ONLY <2>1, s \in Blocks, SameHomes
<1>3. s \notin SlabsIn(n)
  BY Zenon DEF Shrunk, SlabsIn
<1> QED  BY <1>1, <1>2, <1>3, Zenon DEF SameUse, LostSlab

\* Reading the memory.
LEMMA MemoryIs ==
  /\ Memory.cache = cache /\ Memory.slab = slab
  /\ Headers = {c \in Blocks : cache[c] # NULL}
  /\ Valid = {c \in Blocks : cache[c] # NULL /\ cache[c].valid}
  /\ AllSlabs = {s \in Blocks : slab[s] # NULL} /\ \A s \in Blocks : Home[s] = slab[s].cache
  /\ \A c : Of(Memory, c) = SlabsOf(c)
BY Zenon DEF Memory, Headers, Valid, AllSlabs, Home, HeadersIn, ValidIn, SlabsIn, HomeIn, Of, SlabsOf
=============================================================================
