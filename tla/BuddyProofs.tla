----------------------------- MODULE BuddyProofs -----------------------------
(***************************************************************************)
(* Proofs about Buddy, for every region of a power of two of blocks and    *)
(* every sequence of requests.                                             *)
(***************************************************************************)
EXTENDS Buddy, FiniteSetTheorems, TLAPS

-----------------------------------------------------------------------------
(* The list primitives.                                                    *)

\* add_to_list adds exactly its block and repeats nothing that was not listed.
LEMMA PushElems ==
  ASSUME NEW list \in Seq(Nat), NEW x \in Nat
  PROVE  /\ add_to_list(list, x) \in Seq(Nat)
         /\ ElemsOf(add_to_list(list, x)) = ElemsOf(list) \cup {x}
         /\ NoRepeats(list) /\ x \notin ElemsOf(list) => NoRepeats(add_to_list(list, x))
<1> DEFINE new == add_to_list(list, x)
           n == Len(list)
<1>0. n \in Nat /\ DOMAIN list = 1..n
  OBVIOUS
<1>1. /\ new \in Seq(Nat)
      /\ DOMAIN new = 1..(n + 1)
      /\ new[1] = x
      /\ \A i \in 1..n : new[i + 1] = list[i]
  BY DEF add_to_list
<1> HIDE DEF new, n
<1>2. \A i \in DOMAIN new : i = 1 \/ (i - 1 \in DOMAIN list /\ new[i] = list[i - 1])
  <2> SUFFICES ASSUME NEW i \in DOMAIN new, i # 1
               PROVE  i - 1 \in DOMAIN list /\ new[i] = list[i - 1]
    OBVIOUS
  <2>1. i - 1 \in 1..n /\ (i - 1) + 1 = i
    BY <1>0, <1>1
  <2> QED BY <2>1, <1>0, <1>1
<1>3. ElemsOf(new) = ElemsOf(list) \cup {x}
  <2>1. ASSUME NEW e \in ElemsOf(new) PROVE e \in ElemsOf(list) \cup {x}
    <3>1. PICK i \in DOMAIN new : e = new[i]
      BY DEF ElemsOf
    <3>2. CASE i = 1
      BY <3>1, <3>2, <1>1
    <3>3. CASE i - 1 \in DOMAIN list /\ new[i] = list[i - 1]
      BY <3>1, <3>3 DEF ElemsOf
    <3> QED BY <3>2, <3>3, <1>2
  <2>2. ASSUME NEW e \in ElemsOf(list) PROVE e \in ElemsOf(new)
    <3>1. PICK i \in DOMAIN list : e = list[i]
      BY DEF ElemsOf
    <3>2. i \in 1..n
      BY <1>0
    <3>3. i + 1 \in DOMAIN new
      BY <3>2, <1>0, <1>1
    <3>4. new[i + 1] = e
      BY <3>1, <3>2, <1>1
    <3> QED BY <3>3, <3>4 DEF ElemsOf
  <2>3. x \in ElemsOf(new)
    <3>1. 1 \in DOMAIN new
      BY <1>0, <1>1
    <3> QED BY <1>1, <3>1, ZenonT(30) DEF ElemsOf
  <2> QED BY <2>1, <2>2, <2>3, Zenon
<1>4. ASSUME NoRepeats(list), x \notin ElemsOf(list) PROVE NoRepeats(new)
  <2> SUFFICES ASSUME NEW i \in DOMAIN new, NEW j \in DOMAIN new, new[i] = new[j]
               PROVE  i = j
    BY DEF NoRepeats
  <2>1. i \in Nat /\ j \in Nat
    BY <1>0, <1>1
  <2>2. \A k \in DOMAIN list : list[k] # x
    BY <1>4 DEF ElemsOf
  <2>3. CASE i = 1 \/ j = 1
    BY <2>3, <2>2, <1>1, <1>2
  <2>4. CASE i # 1 /\ j # 1
    <3>1. i - 1 = j - 1
      BY <2>4, <1>2, <1>4 DEF NoRepeats
    <3> QED BY <3>1, <2>1
  <2> QED BY <2>3, <2>4
<1> QED BY <1>1, <1>3, <1>4 DEF new

\* new is list without its element at position i.
Unlinked(new, list, i) ==
  /\ DOMAIN new = 1..(Len(list) - 1)
  /\ \A j \in 1..(Len(list) - 1) :
       /\ j < i => j \in DOMAIN list /\ j # i /\ new[j] = list[j]
       /\ ~(j < i) => j + 1 \in DOMAIN list /\ j + 1 # i /\ new[j] = list[j + 1]

\* Unlinking position i removes exactly that element.
LEMMA UnlinkedElems ==
  ASSUME NEW list \in Seq(Nat), NEW i \in DOMAIN list, NoRepeats(list),
         NEW new, Unlinked(new, list, i)
  PROVE  ElemsOf(new) = ElemsOf(list) \ {list[i]} /\ NoRepeats(new)
<1>0. Len(list) \in Nat /\ DOMAIN list = 1..Len(list) /\ Len(list) - 1 \in Nat
  OBVIOUS
<1>1. /\ DOMAIN new = 1..(Len(list) - 1)
      /\ \A j \in 1..(Len(list) - 1) :
           /\ j < i => j \in DOMAIN list /\ j # i /\ new[j] = list[j]
           /\ ~(j < i) => j + 1 \in DOMAIN list /\ j + 1 # i /\ new[j] = list[j + 1]
  BY DEF Unlinked
<1>3. ElemsOf(new) = ElemsOf(list) \ {list[i]}
  <2>1. ASSUME NEW e \in ElemsOf(new) PROVE e \in ElemsOf(list) \ {list[i]}
    <3>1. PICK j \in DOMAIN new : e = new[j]
      BY DEF ElemsOf
    <3>2. \E k \in DOMAIN list : k # i /\ e = list[k]
      BY <3>1, <1>1, SMTT(60)
    <3> QED BY <3>2 DEF ElemsOf, NoRepeats
  <2>2. ASSUME NEW e \in ElemsOf(list) \ {list[i]} PROVE e \in ElemsOf(new)
    <3>1. PICK k \in DOMAIN list : e = list[k] /\ k # i
      BY DEF ElemsOf
    <3>2. CASE k < i
      <4>1. k \in DOMAIN new /\ new[k] = e
        BY <1>0, <1>1, <3>1, <3>2
      <4> QED BY <4>1 DEF ElemsOf
    <3>3. CASE k > i
      <4>1. k - 1 \in DOMAIN new /\ ~(k - 1 < i) /\ (k - 1) + 1 = k
        BY <1>0, <1>1, <3>1, <3>3, SMTT(30)
      <4>2. new[k - 1] = e
        BY <4>1, <1>1, <3>1
      <4> QED BY <4>1, <4>2 DEF ElemsOf
    <3> QED BY <1>0, <3>1, <3>2, <3>3
  <2> QED BY <2>1, <2>2
<1>4. NoRepeats(new)
  <2> SUFFICES ASSUME NEW j \in DOMAIN new, NEW k \in DOMAIN new, new[j] = new[k]
               PROVE  j = k
    BY DEF NoRepeats
  <2>1. \A p, q \in DOMAIN list : list[p] = list[q] => p = q
    BY DEF NoRepeats
  <2>2. j \in 1..(Len(list) - 1) /\ k \in 1..(Len(list) - 1)
    BY <1>1
  <2> DEFINE old(m) == IF m < i THEN m ELSE m + 1
  <2>3. /\ old(j) \in DOMAIN list /\ new[j] = list[old(j)]
        /\ old(k) \in DOMAIN list /\ new[k] = list[old(k)]
    BY <1>1, <2>2, ZenonT(30)
  <2> HIDE DEF old
  <2>4. old(j) = old(k)
    BY <2>1, <2>3, Zenon
  <2>5. old(j) # i /\ old(k) # i
    BY <1>1, <2>2, ZenonT(30) DEF old
  <2>6. i \in Int /\ j \in Int /\ k \in Int
    BY <1>0, <2>2
  <2> QED BY <2>4, <2>5, <2>6 DEF old
<1> QED BY <1>3, <1>4

\* remove_from_list removes exactly its block.
LEMMA RemoveElems ==
  ASSUME NEW list \in Seq(Nat), NoRepeats(list), NEW x \in ElemsOf(list)
  PROVE  /\ remove_from_list(list, x) \in Seq(Nat)
         /\ ElemsOf(remove_from_list(list, x)) = ElemsOf(list) \ {x}
         /\ NoRepeats(remove_from_list(list, x))
<1> DEFINE i == CHOOSE i \in DOMAIN list : list[i] = x
<1>1. i \in DOMAIN list /\ list[i] = x
  BY DEF ElemsOf
<1> HIDE DEF i
<1>2. remove_from_list(list, x) = RemoveNth(list, i)
  BY DEF remove_from_list, i
<1>3. RemoveNth(list, i) \in Seq(Nat)
  <2>1. Len(list) \in Nat /\ DOMAIN list = 1..Len(list) /\ Len(list) - 1 \in Nat
    BY <1>1
  <2>2. RemoveNth(list, i) \in [1..(Len(list) - 1) -> Nat]
    BY <1>1, <2>1, SMTT(30) DEF RemoveNth
  <2> QED BY <2>1, <2>2
<1>4. Unlinked(RemoveNth(list, i), list, i)
  BY <1>1 DEF RemoveNth, Unlinked
<1> QED BY <1>1, <1>2, <1>3, <1>4, UnlinkedElems

\* Taking the head is removing position 1.
LEMMA TailElems ==
  ASSUME NEW list \in Seq(Nat), NoRepeats(list), list # <<>>
  PROVE  /\ Tail(list) \in Seq(Nat)
         /\ Head(list) \in ElemsOf(list)
         /\ ElemsOf(Tail(list)) = ElemsOf(list) \ {Head(list)}
         /\ NoRepeats(Tail(list))
<1>1. 1 \in DOMAIN list /\ Head(list) = list[1]
  OBVIOUS
<1>2. Tail(list) \in Seq(Nat) /\ Unlinked(Tail(list), list, 1)
  BY DEF Unlinked
<1>3. Head(list) \in ElemsOf(list)
  BY <1>1 DEF ElemsOf
<1> QED BY <1>1, <1>2, <1>3, UnlinkedElems

-----------------------------------------------------------------------------
(* Splitting a chunk, and merging a chunk with its buddy, keep a set of    *)
(* chunks disjoint and covering.                                           *)

ChunkType == Nat \X (0..MAX_ORDER)

\* The ranges of the orders.
LEMMA OrderFacts ==
  /\ MAX_ORDER \in Nat \ {0} /\ max_order \in Nat \ {0} /\ max_order <= MAX_ORDER
  /\ DOMAIN Pow2 = 0..(MAX_ORDER + 1)
<1>1. MAX_ORDER \in Nat \ {0} /\ DOMAIN Pow2 = 0..(MAX_ORDER + 1)
  BY Pow2Assumption
<1> QED BY <1>1, MaxOrderAssumption

\* Chunk sizes are positive and double from one order to the next.
LEMMA Pow2Type ==
  \A o \in 0..MAX_ORDER : Pow2[o] \in Nat \ {0} /\ Pow2[o + 1] = 2 * Pow2[o]
<1> SUFFICES ASSUME NEW o \in 0..MAX_ORDER
             PROVE  Pow2[o] \in Nat \ {0} /\ Pow2[o + 1] = 2 * Pow2[o]
  OBVIOUS
<1>1. o \in 0..(MAX_ORDER + 1)
  BY Pow2Assumption
<1> QED BY <1>1, Pow2Assumption

\* Splitting a chunk of a tiling into its two halves gives a tiling again, and
\* neither half was a chunk of it before.
LEMMA SplitTiles ==
  ASSUME NEW S \in SUBSET ChunkType, PairwiseDisjoint(S), CoverRegion(S),
         NEW b \in Nat, NEW f \in 1..MAX_ORDER, <<b, f>> \in S
  PROVE  LET lower == <<b, f - 1>>
             upper == <<b + Pow2[f - 1], f - 1>>
             T == (S \ {<<b, f>>}) \cup {lower, upper}
         IN  /\ PairwiseDisjoint(T) /\ CoverRegion(T)
             /\ lower # upper /\ lower \notin S /\ upper \notin S
<1> DEFINE h == Pow2[f - 1]
           lower == <<b, f - 1>>
           upper == <<b + h, f - 1>>
           T == (S \ {<<b, f>>}) \cup {lower, upper}
<1>1. h \in Nat \ {0} /\ Pow2[f] = 2 * h
  <2>1. f - 1 \in 0..MAX_ORDER /\ (f - 1) + 1 = f
    BY Pow2Assumption
  <2> QED BY <2>1, Pow2Type
<1> HIDE DEF h
<1>2. \A c \in S : c # <<b, f>> => c[1] + Pow2[c[2]] <= b \/ b + 2 * h <= c[1]
  BY <1>1 DEF PairwiseDisjoint, Disjoint
<1>3. \A c \in S : c[1] \in Nat /\ c[2] \in 0..MAX_ORDER /\ Pow2[c[2]] \in Nat \ {0}
  BY Pow2Type DEF ChunkType
<1>4. lower[1] = b /\ lower[2] = f - 1 /\ upper[1] = b + h /\ upper[2] = f - 1
  OBVIOUS
<1>5. lower \notin S /\ upper \notin S /\ lower # upper
  <2>1. f - 1 # f /\ lower # <<b, f>> /\ upper # <<b, f>>
    OBVIOUS
  <2>2. lower \notin S
    <3> SUFFICES ASSUME lower \in S PROVE FALSE
      OBVIOUS
    <3>1. b + h <= b \/ b + 2 * h <= b
      BY <1>2, <1>4, <2>1 DEF h
    <3> QED BY <1>1, <3>1
  <2>3. upper \notin S
    <3> SUFFICES ASSUME upper \in S PROVE FALSE
      OBVIOUS
    <3>1. (b + h) + h <= b \/ b + 2 * h <= b + h
      BY <1>2, <1>4, <2>1 DEF h
    <3> QED BY <1>1, <3>1
  <2> QED BY <1>1, <1>4, <2>2, <2>3
<1>6. PairwiseDisjoint(T)
  <2> SUFFICES ASSUME NEW c \in T, NEW d \in T, c # d PROVE Disjoint(c, d)
    BY DEF PairwiseDisjoint
  <2>1. CASE c \in S /\ d \in S
    BY <2>1 DEF PairwiseDisjoint
  <2>2. CASE c \in {lower, upper} /\ d \in {lower, upper}
    BY <1>1, <1>4, <2>2 DEF Disjoint, h
  <2>3. CASE c \in S /\ c # <<b, f>> /\ d \in {lower, upper}
    BY <1>1, <1>2, <1>3, <1>4, <2>3 DEF Disjoint, h
  <2>4. CASE d \in S /\ d # <<b, f>> /\ c \in {lower, upper}
    BY <1>1, <1>2, <1>3, <1>4, <2>4 DEF Disjoint, h
  <2> QED BY <2>1, <2>2, <2>3, <2>4
<1>7. CoverRegion(T)
  <2>1. b + 2 * h <= block_num
    BY <1>1 DEF CoverRegion
  <2>2. ASSUME NEW c \in T PROVE c[1] + Pow2[c[2]] <= block_num
    BY <1>1, <1>4, <2>1, BlockNumAssumption DEF CoverRegion, h
  <2>3. ASSUME NEW x \in Blocks PROVE \E c \in T : x \in Span(c)
    <3>1. PICK c \in S : x \in Span(c)
      BY DEF CoverRegion
    <3>2. CASE c # <<b, f>>
      BY <3>1, <3>2
    <3>3. CASE c = <<b, f>>
      <4>1. x \in Nat /\ b <= x /\ x <= b + 2 * h - 1
        BY <1>1, <3>1, <3>3, BlockNumAssumption DEF Span, Blocks
      <4>2. CASE x < b + h
        <5>1. x \in Span(lower)
          BY <1>1, <1>4, <4>1, <4>2 DEF Span, h
        <5> QED BY <5>1
      <4>3. CASE x >= b + h
        <5>1. x \in Span(upper)
          BY <1>1, <1>4, <4>1, <4>3 DEF Span, h
        <5> QED BY <5>1
      <4> QED BY <1>1, <4>1, <4>2, <4>3
    <3> QED BY <3>2, <3>3
  <2> QED BY <2>2, <2>3 DEF CoverRegion
<1> QED BY <1>5, <1>6, <1>7 DEF h

\* get_buddy flips bit `order` and get_parent clears it: a block and its buddy
\* are adjacent, and the parent is the lower of the two.
LEMMA BuddyAdjacent ==
  ASSUME NEW x \in Nat, NEW o \in 0..MAX_ORDER
  PROVE  LET y == get_buddy(x, o)
             p == get_parent(x, o)
         IN  \/ y = x + Pow2[o] /\ p = x
             \/ x = y + Pow2[o] /\ p = y
<1>1. Pow2[o] \in Nat
  BY Pow2Assumption
<1> QED BY <1>1 DEF get_buddy, get_parent

\* Merging two adjacent chunks of one order into the chunk of the next order
\* that starts at the lower one keeps a set of chunks a tiling.
LEMMA MergeTiles ==
  ASSUME NEW S \in SUBSET ChunkType, PairwiseDisjoint(S), CoverRegion(S),
         NEW p \in Nat, NEW q \in Nat, NEW f \in 0..(MAX_ORDER - 1),
         <<p, f>> \in S, <<q, f>> \in S, q = p + Pow2[f]
  PROVE  LET T == (S \ {<<p, f>>, <<q, f>>}) \cup {<<p, f + 1>>}
         IN  PairwiseDisjoint(T) /\ CoverRegion(T) /\ <<p, f + 1>> \notin S
<1> DEFINE h == Pow2[f]
           lower == <<p, f>>
           upper == <<q, f>>
           both == <<p, f + 1>>
           T == (S \ {lower, upper}) \cup {both}
<1>1. h \in Nat \ {0} /\ Pow2[f + 1] = 2 * h /\ f \in 0..MAX_ORDER
  <2>1. f \in 0..MAX_ORDER
    BY Pow2Assumption
  <2> QED BY <2>1, Pow2Type
<1>2. \A c \in S : c[1] \in Nat /\ c[2] \in 0..MAX_ORDER /\ Pow2[c[2]] \in Nat \ {0}
  BY Pow2Type DEF ChunkType
<1>3. both[1] = p /\ both[2] = f + 1 /\ lower[1] = p /\ lower[2] = f
      /\ upper[1] = p + h /\ upper[2] = f
  OBVIOUS
<1>4. ASSUME NEW c \in S, c \notin {lower, upper}
      PROVE  c[1] + Pow2[c[2]] <= p \/ p + 2 * h <= c[1]
  <2>1. c[1] + Pow2[c[2]] <= p \/ p + h <= c[1]
    BY <1>3, <1>4 DEF PairwiseDisjoint, Disjoint
  <2>2. c[1] + Pow2[c[2]] <= p + h \/ p + h + h <= c[1]
    BY <1>3, <1>4 DEF PairwiseDisjoint, Disjoint
  <2> QED BY <1>1, <1>2, <2>1, <2>2
<1>5. both \notin S
  <2> SUFFICES ASSUME both \in S PROVE FALSE
    OBVIOUS
  <2>1. both # lower /\ both # upper
    BY <1>1, <1>3
  <2>2. p + 2 * h <= p \/ p + 2 * h <= p
    BY <1>1, <1>3, <1>4, <2>1
  <2> QED BY <1>1, <2>2
<1>6. PairwiseDisjoint(T)
  <2> SUFFICES ASSUME NEW c \in T, NEW d \in T, c # d PROVE Disjoint(c, d)
    BY DEF PairwiseDisjoint
  <2>1. CASE c \in S /\ d \in S
    BY <2>1 DEF PairwiseDisjoint
  <2>2. CASE c \in S \ {lower, upper} /\ d = both
    BY <1>1, <1>2, <1>3, <1>4, <2>2 DEF Disjoint
  <2>3. CASE d \in S \ {lower, upper} /\ c = both
    BY <1>1, <1>2, <1>3, <1>4, <2>3 DEF Disjoint
  <2> QED BY <2>1, <2>2, <2>3
<1>7. CoverRegion(T)
  <2>1. p + h + h <= block_num
    BY <1>3 DEF CoverRegion
  <2>2. ASSUME NEW c \in T PROVE c[1] + Pow2[c[2]] <= block_num
    BY <1>1, <1>3, <2>1, BlockNumAssumption DEF CoverRegion
  <2>3. ASSUME NEW x \in Blocks PROVE \E c \in T : x \in Span(c)
    <3>1. PICK c \in S : x \in Span(c)
      BY DEF CoverRegion
    <3>2. CASE c \notin {lower, upper}
      BY <3>1, <3>2
    <3>3. CASE c \in {lower, upper}
      <4>1. x \in Span(both)
        BY <1>1, <1>3, <3>1, <3>3, BlockNumAssumption DEF Span, Blocks
      <4> QED BY <4>1
    <3> QED BY <3>2, <3>3
  <2> QED BY <2>2, <2>3 DEF CoverRegion
<1> QED BY <1>5, <1>6, <1>7

-----------------------------------------------------------------------------
(* The free lists as a set of chunks.                                      *)

\* Replacing one list replaces the chunks of that order.
LEMMA ReplaceList ==
  ASSUME free_list \in [Slots -> Seq(Nat)], NEW o \in Slots, NEW list \in Seq(Nat),
         free_list' = [free_list EXCEPT ![o] = list]
  PROVE  /\ free_list' \in [Slots -> Seq(Nat)]
         /\ \A x, p : <<x, p>> \in FreeChunks' <=>
              /\ p \in Slots
              /\ IF p = o THEN x \in ElemsOf(list) ELSE <<x, p>> \in FreeChunks
         /\ \A c \in FreeChunks' : c = <<c[1], c[2]>>
         /\ \A c \in FreeChunks : c = <<c[1], c[2]>>
         /\ \A x, p : <<x, p>> \in FreeChunks => p \in Slots /\ x \in ElemsOf(free_list[p])
<1>1. /\ free_list' \in [Slots -> Seq(Nat)]
      /\ \A p \in Slots : free_list'[p] = IF p = o THEN list ELSE free_list[p]
  OBVIOUS
<1>2. \A x, p : <<x, p>> \in FreeChunks <=> p \in Slots /\ x \in ElemsOf(free_list[p])
  BY DEF FreeChunks, ListedAt
<1>3. \A x, p : <<x, p>> \in FreeChunks' <=> p \in Slots /\ x \in ElemsOf(free_list'[p])
  BY DEF FreeChunks, ListedAt, ElemsOf
<1>4. \A c \in FreeChunks' : c = <<c[1], c[2]>>
  BY DEF FreeChunks, ListedAt
<1>5. \A c \in FreeChunks : c = <<c[1], c[2]>>
  BY DEF FreeChunks, ListedAt
<1> QED BY <1>1, <1>2, <1>3, <1>4, <1>5

\* Putting a block on a list adds one chunk.
LEMMA PushChunk ==
  ASSUME free_list \in [Slots -> Seq(Nat)], \A p \in Slots : NoRepeats(free_list[p]),
         NEW o \in Slots, NEW x \in Nat, <<x, o>> \notin FreeChunks,
         free_list' = [free_list EXCEPT ![o] = add_to_list(@, x)]
  PROVE  /\ free_list' \in [Slots -> Seq(Nat)]
         /\ \A p \in Slots : NoRepeats(free_list'[p])
         /\ FreeChunks' = FreeChunks \cup {<<x, o>>}
<1> DEFINE list == add_to_list(free_list[o], x)
<1>1. x \notin ElemsOf(free_list[o])
  BY DEF FreeChunks, ListedAt
<1>2. list \in Seq(Nat) /\ ElemsOf(list) = ElemsOf(free_list[o]) \cup {x} /\ NoRepeats(list)
  BY <1>1, PushElems, Zenon
<1> HIDE DEF list
<1>3. free_list' = [free_list EXCEPT ![o] = list]
  BY DEF list
<1>4. FreeChunks' = FreeChunks \cup {<<x, o>>}
  <2>1. \A y, p : <<y, p>> \in FreeChunks' <=> <<y, p>> \in FreeChunks \cup {<<x, o>>}
    BY <1>2, <1>3, ReplaceList DEF FreeChunks, ListedAt
  <2>2. \A c \in FreeChunks' \cup FreeChunks : c = <<c[1], c[2]>>
    BY <1>2, <1>3, ReplaceList, Zenon
  <2>3. ASSUME NEW c \in FreeChunks' PROVE c \in FreeChunks \cup {<<x, o>>}
    BY <2>1, <2>2
  <2>4. ASSUME NEW c \in FreeChunks \cup {<<x, o>>} PROVE c \in FreeChunks'
    BY <2>1, <2>2
  <2> QED BY <2>3, <2>4
<1> QED BY <1>2, <1>3, <1>4, ReplaceList

\* Taking a block off a list removes one chunk.
LEMMA DropChunk ==
  ASSUME free_list \in [Slots -> Seq(Nat)], \A p \in Slots : NoRepeats(free_list[p]),
         NEW o \in Slots, NEW x \in ElemsOf(free_list[o]), NEW list \in Seq(Nat),
         NoRepeats(list), ElemsOf(list) = ElemsOf(free_list[o]) \ {x},
         free_list' = [free_list EXCEPT ![o] = list]
  PROVE  /\ free_list' \in [Slots -> Seq(Nat)]
         /\ \A p \in Slots : NoRepeats(free_list'[p])
         /\ FreeChunks' = FreeChunks \ {<<x, o>>}
         /\ <<x, o>> \in FreeChunks
<1>1. FreeChunks' = FreeChunks \ {<<x, o>>}
  <2>1. \A y, p : <<y, p>> \in FreeChunks' <=> <<y, p>> \in FreeChunks \ {<<x, o>>}
    BY ReplaceList DEF FreeChunks, ListedAt
  <2>2. \A c \in FreeChunks' \cup FreeChunks : c = <<c[1], c[2]>>
    BY ReplaceList, Zenon
  <2>3. ASSUME NEW c \in FreeChunks' PROVE c \in FreeChunks \ {<<x, o>>}
    BY <2>1, <2>2
  <2>4. ASSUME NEW c \in FreeChunks \ {<<x, o>>} PROVE c \in FreeChunks'
    BY <2>1, <2>2
  <2> QED BY <2>3, <2>4
<1>2. <<x, o>> \in FreeChunks
  BY DEF FreeChunks, ListedAt
<1> QED BY <1>1, <1>2, ReplaceList

-----------------------------------------------------------------------------
(* The inductive invariant: no overlap and full cover at every step of the *)
(* split and merge loops, with the orders the loop variables range over.   *)

LoopOrders ==
  /\ memory_start = "space"
  /\ op.found <= max_order
  /\ op.pc = "split" => op.order <= op.found
  /\ \A c \in allocated : c[2] <= max_order

IInv == TypeOK /\ LoopOrders /\ NoOverlap /\ Covers

\* The chunks are typed.
LEMMA ChunksType ==
  ASSUME TypeOK PROVE Chunks \subseteq ChunkType
<1>1. FreeChunks \subseteq ChunkType
  <2>1. ASSUME NEW o \in Slots, NEW x \in ElemsOf(free_list[o])
        PROVE  <<x, o>> \in ChunkType
    <3>1. x \in Nat
      BY DEF TypeOK, ElemsOf
    <3>2. o \in 0..MAX_ORDER
      BY OrderFacts DEF Slots
    <3> QED BY <3>1, <3>2 DEF ChunkType
  <2> QED BY <2>1 DEF FreeChunks, ListedAt
<1>2. InHand \subseteq ChunkType
  BY DEF TypeOK, InHand, ChunkType
<1> QED BY <1>1, <1>2 DEF Chunks, TypeOK, ChunkType

\* buddy_init establishes the invariant on a power-of-two region.
LEMMA InitIInv ==
  ASSUME OneChunkRegion, Init PROVE IInv
<1>1. TypeOK
  <2>1. free_list \in [Slots -> Seq(Nat)]
    <3>1. <<0>> \in Seq(Nat) /\ <<>> \in Seq(Nat)
      OBVIOUS
    <3>2. \A o \in Slots : InitialList(o) \in {<<0>>, <<>>}
      BY DEF OneChunkRegion
    <3> QED BY <3>1, <3>2, Zenon DEF Init
  <2> QED BY <2>1, Pow2Assumption, BlockNumAssumption DEF Init, TypeOK, NoOp
<1>2. LoopOrders
  BY MaxOrderAssumption DEF Init, LoopOrders, NoOp
<1> DEFINE top == max_order - 1
<1>3. top \in Slots /\ top \in 0..MAX_ORDER
  BY MaxOrderAssumption, Pow2Assumption DEF Slots
<1>4. \A o \in Slots : free_list[o] = IF o = top THEN <<0>> ELSE <<>>
  BY DEF Init, OneChunkRegion
<1>5. FreeChunks = {<<0, top>>}
  <2>1. \A o \in Slots : ElemsOf(free_list[o]) = IF o = top THEN {0} ELSE {}
    BY <1>4 DEF ElemsOf
  <2> QED BY <1>3, <2>1 DEF FreeChunks, ListedAt
<1>6. InHand = {} /\ allocated = {}
  BY DEF Init, InHand, NoOp
<1>7. Chunks = {<<0, top>>}
  BY <1>5, <1>6 DEF Chunks
<1>8. NoOverlap
  <2>1. \A o \in Slots : NoRepeats(free_list[o])
    BY <1>4 DEF NoRepeats
  <2> QED BY <2>1, <1>5, <1>6, <1>7 DEF NoOverlap, PairwiseDisjoint
<1>9. Covers
  <2>1. block_num = Pow2[top] /\ Pow2[top] \in Nat
    BY <1>3, Pow2Type DEF OneChunkRegion
  <2>2. \A b \in Blocks : b \in Span(<<0, top>>)
    BY <2>1 DEF Blocks, Span
  <2> QED BY <1>7, <2>1, <2>2 DEF Covers, CoverRegion
<1> QED BY <1>1, <1>2, <1>8, <1>9 DEF IInv

\* A call that moves a chunk between lists, loop and clients keeps the tiling.
LEMMA SameChunks ==
  ASSUME IInv, Chunks' = Chunks PROVE PairwiseDisjoint(Chunks') /\ Covers'
<1>1. CoverRegion(Chunks')
  BY DEF IInv, Covers
<1> QED BY <1>1 DEF IInv, NoOverlap, Covers

\* Taking the head of the first suitable list keeps the invariant.
LEMMA AllocFoundIInv ==
  ASSUME OneChunkRegion, IInv, NEW n \in 1..MaxRequest, NEW order \in DOMAIN Pow2,
         NEW found \in order..max_order, AllocFound(n, order, found)
  PROVE  IInv' /\ Chunks' = Chunks /\ FreeChunks' \subseteq FreeChunks
<1>0. /\ TypeOK /\ LoopOrders /\ op = NoOp
      /\ order \in 0..(MAX_ORDER + 1) /\ found \in Slots /\ order <= found
      /\ found <= max_order /\ found \in 0..MAX_ORDER /\ found < MAX_ORDER
  <2>1. max_order < MAX_ORDER /\ TypeOK /\ LoopOrders /\ op = NoOp
    BY DEF OneChunkRegion, IInv, AllocFound
  <2> QED BY <2>1, OrderFacts DEF Slots
<1> DEFINE b == Head(free_list[found])
<1>1. free_list[found] # <<>> /\ free_list[found] \in Seq(Nat) /\ NoRepeats(free_list[found])
  BY <1>0 DEF AllocFound, HasHead, TypeOK, IInv, NoOverlap
<1>2. /\ Tail(free_list[found]) \in Seq(Nat)
      /\ b \in ElemsOf(free_list[found])
      /\ ElemsOf(Tail(free_list[found])) = ElemsOf(free_list[found]) \ {b}
      /\ NoRepeats(Tail(free_list[found]))
      /\ b \in Nat
  BY <1>1, TailElems, SMTT(30)
<1> HIDE DEF b
<1>3. /\ op' = [pc |-> "split", order |-> order, found |-> found, block |-> b]
      /\ free_list' = [free_list EXCEPT ![found] = Tail(free_list[found])]
      /\ memory_start' = memory_start /\ free_blocks' = free_blocks
      /\ allocated' = allocated
  BY <1>0 DEF AllocFound, HeadOf, TakeHead, b
<1>4. /\ free_list' \in [Slots -> Seq(Nat)]
      /\ \A p \in Slots : NoRepeats(free_list'[p])
      /\ FreeChunks' = FreeChunks \ {<<b, found>>}
      /\ <<b, found>> \in FreeChunks
  BY <1>0, <1>2, <1>3, DropChunk, Zenon DEF IInv, NoOverlap, TypeOK
<1>5. InHand = {} /\ InHand' = {<<b, found>>}
  BY <1>0, <1>3 DEF InHand, NoOp
<1>6. Chunks' = Chunks
  BY <1>3, <1>4, <1>5, Zenon DEF Chunks
<1>7. NoOverlap'
  BY <1>3, <1>4, <1>5, <1>6, SameChunks, Zenon DEF NoOverlap, IInv
<1>8. TypeOK'
  BY <1>0, <1>2, <1>3, <1>4, Pow2Assumption, Zenon DEF TypeOK
<1>9. LoopOrders'
  BY <1>0, <1>3 DEF LoopOrders
<1> QED BY <1>4, <1>6, <1>7, <1>8, <1>9, SameChunks DEF IInv

\* One iteration of the split loop keeps the invariant.
LEMMA SplitStepIInv ==
  ASSUME OneChunkRegion, IInv, SplitStep
  PROVE  LET f == op.found
             lower == <<op.block, f - 1>>
             upper == <<op.block + Pow2[f - 1], f - 1>>
         IN  /\ IInv' /\ lower \notin FreeChunks
             /\ Chunks' = (Chunks \ {<<op.block, f>>}) \cup {lower, upper}
             /\ FreeChunks' = FreeChunks \cup {upper}
<1> DEFINE f == op.found
           b == op.block
           lower == <<b, f - 1>>
           upper == <<b + Pow2[f - 1], f - 1>>
<1>0. /\ TypeOK /\ LoopOrders /\ op.pc = "split" /\ op.found > op.order
      /\ f \in 1..MAX_ORDER /\ f - 1 \in Slots /\ f <= max_order
      /\ b \in Nat /\ op.order \in Nat /\ f - 1 \in 0..MAX_ORDER
  <2>1. TypeOK /\ LoopOrders /\ op.pc = "split" /\ op.found > op.order /\ op.found <= max_order
    BY DEF IInv, SplitStep, LoopOrders
  <2>2. op.order \in Nat /\ op.found \in 0..MAX_ORDER /\ op.block \in Nat
    BY <2>1, OrderFacts DEF TypeOK
  <2> QED BY <2>1, <2>2, OrderFacts DEF Slots
<1>1. b + Pow2[f - 1] \in Nat
  BY <1>0, Pow2Type
<1>2. InHand = {<<b, f>>}
  BY <1>0 DEF InHand
<1>3. /\ PairwiseDisjoint((Chunks \ {<<b, f>>}) \cup {lower, upper})
      /\ CoverRegion((Chunks \ {<<b, f>>}) \cup {lower, upper})
      /\ lower # upper /\ lower \notin Chunks /\ upper \notin Chunks
  <2>1. Chunks \in SUBSET ChunkType /\ <<b, f>> \in Chunks
    BY <1>0, <1>2, ChunksType DEF Chunks
  <2>2. PairwiseDisjoint(Chunks) /\ CoverRegion(Chunks)
    BY DEF IInv, NoOverlap, Covers
  <2> QED BY <1>0, <2>1, <2>2, SplitTiles, Zenon
<1>4. /\ op' = [op EXCEPT !.found = f - 1]
      /\ free_list' = [free_list EXCEPT ![f - 1] = add_to_list(@, b + Pow2[f - 1])]
      /\ UNCHANGED <<free_blocks, memory_start, allocated>>
  BY DEF SplitStep
<1>5. InHand' = {lower}
  BY <1>0, <1>4 DEF InHand, TypeOK
<1>6. /\ free_list' \in [Slots -> Seq(Nat)]
      /\ \A p \in Slots : NoRepeats(free_list'[p])
      /\ FreeChunks' = FreeChunks \cup {upper}
  <2>1. upper \notin FreeChunks
    BY <1>3 DEF Chunks
  <2> QED BY <1>0, <1>1, <1>4, <2>1, PushChunk, Zenon DEF IInv, NoOverlap, TypeOK
<1>7. <<b, f>> \notin FreeChunks \cup allocated /\ Chunks = FreeChunks \cup allocated \cup {<<b, f>>}
  BY <1>2 DEF IInv, NoOverlap, Chunks
<1>8. Chunks' = (Chunks \ {<<b, f>>}) \cup {lower, upper}
  BY <1>4, <1>5, <1>6, <1>7, ZenonT(30) DEF Chunks
<1>9. NoOverlap' /\ Covers'
  <2>1. lower \notin FreeChunks \cup {upper} /\ lower \notin allocated /\ upper \notin allocated
    BY <1>3 DEF Chunks
  <2>2. FreeChunks \cap allocated = {}
    BY DEF IInv, NoOverlap
  <2> QED BY <1>3, <1>4, <1>5, <1>6, <1>8, <2>1, <2>2, ZenonT(30) DEF NoOverlap, Covers
<1>10. TypeOK'
  <2>1. op' \in [pc : {"idle", "split", "merge", "failed"},
                 order : DOMAIN Pow2, found : 0..MAX_ORDER, block : Nat]
    BY <1>0, <1>4, Zenon DEF TypeOK
  <2> QED BY <1>0, <1>4, <1>6, <2>1, SMTT(30) DEF TypeOK
<1>11. LoopOrders'
  <2>1. op'.found = f - 1 /\ op'.order = op.order
    BY <1>0, <1>4 DEF TypeOK
  <2>2. f - 1 <= max_order /\ op.order <= f - 1
    BY <1>0, OrderFacts
  <2> QED BY <1>0, <1>4, <2>1, <2>2 DEF LoopOrders
<1>12. lower \notin FreeChunks
  BY <1>3 DEF Chunks
<1> QED BY <1>6, <1>8, <1>9, <1>10, <1>11, <1>12, SMTT(30) DEF IInv

\* Returning the chunk to the client keeps the invariant.
LEMMA AllocReturnIInv ==
  ASSUME IInv, AllocReturn
  PROVE  IInv' /\ Chunks' = Chunks /\ FreeChunks' = FreeChunks
<1> DEFINE c == <<op.block, op.order>>
<1>0. /\ TypeOK /\ LoopOrders /\ op.pc = "split" /\ op.found = op.order
      /\ allocated' = allocated \cup {c} /\ op' = NoOp
      /\ free_blocks' = free_blocks - Pow2[op.order]
      /\ UNCHANGED <<free_list, memory_start>>
  BY DEF IInv, AllocReturn
<1>1. op.order \in 0..MAX_ORDER /\ op.block \in Nat /\ op.order <= max_order
  BY <1>0 DEF TypeOK, LoopOrders
<1>2. InHand = {c} /\ InHand' = {} /\ FreeChunks' = FreeChunks
  <2>1. InHand = {c}
    BY <1>0 DEF InHand
  <2>2. InHand' = {}
    BY <1>0 DEF InHand, NoOp
  <2>3. FreeChunks' = FreeChunks
    BY <1>0 DEF FreeChunks, ListedAt
  <2> QED BY <2>1, <2>2, <2>3
<1>3. Chunks' = Chunks
  BY <1>0, <1>2 DEF Chunks
<1>4. NoOverlap'
  BY <1>0, <1>2, <1>3, SameChunks DEF IInv, NoOverlap
<1>5. TypeOK'
  <2>1. Pow2[op.order] \in Nat
    BY <1>1, Pow2Type
  <2>2. op' \in [pc : {"idle", "split", "merge", "failed"},
                 order : DOMAIN Pow2, found : 0..MAX_ORDER, block : Nat]
    BY <1>0, OrderFacts, SMTT(30) DEF NoOp
  <2> QED BY <1>0, <1>1, <2>1, <2>2, SMTT(30) DEF TypeOK
<1>6. LoopOrders'
  BY <1>0, <1>1, OrderFacts DEF LoopOrders, NoOp
<1> QED BY <1>2, <1>3, <1>4, <1>5, <1>6, SameChunks DEF IInv

\* Refusing a request changes nothing but the call itself.
LEMMA NullIInv ==
  ASSUME IInv, ReturnNull \/ \E n \in 1..MaxRequest, order \in DOMAIN Pow2 : AllocNone(n, order)
  PROVE  IInv' /\ Chunks' = Chunks /\ FreeChunks' = FreeChunks
<1>1. /\ UNCHANGED <<free_list, free_blocks, memory_start, allocated>>
      /\ op.pc \in {"idle", "failed"} /\ op'.pc \in {"idle", "failed"}
      /\ op'.found = 0
      /\ op' \in [pc : {"idle", "split", "merge", "failed"},
                  order : DOMAIN Pow2, found : 0..MAX_ORDER, block : Nat]
  <2>1. CASE ReturnNull
    BY <2>1, OrderFacts DEF ReturnNull, NoOp
  <2>2. CASE \E n \in 1..MaxRequest, order \in DOMAIN Pow2 : AllocNone(n, order)
    <3>1. PICK n \in 1..MaxRequest, order \in DOMAIN Pow2 : AllocNone(n, order)
      BY <2>2
    <3>2. op' = [pc |-> "failed", order |-> order, found |-> 0, block |-> 0]
      BY <3>1, Zenon DEF AllocNone, NoOp
    <3>3. 0 \in 0..MAX_ORDER
      BY OrderFacts
    <3>4. op.pc = "idle" /\ UNCHANGED <<free_list, free_blocks, memory_start, allocated>>
      BY <3>1, Zenon DEF AllocNone, NoOp
    <3>5. op' \in [pc : {"idle", "split", "merge", "failed"},
                   order : DOMAIN Pow2, found : 0..MAX_ORDER, block : Nat]
      BY <3>2, <3>3
    <3>6. op'.pc = "failed" /\ op'.found = 0
      BY <3>2
    <3> QED BY <3>4, <3>5, <3>6
  <2> QED BY <2>1, <2>2
<1>2. FreeChunks' = FreeChunks /\ InHand = {} /\ InHand' = {}
  BY <1>1 DEF InHand, FreeChunks, ListedAt
<1>3. Chunks' = Chunks
  BY <1>1, <1>2 DEF Chunks
<1>4. NoOverlap'
  BY <1>1, <1>2, <1>3, SameChunks DEF IInv, NoOverlap
<1>5. TypeOK' /\ LoopOrders'
  BY <1>1, OrderFacts DEF IInv, TypeOK, LoopOrders
<1> QED BY <1>2, <1>3, <1>4, <1>5, SameChunks DEF IInv

\* Entering buddy_free takes the chunk from its client.
LEMMA FreeStartIInv ==
  ASSUME IInv, NEW c \in allocated, FreeStart(c)
  PROVE  IInv' /\ Chunks' = Chunks /\ FreeChunks' = FreeChunks
<1>0. /\ TypeOK /\ LoopOrders /\ op = NoOp
      /\ allocated' = allocated \ {c}
      /\ op' = [pc |-> "merge", order |-> c[2], found |-> c[2], block |-> c[1]]
      /\ UNCHANGED <<free_list, free_blocks, memory_start>>
  BY DEF IInv, FreeStart
<1>1. c[1] \in Nat /\ c[2] \in 0..MAX_ORDER /\ c = <<c[1], c[2]>> /\ c[2] <= max_order
  BY <1>0 DEF TypeOK, LoopOrders
<1>2. InHand = {} /\ InHand' = {c} /\ FreeChunks' = FreeChunks
  BY <1>0, <1>1 DEF InHand, NoOp, FreeChunks, ListedAt
<1>3. Chunks' = Chunks
  BY <1>0, <1>2 DEF Chunks
<1>4. NoOverlap'
  BY <1>0, <1>2, <1>3, SameChunks, SMTT(30) DEF IInv, NoOverlap
<1>5. TypeOK'
  <2>1. c[2] \in DOMAIN Pow2
    BY <1>1, OrderFacts
  <2> QED BY <1>0, <1>1, <2>1 DEF TypeOK
<1>6. LoopOrders'
  BY <1>0, <1>1 DEF LoopOrders
<1> QED BY <1>2, <1>3, <1>4, <1>5, <1>6, SameChunks DEF IInv

\* One iteration of the merge loop keeps the invariant.
LEMMA MergeStepIInv ==
  ASSUME OneChunkRegion, IInv, MergeStep
  PROVE  /\ IInv' /\ FreeChunks' \subseteq FreeChunks
         /\ Chunks' \subseteq Chunks \cup {<<get_parent(op.block, op.found), op.found + 1>>}
<1> DEFINE f == op.found
           b == op.block
           y == get_buddy(b, f)
           p == get_parent(b, f)
<1>0. /\ TypeOK /\ LoopOrders /\ op.pc = "merge" /\ f < max_order
      /\ y \in ElemsOf(free_list[f])
      /\ free_list' = [free_list EXCEPT ![f] = remove_from_list(free_list[f], y)]
      /\ op' = [op EXCEPT !.block = p, !.found = f + 1]
      /\ UNCHANGED <<free_blocks, memory_start, allocated>>
  BY DEF IInv, MergeStep, is_block_free
<1>1. b \in Nat /\ f \in 0..MAX_ORDER
  BY <1>0 DEF TypeOK
<1>2. f \in Slots /\ f + 1 \in 0..MAX_ORDER /\ f \in 0..(MAX_ORDER - 1) /\ f + 1 <= max_order
  BY <1>0, <1>1, OrderFacts DEF Slots, OneChunkRegion
<1>3. (y = b + Pow2[f] /\ p = b) \/ (b = y + Pow2[f] /\ p = y)
  BY <1>1, BuddyAdjacent, Zenon
<1> HIDE DEF f, b, y, p
<1>4. free_list[f] \in Seq(Nat) /\ NoRepeats(free_list[f])
  BY <1>0, <1>2 DEF TypeOK, IInv, NoOverlap
<1>5. y \in Nat /\ p \in Nat
  BY <1>0, <1>1, <1>3, <1>4 DEF ElemsOf
<1>6. /\ free_list' \in [Slots -> Seq(Nat)]
      /\ \A o \in Slots : NoRepeats(free_list'[o])
      /\ FreeChunks' = FreeChunks \ {<<y, f>>}
      /\ <<y, f>> \in FreeChunks
  BY <1>0, <1>2, <1>4, RemoveElems, DropChunk, Zenon DEF TypeOK, IInv, NoOverlap
<1>7. InHand = {<<b, f>>}
  BY <1>0 DEF InHand, b, f
<1>8. InHand' = {<<p, f + 1>>}
  BY <1>0 DEF InHand, TypeOK
<1> DEFINE T == (Chunks \ {<<b, f>>, <<y, f>>}) \cup {<<p, f + 1>>}
<1>9. PairwiseDisjoint(T) /\ CoverRegion(T) /\ <<p, f + 1>> \notin Chunks
  <2>1. Chunks \in SUBSET ChunkType /\ <<b, f>> \in Chunks /\ <<y, f>> \in Chunks
    BY <1>0, <1>6, <1>7, ChunksType DEF Chunks
  <2>2. PairwiseDisjoint(Chunks) /\ CoverRegion(Chunks)
    BY DEF IInv, NoOverlap, Covers
  <2>3. CASE y = b + Pow2[f] /\ p = b
    BY <1>1, <1>2, <1>5, <2>1, <2>2, <2>3, MergeTiles, Zenon
  <2>4. CASE b = y + Pow2[f] /\ p = y
    <3>1. T = (Chunks \ {<<y, f>>, <<b, f>>}) \cup {<<y, f + 1>>}
      BY <2>4
    <3> QED BY <1>1, <1>2, <1>5, <2>1, <2>2, <2>4, <3>1, MergeTiles, Zenon
  <2> QED BY <1>3, <2>3, <2>4
<1>10. /\ Chunks = FreeChunks \cup allocated \cup {<<b, f>>}
       /\ FreeChunks \cap allocated = {}
       /\ <<b, f>> \notin FreeChunks \cup allocated
  BY <1>7 DEF IInv, NoOverlap, Chunks
<1>11. Chunks' = T
  BY <1>0, <1>6, <1>8, <1>10, Zenon DEF Chunks
<1>12. NoOverlap' /\ Covers'
  <2>1. <<p, f + 1>> \notin FreeChunks \cup allocated
    BY <1>9, <1>10
  <2> QED BY <1>0, <1>6, <1>8, <1>9, <1>10, <1>11, <2>1, Zenon DEF NoOverlap, Covers
<1>13. TypeOK'
  <2>1. op' \in [pc : {"idle", "split", "merge", "failed"},
                 order : DOMAIN Pow2, found : 0..MAX_ORDER, block : Nat]
    BY <1>0, <1>2, <1>5, Zenon DEF TypeOK
  <2> QED BY <1>0, <1>6, <2>1 DEF TypeOK
<1>14. LoopOrders'
  <2>1. op'.found = f + 1 /\ op'.pc = "merge"
    BY <1>0 DEF TypeOK
  <2> QED BY <1>0, <1>2, <2>1 DEF LoopOrders
<1> QED BY <1>6, <1>11, <1>12, <1>13, <1>14 DEF IInv, p, b, f

\* Listing the merged chunk ends buddy_free.
LEMMA FreeReturnIInv ==
  ASSUME OneChunkRegion, IInv, FreeReturn
  PROVE  IInv' /\ Chunks' = Chunks /\ FreeChunks' = FreeChunks \cup {<<op.block, op.found>>}
<1> DEFINE c == <<op.block, op.found>>
<1>0. /\ TypeOK /\ LoopOrders /\ op.pc = "merge" /\ op' = NoOp
      /\ free_list' = [free_list EXCEPT ![op.found] = add_to_list(@, op.block)]
      /\ free_blocks' = free_blocks + Pow2[op.order]
      /\ UNCHANGED <<memory_start, allocated>>
  BY DEF IInv, FreeReturn
<1>1. op.block \in Nat /\ op.found \in 0..MAX_ORDER /\ op.found <= max_order
      /\ op.order \in DOMAIN Pow2
  BY <1>0 DEF TypeOK, LoopOrders
<1>2. op.found \in Slots
  BY <1>1, OrderFacts DEF Slots, OneChunkRegion
<1>3. InHand = {c} /\ InHand' = {}
  BY <1>0 DEF InHand, NoOp
<1>4. c \notin FreeChunks \cup allocated
  BY <1>3 DEF IInv, NoOverlap
<1>5. /\ free_list' \in [Slots -> Seq(Nat)]
      /\ \A o \in Slots : NoRepeats(free_list'[o])
      /\ FreeChunks' = FreeChunks \cup {c}
  BY <1>0, <1>1, <1>2, <1>4, PushChunk, Zenon DEF IInv, NoOverlap, TypeOK
<1>6. Chunks' = Chunks
  BY <1>0, <1>3, <1>5, SMTT(30) DEF Chunks
<1>7. NoOverlap'
  BY <1>0, <1>3, <1>4, <1>5, <1>6, SameChunks DEF IInv, NoOverlap
<1>8. TypeOK'
  <2>1. Pow2[op.order] \in Nat
    BY <1>1, Pow2Assumption, SMTT(30)
  <2>2. op' \in [pc : {"idle", "split", "merge", "failed"},
                 order : DOMAIN Pow2, found : 0..MAX_ORDER, block : Nat]
    BY <1>0, OrderFacts DEF NoOp
  <2> QED BY <1>0, <1>5, <2>1, <2>2, SMTT(20) DEF TypeOK
<1>9. LoopOrders'
  BY <1>0, OrderFacts DEF LoopOrders, NoOp
<1> QED BY <1>5, <1>6, <1>7, <1>8, <1>9, SameChunks DEF IInv

-----------------------------------------------------------------------------
\* Every step keeps the invariant.
LEMMA StepIInv ==
  ASSUME OneChunkRegion, IInv, [Next]_vars PROVE IInv'
<1>1. ASSUME NEW n \in 1..MaxRequest, NEW order \in DOMAIN Pow2,
             NEW found \in order..max_order, AllocFound(n, order, found)
      PROVE  IInv'
  BY <1>1, AllocFoundIInv
<1>2. ASSUME NEW n \in 1..MaxRequest, NEW order \in DOMAIN Pow2, AllocNone(n, order)
      PROVE  IInv'
  BY <1>2, NullIInv
<1>3. ASSUME NEW c \in allocated, FreeStart(c) PROVE IInv'
  BY <1>3, FreeStartIInv
<1>4. CASE SplitStep
  BY <1>4, SplitStepIInv
<1>5. CASE AllocReturn
  BY <1>5, AllocReturnIInv
<1>6. CASE ReturnNull
  BY <1>6, NullIInv
<1>7. CASE MergeStep
  BY <1>7, MergeStepIInv
<1>8. CASE FreeReturn
  BY <1>8, FreeReturnIInv
<1>9. CASE UNCHANGED vars
  <2>1. UNCHANGED <<InHand, FreeChunks, allocated>>
    BY <1>9 DEF vars, InHand, FreeChunks, ListedAt
  <2>2. UNCHANGED Chunks
    BY <2>1 DEF Chunks
  <2>3. UNCHANGED <<TypeOK, LoopOrders>>
    BY <1>9 DEF vars, TypeOK, LoopOrders
  <2>4. UNCHANGED <<NoOverlap, Covers>>
    BY <1>9, <2>1, <2>2 DEF vars, NoOverlap, Covers
  <2> QED BY <2>3, <2>4 DEF IInv
<1> QED BY <1>1, <1>2, <1>3, <1>4, <1>5, <1>6, <1>7, <1>8, <1>9 DEF Next

-----------------------------------------------------------------------------
(* The count of free blocks.                                               *)

\* The blocks in none of the chunks of S.
Outside(S) == {b \in Blocks : \A c \in S : b \notin Span(c)}

\* A chunk has as many blocks as its order says.
LEMMA SpanSize ==
  ASSUME NEW c \in ChunkType
  PROVE  IsFiniteSet(Span(c)) /\ Cardinality(Span(c)) = Pow2[c[2]]
<1>1. c[1] \in Nat /\ Pow2[c[2]] \in Nat \ {0}
  BY Pow2Type DEF ChunkType
<1> DEFINE a == c[1]
           z == c[1] + Pow2[c[2]] - 1
<1>2. a \in Int /\ z \in Int /\ ~(a > z) /\ z - a + 1 = Pow2[c[2]]
  BY <1>1
<1>3. Span(c) = a..z
  BY DEF Span
<1> HIDE DEF a, z
<1> QED BY <1>2, <1>3, FS_Interval

\* Adding a chunk of the region that is disjoint from those of S takes its blocks
\* from the ones outside S.
LEMMA OutsideShrinks ==
  ASSUME NEW S \in SUBSET ChunkType, NEW c \in ChunkType, c[1] + Pow2[c[2]] <= block_num,
         \A d \in S : Disjoint(c, d)
  PROVE  /\ Cardinality(Outside(S)) \in Nat
         /\ Cardinality(Outside(S \cup {c})) = Cardinality(Outside(S)) - Pow2[c[2]]
<1>1. c[1] \in Nat /\ Pow2[c[2]] \in Nat \ {0} /\ block_num \in Nat \ {0}
  BY Pow2Type, BlockNumAssumption DEF ChunkType
<1>2. \A d \in S : d[1] \in Nat /\ Pow2[d[2]] \in Nat \ {0}
  BY Pow2Type DEF ChunkType
<1>3. Span(c) \subseteq Outside(S)
  <2> SUFFICES ASSUME NEW b \in Span(c) PROVE b \in Outside(S)
    OBVIOUS
  <2>1. b \in Int /\ c[1] <= b /\ b < c[1] + Pow2[c[2]] /\ b \in Blocks
    BY <1>1 DEF Span, Blocks
  <2>2. ASSUME NEW d \in S PROVE b \notin Span(d)
    BY <1>1, <1>2, <2>1 DEF Disjoint, Span
  <2> QED BY <2>1, <2>2 DEF Outside
<1>4. Outside(S \cup {c}) = Outside(S) \ Span(c) /\ Outside(S) \cap Span(c) = Span(c)
  BY <1>3 DEF Outside
<1>5. IsFiniteSet(Outside(S))
  <2>1. IsFiniteSet(Blocks)
    BY <1>1, FS_Interval DEF Blocks
  <2> QED BY <2>1, FS_Subset DEF Outside
<1>6. Cardinality(Outside(S)) \in Nat
  BY <1>5, FS_CardinalityType
<1>7. Cardinality(Outside(S) \ Span(c)) = Cardinality(Outside(S)) - Cardinality(Outside(S) \cap Span(c))
  BY <1>5, FS_Difference, Zenon
<1> QED BY <1>4, <1>6, <1>7, SpanSize, Zenon

\* buddy_init counts the whole region.
LEMMA InitCounted ==
  ASSUME Init PROVE FreeBlocksExact
<1>1. block_num \in Nat \ {0} /\ 0 \in Int /\ block_num - 1 \in Int
  BY BlockNumAssumption
<1>2. Cardinality(Blocks) = block_num
  BY <1>1, FS_Interval DEF Blocks
<1>3. {b \in Blocks : \A c \in allocated : b \notin Span(c)} = Blocks
  BY DEF Init
<1>4. free_blocks = block_num /\ (IF op.pc = "merge" THEN Pow2[op.order] ELSE 0) = 0
  BY DEF Init, NoOp
<1>5. free_blocks + 0 = block_num
  BY <1>1, <1>4
<1> QED BY <1>2, <1>3, <1>4, <1>5, Zenon DEF FreeBlocksExact

\* Every step keeps the count: buddy_alloc subtracts the blocks of the chunk it
\* returns, and buddy_free, when it has merged, adds those of the chunk it was given.
LEMMA StepCounted ==
  ASSUME IInv, FreeBlocksExact, [Next]_vars PROVE FreeBlocksExact'
<1> DEFINE owed == IF op.pc = "merge" THEN Pow2[op.order] ELSE 0
<1>1. free_blocks + owed = Cardinality(Outside(allocated))
  BY DEF FreeBlocksExact, Outside
<1>2. SUFFICES free_blocks' + owed' = Cardinality(Outside(allocated'))
  BY DEF FreeBlocksExact, Outside, Blocks, Span
<1>3. TypeOK /\ allocated \in SUBSET ChunkType /\ free_blocks \in Int
  BY DEF IInv, TypeOK, ChunkType
<1>4. CASE AllocReturn
  <2> DEFINE c == <<op.block, op.order>>
  <2>1. /\ op.pc = "split" /\ op.found = op.order /\ op'.pc = "idle"
        /\ free_blocks' = free_blocks - Pow2[op.order] /\ allocated' = allocated \cup {c}
    BY <1>4 DEF AllocReturn, NoOp
  <2>2. c \in ChunkType /\ InHand = {c} /\ c[1] = op.block /\ c[2] = op.order
    BY <1>3, <2>1 DEF TypeOK, ChunkType, InHand
  <2>3. c \in Chunks /\ c \notin allocated /\ allocated \subseteq Chunks
    BY <2>2 DEF IInv, NoOverlap, Chunks
  <2>4. c[1] + Pow2[c[2]] <= block_num /\ \A d \in allocated : Disjoint(c, d)
    BY <2>3 DEF IInv, NoOverlap, PairwiseDisjoint, Covers, CoverRegion
  <2>5. Cardinality(Outside(allocated')) = Cardinality(Outside(allocated)) - Pow2[c[2]]
    BY <1>3, <2>1, <2>2, <2>4, OutsideShrinks
  <2>6. Pow2[op.order] \in Nat
    BY <2>2, Pow2Type DEF ChunkType
  <2> QED BY <1>1, <1>3, <2>1, <2>2, <2>5, <2>6, SMTT(30)
<1>5. ASSUME NEW c \in allocated, FreeStart(c) PROVE free_blocks' + owed' = Cardinality(Outside(allocated'))
  <2>1. /\ op.pc = "idle" /\ op'.pc = "merge" /\ op'.order = c[2]
        /\ free_blocks' = free_blocks /\ allocated' = allocated \ {c}
    BY <1>5 DEF FreeStart, NoOp
  <2>2. allocated' \in SUBSET ChunkType /\ c \in ChunkType /\ allocated' \cup {c} = allocated
    BY <1>3, <2>1
  <2>3. c \in Chunks /\ allocated \subseteq Chunks
    BY DEF Chunks
  <2>4. c[1] + Pow2[c[2]] <= block_num /\ \A d \in allocated' : Disjoint(c, d)
    BY <2>1, <2>3 DEF IInv, NoOverlap, PairwiseDisjoint, Covers, CoverRegion
  <2>5. /\ Cardinality(Outside(allocated')) \in Nat
        /\ Cardinality(Outside(allocated)) = Cardinality(Outside(allocated')) - Pow2[c[2]]
    BY <2>2, <2>4, OutsideShrinks, SMTT(30)
  <2>6. Pow2[c[2]] \in Nat
    BY <2>2, Pow2Type DEF ChunkType
  <2> QED BY <1>1, <1>3, <2>1, <2>5, <2>6
<1>6. CASE FreeReturn
  BY <1>1, <1>6 DEF FreeReturn, NoOp
<1>7. CASE ~AllocReturn /\ ~FreeReturn /\ ~\E c \in allocated : FreeStart(c)
  <2>1. allocated' = allocated /\ free_blocks' = free_blocks
    BY <1>7, Zenon DEF Next, vars, AllocFound, AllocNone, SplitStep, ReturnNull, MergeStep
  <2>2. owed' = owed
    <3>1. CASE SplitStep
      BY <1>3, <3>1 DEF SplitStep, TypeOK
    <3>2. CASE MergeStep
      BY <1>3, <3>2 DEF MergeStep, TypeOK
    <3>3. CASE ReturnNull
      BY <3>3 DEF ReturnNull, NoOp
    <3>4. ASSUME NEW n \in 1..MaxRequest, NEW order \in DOMAIN Pow2, AllocNone(n, order)
          PROVE  owed' = owed
      BY <3>4 DEF AllocNone, NoOp
    <3>5. ASSUME NEW n \in 1..MaxRequest, NEW order \in DOMAIN Pow2,
                 NEW found \in order..max_order, AllocFound(n, order, found)
          PROVE  owed' = owed
      BY <3>5 DEF AllocFound, NoOp
    <3>6. CASE UNCHANGED vars
      BY <3>6 DEF vars
    <3> QED BY <1>7, <3>1, <3>2, <3>3, <3>4, <3>5, <3>6 DEF Next
  <2> QED BY <1>1, <2>1, <2>2
<1> QED BY <1>4, <1>5, <1>6, <1>7

-----------------------------------------------------------------------------
(* Chunks start at a multiple of their size, and buddies never lie listed  *)
(* side by side.                                                           *)

Aligned(x, o) == \E k \in Nat : x = k * Pow2[o]

\* Multiples of a number: quotient and remainder, and no two within its reach.
LEMMA Multiple ==
  ASSUME NEW k \in Nat, NEW P \in Nat \ {0}
  PROVE  (k * P) \div P = k /\ (k * P) % P = 0
OBVIOUS

\* What leaves no remainder is a multiple.
LEMMA NoRemainder ==
  ASSUME NEW x \in Nat, NEW P \in Nat \ {0}, x % P = 0
  PROVE  \E k \in Nat : x = k * P
<1>1. x = P * (x \div P) + (x % P) /\ x \div P \in Int
  OBVIOUS
<1>2. x \div P \in Nat
  BY <1>1
<1> QED BY <1>1, <1>2

\* Two runs of one size at multiples of it are the same or do not meet.
LEMMA SameCell ==
  ASSUME NEW j \in Nat, NEW k \in Nat, NEW P \in Nat \ {0}, j * P < k * P + P, k * P < j * P + P
  PROVE  j = k
<1>1. j <= k
  <2> SUFFICES ASSUME j >= k + 1 PROVE FALSE
    OBVIOUS
  <2>1. j * P >= (k + 1) * P
    OBVIOUS
  <2> QED BY <2>1
<1>2. k <= j
  <2> SUFFICES ASSUME k >= j + 1 PROVE FALSE
    OBVIOUS
  <2>1. k * P >= (j + 1) * P
    OBVIOUS
  <2> QED BY <2>1
<1> QED BY <1>1, <1>2

\* get_buddy and get_parent of an even and of an odd multiple of the size.
LEMMA BuddyOfMultiple ==
  ASSUME NEW o \in 0..MAX_ORDER, NEW j \in Nat, NEW x \in Nat
  PROVE  /\ x = (2 * j) * Pow2[o] => get_buddy(x, o) = x + Pow2[o] /\ get_parent(x, o) = x
         /\ x = (2 * j + 1) * Pow2[o] => get_buddy(x, o) = x - Pow2[o] /\ get_parent(x, o) = x - Pow2[o]
<1> DEFINE P == Pow2[o]
<1>1. P \in Nat \ {0}
  BY Pow2Type
<1> HIDE DEF P
<1>2. ((2 * j) * P) \div P = 2 * j /\ ((2 * j + 1) * P) \div P = 2 * j + 1
  <2>1. 2 * j \in Nat /\ 2 * j + 1 \in Nat
    OBVIOUS
  <2> QED BY <1>1, <2>1, Multiple
<1>3. (2 * j) % 2 = 0 /\ (2 * j + 1) % 2 = 1
  OBVIOUS
<1> QED BY <1>2, <1>3 DEF get_buddy, get_parent, BitSet, P

\* Every aligned block is the lower or the upper half of an aligned chunk of the
\* next order, which is where its parent starts; its buddy is the other half.
LEMMA Halves ==
  ASSUME NEW o \in 0..MAX_ORDER, NEW x \in Nat, Aligned(x, o)
  PROVE  LET y == get_buddy(x, o)
             p == get_parent(x, o)
         IN  /\ p \in Nat /\ y \in Nat /\ Aligned(p, o + 1) /\ Aligned(y, o)
             /\ get_buddy(y, o) = x
             /\ \/ x = p /\ y = p + Pow2[o]
                \/ y = p /\ x = p + Pow2[o]
<1> DEFINE P == Pow2[o]
<1>1. P \in Nat \ {0} /\ Pow2[o + 1] = 2 * P
  BY Pow2Type
<1>2. PICK k \in Nat : x = k * P
  BY DEF Aligned
<1>3. PICK j \in Nat : k = 2 * j \/ k = 2 * j + 1
  <2>1. k \div 2 \in Nat /\ (k = 2 * (k \div 2) \/ k = 2 * (k \div 2) + 1)
    OBVIOUS
  <2> QED BY <2>1
<1> HIDE DEF P
<1> DEFINE p == (2 * j) * P
           z == (2 * j + 1) * P
<1>4. p \in Nat /\ z \in Nat /\ z = p + P /\ p = j * (2 * P) /\ 2 * j \in Nat /\ 2 * j + 1 \in Nat
  BY <1>1
<1>5. Aligned(p, o + 1) /\ Aligned(p, o) /\ Aligned(z, o)
  BY <1>1, <1>4 DEF Aligned, P
<1>6. get_buddy(p, o) = z /\ get_parent(p, o) = p /\ get_buddy(z, o) = p /\ get_parent(z, o) = p
  <2>1. /\ get_buddy(p, o) = p + P /\ get_parent(p, o) = p
        /\ get_buddy(z, o) = z - P /\ get_parent(z, o) = z - P
    BY <1>4, BuddyOfMultiple DEF P
  <2> QED BY <1>1, <1>4, <2>1
<1> HIDE DEF p, z
<1>7. CASE x = p
  BY <1>4, <1>5, <1>6, <1>7, SMTT(30) DEF P
<1>8. CASE x = z
  BY <1>4, <1>5, <1>6, <1>8, SMTT(30) DEF P
<1> QED BY <1>2, <1>3, <1>7, <1>8 DEF p, z

\* Some request is served by chunks of that order.
Asked(order) == \E n \in 1..MaxRequest : log2_ceil(n, order)

\* The rest of the inductive invariant: chunks lie at multiples of their size, two
\* buddies are never both listed, and a call in progress was asked for its order.
Shape ==
  /\ \A c \in Chunks : Aligned(c[1], c[2])
  /\ \A c \in FreeChunks : c[2] <= max_order
  /\ \A o \in 0..(max_order - 1), x \in Nat :
       <<x, o>> \in FreeChunks => <<get_buddy(x, o), o>> \notin FreeChunks
  /\ op.pc \in {"split", "failed"} => Asked(op.order)

\* The chunk of the whole region is aligned and alone.
LEMMA InitShape ==
  ASSUME OneChunkRegion, Init PROVE Shape
<1> DEFINE top == max_order - 1
<1>1. top \in Slots /\ top \in 0..MAX_ORDER /\ max_order \in Nat
  BY OrderFacts DEF Slots
<1>2. \A o \in Slots : free_list[o] = IF o = top THEN <<0>> ELSE <<>>
  BY DEF Init, OneChunkRegion
<1>3. FreeChunks = {<<0, top>>}
  <2>1. \A o \in Slots : ElemsOf(free_list[o]) = IF o = top THEN {0} ELSE {}
    BY <1>2 DEF ElemsOf
  <2> QED BY <1>1, <2>1 DEF FreeChunks, ListedAt
<1>4. Chunks = {<<0, top>>}
  BY <1>3 DEF Chunks, Init, InHand, NoOp
<1>5. Aligned(0, top)
  <2>1. 0 = 0 * Pow2[top]
    BY <1>1, Pow2Type
  <2> QED BY <2>1 DEF Aligned
<1>6. get_buddy(0, top) # 0
  BY <1>1, Pow2Type DEF get_buddy
<1>7. op.pc = "idle"
  BY DEF Init, NoOp
<1> HIDE DEF top
<1>8. ASSUME NEW o \in 0..(max_order - 1), NEW x \in Nat, <<x, o>> \in FreeChunks
      PROVE  <<get_buddy(x, o), o>> \notin FreeChunks
  BY <1>3, <1>6, <1>8
<1>9. top <= max_order
  BY <1>1 DEF top
<1> QED BY <1>3, <1>4, <1>5, <1>7, <1>8, <1>9 DEF Shape

\* A step that lists no chunk keeps the shape when the chunks it makes are aligned.
LEMMA ShapeStays ==
  ASSUME Shape, FreeChunks' \subseteq FreeChunks,
         \A c \in Chunks' \ Chunks : Aligned(c[1], c[2]),
         op'.pc \in {"split", "failed"} => Asked(op'.order)
  PROVE  Shape'
<1>1. \A c \in Chunks' : Aligned(c[1], c[2])
  BY DEF Shape
<1>2. \A c \in FreeChunks' : c[2] <= max_order
  BY DEF Shape
<1>3. \A o \in 0..(max_order - 1), x \in Nat :
        <<x, o>> \in FreeChunks' => <<get_buddy(x, o), o>> \notin FreeChunks'
  BY DEF Shape
<1> QED BY <1>1, <1>2, <1>3 DEF Shape, Aligned, get_buddy, BitSet, Asked, log2_ceil, max_order

\* A step that lists one chunk keeps it when the chunk's buddy is not listed.
LEMMA ShapeGrows ==
  ASSUME Shape, NEW x \in Nat, NEW o \in 0..MAX_ORDER, o <= max_order, Aligned(x, o),
         FreeChunks' = FreeChunks \cup {<<x, o>>}, Chunks \subseteq ChunkType, FreeChunks \subseteq Chunks,
         o < max_order => <<get_buddy(x, o), o>> \notin FreeChunks,
         \A c \in Chunks' \ Chunks : Aligned(c[1], c[2]),
         op'.pc \in {"split", "failed"} => Asked(op'.order)
  PROVE  Shape'
<1>1. \A c \in Chunks' : Aligned(c[1], c[2])
  BY DEF Shape
<1>2. \A c \in FreeChunks' : c[2] <= max_order
  BY DEF Shape
<1>3. ASSUME NEW q \in 0..(max_order - 1), NEW y \in Nat, <<y, q>> \in FreeChunks'
      PROVE  <<get_buddy(y, q), q>> \notin FreeChunks'
  <2>1. q \in 0..MAX_ORDER /\ q < max_order
    BY OrderFacts
  <2>2. Aligned(y, q)
    BY <1>3 DEF Shape
  <2>3. get_buddy(get_buddy(y, q), q) = y
    BY <2>1, <2>2, Halves
  <2>4. get_buddy(y, q) # y
    <3>1. Pow2[q] \in Nat \ {0}
      BY <2>1, Pow2Type
    <3> QED BY <3>1 DEF get_buddy
  <2>5. CASE <<y, q>> = <<x, o>>
    BY <2>1, <2>4, <2>5
  <2>6. CASE <<y, q>> # <<x, o>>
    <3>1. <<y, q>> \in FreeChunks
      BY <1>3, <2>6
    <3>2. <<get_buddy(y, q), q>> \notin FreeChunks
      BY <3>1 DEF Shape
    <3>3. <<get_buddy(y, q), q>> # <<x, o>>
      <4> SUFFICES ASSUME get_buddy(y, q) = x, q = o PROVE FALSE
        OBVIOUS
      <4>1. get_buddy(x, o) = y
        BY <2>3
      <4> QED BY <2>1, <3>1, <4>1
    <3> QED BY <3>2, <3>3
  <2> QED BY <2>5, <2>6
<1> QED BY <1>1, <1>2, <1>3 DEF Shape, Aligned, get_buddy, BitSet, Asked, log2_ceil, max_order

\* The invariant's parts are typed.
LEMMA OpType ==
  ASSUME TypeOK
  PROVE  op.block \in Nat /\ op.found \in 0..MAX_ORDER /\ op.order \in DOMAIN Pow2
BY DEF TypeOK

\* One iteration of the split loop keeps the shape.
LEMMA SplitStepShape ==
  ASSUME OneChunkRegion, IInv, Shape, SplitStep PROVE Shape'
<1> DEFINE f == op.found
           b == op.block
           P == Pow2[f - 1]
           upper == <<b + P, f - 1>>
<1>1. /\ IInv' /\ <<b, f - 1>> \notin FreeChunks
      /\ Chunks' = (Chunks \ {<<b, f>>}) \cup {<<b, f - 1>>, upper}
      /\ FreeChunks' = FreeChunks \cup {upper}
  BY SplitStepIInv
<1>2. /\ TypeOK /\ op.pc = "split" /\ op.found > op.order /\ f <= max_order
      /\ op' = [op EXCEPT !.found = f - 1] /\ b \in Nat
      /\ f \in 1..MAX_ORDER /\ f - 1 \in 0..MAX_ORDER /\ f - 1 <= max_order /\ (f - 1) + 1 = f
  <2>1. /\ TypeOK /\ op.pc = "split" /\ op.found > op.order /\ f <= max_order
        /\ op' = [op EXCEPT !.found = f - 1]
    BY DEF IInv, LoopOrders, SplitStep
  <2>2. op.order \in Nat /\ f \in 0..MAX_ORDER /\ b \in Nat
    BY <2>1, OpType, OrderFacts
  <2> QED BY <2>1, <2>2, OrderFacts
<1>3. P \in Nat \ {0} /\ Pow2[f] = 2 * P
  BY <1>2, Pow2Type
<1>4. Chunks \subseteq ChunkType /\ FreeChunks \subseteq Chunks /\ <<b, f>> \in Chunks
  BY <1>2, ChunksType DEF Chunks, InHand
<1>5. PICK k \in Nat : b = k * (2 * P)
  <2>1. Aligned(b, f)
    BY <1>4 DEF Shape
  <2> QED BY <1>3, <2>1 DEF Aligned
<1>6. op'.pc = "split" /\ op'.order = op.order
  BY <1>2 DEF TypeOK
<1> HIDE DEF f, b, P
<1>7. b = (2 * k) * P /\ b + P = (2 * k + 1) * P /\ 2 * k \in Nat /\ 2 * k + 1 \in Nat /\ b + P \in Nat
  BY <1>3, <1>5
<1>8. Aligned(b, f - 1) /\ Aligned(b + P, f - 1)
  BY <1>7 DEF Aligned, P
<1>9. get_buddy(b + P, f - 1) = b
  <2>1. get_buddy(b + P, f - 1) = (b + P) - P
    BY <1>2, <1>7, BuddyOfMultiple DEF P
  <2> QED BY <1>2, <1>3, <2>1
<1>10. Asked(op'.order)
  BY <1>2, <1>6 DEF Shape
<1>11. \A c \in Chunks' \ Chunks : Aligned(c[1], c[2])
  BY <1>1, <1>8
<1>12. <<get_buddy(b + P, f - 1), f - 1>> \notin FreeChunks
  BY <1>1, <1>9
<1> QED BY <1>1, <1>2, <1>4, <1>7, <1>8, <1>10, <1>11, <1>12, ShapeGrows

\* One iteration of the merge loop keeps the shape.
LEMMA MergeStepShape ==
  ASSUME OneChunkRegion, IInv, Shape, MergeStep PROVE Shape'
<1> DEFINE f == op.found
           b == op.block
           p == get_parent(b, f)
<1>1. FreeChunks' \subseteq FreeChunks /\ Chunks' \subseteq Chunks \cup {<<p, f + 1>>}
  BY MergeStepIInv
<1>2. TypeOK /\ op.pc = "merge" /\ op' = [op EXCEPT !.block = p, !.found = f + 1]
  BY DEF IInv, MergeStep
<1>3. b \in Nat /\ f \in 0..MAX_ORDER /\ op'.pc = "merge"
  BY <1>2 DEF TypeOK
<1>4. Aligned(b, f)
  <2>1. <<b, f>> \in Chunks
    BY <1>2 DEF Chunks, InHand
  <2> QED BY <2>1 DEF Shape
<1>5. Aligned(p, f + 1)
  BY <1>3, <1>4, Halves
<1> HIDE DEF p, f, b
<1>6. \A c \in Chunks' \ Chunks : Aligned(c[1], c[2])
  BY <1>1, <1>5
<1> QED BY <1>1, <1>3, <1>6, ShapeStays

\* Listing the merged chunk keeps the shape: the loop ended at a buddy that is
\* not listed.
LEMMA FreeReturnShape ==
  ASSUME OneChunkRegion, IInv, Shape, FreeReturn PROVE Shape'
<1> DEFINE f == op.found
           b == op.block
<1>1. Chunks' = Chunks /\ FreeChunks' = FreeChunks \cup {<<b, f>>}
  BY FreeReturnIInv
<1>2. /\ TypeOK /\ op.pc = "merge" /\ op'.pc = "idle" /\ f <= max_order
      /\ ~is_block_free(get_buddy(b, f), f)
  BY DEF IInv, LoopOrders, FreeReturn, NoOp
<1>3. b \in Nat /\ f \in 0..MAX_ORDER
  BY <1>2, OpType
<1>4. Chunks \subseteq ChunkType /\ FreeChunks \subseteq Chunks /\ <<b, f>> \in Chunks
  BY <1>2, ChunksType DEF Chunks, InHand
<1>5. Aligned(b, f)
  BY <1>4 DEF Shape
<1>6. ASSUME f < max_order PROVE <<get_buddy(b, f), f>> \notin FreeChunks
  BY <1>2, <1>6 DEF is_block_free, FreeChunks, ListedAt
<1> HIDE DEF b, f
<1> QED BY <1>1, <1>2, <1>3, <1>4, <1>5, <1>6, ShapeGrows

\* Every step keeps the shape.
LEMMA StepShape ==
  ASSUME OneChunkRegion, IInv, Shape, [Next]_vars PROVE Shape'
<1>1. ASSUME NEW n \in 1..MaxRequest, NEW order \in DOMAIN Pow2,
             NEW found \in order..max_order, AllocFound(n, order, found)
      PROVE  Shape'
  <2>1. Chunks' = Chunks /\ FreeChunks' \subseteq FreeChunks
    BY <1>1, AllocFoundIInv
  <2>2. Asked(op'.order)
    BY <1>1 DEF AllocFound, Asked
  <2> QED BY <2>1, <2>2, ShapeStays
<1>2. ASSUME NEW n \in 1..MaxRequest, NEW order \in DOMAIN Pow2, AllocNone(n, order)
      PROVE  Shape'
  <2>1. Chunks' = Chunks /\ FreeChunks' = FreeChunks
    BY <1>2, NullIInv
  <2>2. Asked(op'.order)
    BY <1>2 DEF AllocNone, NoOp, Asked
  <2> QED BY <2>1, <2>2, ShapeStays
<1>3. ASSUME NEW c \in allocated, FreeStart(c) PROVE Shape'
  <2>1. Chunks' = Chunks /\ FreeChunks' = FreeChunks
    BY <1>3, FreeStartIInv
  <2>2. op'.pc = "merge"
    BY <1>3 DEF FreeStart
  <2> QED BY <2>1, <2>2, ShapeStays
<1>4. CASE SplitStep
  BY <1>4, SplitStepShape
<1>5. CASE AllocReturn
  <2>1. Chunks' = Chunks /\ FreeChunks' = FreeChunks
    BY <1>5, AllocReturnIInv
  <2>2. op'.pc = "idle"
    BY <1>5 DEF AllocReturn, NoOp
  <2> QED BY <2>1, <2>2, ShapeStays
<1>6. CASE ReturnNull
  <2>1. Chunks' = Chunks /\ FreeChunks' = FreeChunks
    BY <1>6, NullIInv
  <2>2. op'.pc = "idle"
    BY <1>6 DEF ReturnNull, NoOp
  <2> QED BY <2>1, <2>2, ShapeStays
<1>7. CASE MergeStep
  BY <1>7, MergeStepShape
<1>8. CASE FreeReturn
  BY <1>8, FreeReturnShape
<1>9. CASE UNCHANGED vars
  <2>1. UNCHANGED <<InHand, FreeChunks, allocated>>
    BY <1>9 DEF vars, InHand, FreeChunks, ListedAt
  <2>2. Chunks' = Chunks /\ FreeChunks' = FreeChunks
    BY <2>1 DEF Chunks
  <2>3. op'.pc \in {"split", "failed"} => Asked(op'.order)
    BY <1>9 DEF vars, Shape
  <2> QED BY <2>2, <2>3, ShapeStays
<1> QED BY <1>1, <1>2, <1>3, <1>4, <1>5, <1>6, <1>7, <1>8, <1>9 DEF Next

-----------------------------------------------------------------------------
(* The allocator implements BlockPool.                                     *)

\* The run of order o at x is in the region, and all its blocks are in listed
\* chunks of a smaller order.
Fragmented(x, o) ==
  /\ x + Pow2[o] <= block_num
  /\ \A b \in Span(<<x, o>>) : \E c \in FreeChunks : b \in Span(c) /\ c[2] < o

\* A run at a multiple of its size that is part of a fragmented one is fragmented
\* too, unless it is listed itself.
LEMMA FragmentedPart ==
  ASSUME IInv, Shape, NEW x \in Nat, NEW o \in 0..MAX_ORDER, Fragmented(x, o + 1),
         NEW y \in Nat, Aligned(y, o), Span(<<y, o>>) \subseteq Span(<<x, o + 1>>),
         y + Pow2[o] <= block_num, <<y, o>> \notin FreeChunks
  PROVE  Fragmented(y, o)
<1> SUFFICES ASSUME NEW b \in Span(<<y, o>>)
             PROVE  \E c \in FreeChunks : b \in Span(c) /\ c[2] < o
  BY DEF Fragmented
<1>1. PICK c \in FreeChunks : b \in Span(c) /\ c[2] < o + 1
  BY DEF Fragmented
<1>2. c \in ChunkType /\ c \in Chunks
  BY ChunksType DEF IInv, Chunks
<1>3. c = <<c[1], c[2]>> /\ c[1] \in Nat /\ c[2] \in 0..MAX_ORDER
  BY <1>2 DEF ChunkType
<1>4. c[2] # o
  <2> SUFFICES ASSUME c[2] = o PROVE FALSE
    OBVIOUS
  <2> DEFINE P == Pow2[o]
  <2>1. P \in Nat \ {0}
    BY Pow2Type
  <2>2. PICK j \in Nat : y = j * P
    BY DEF Aligned
  <2>3. PICK k \in Nat : c[1] = k * P
    BY <1>2 DEF Shape, Aligned
  <2>4. b \in Int /\ y <= b /\ b < y + P /\ c[1] <= b /\ b < c[1] + P
    BY <1>1, <1>3, <2>1 DEF Span
  <2> HIDE DEF P
  <2>5. j * P < k * P + P /\ k * P < j * P + P
    BY <1>3, <2>1, <2>2, <2>3, <2>4
  <2>6. j = k
    BY <2>1, <2>5, SameCell
  <2> QED BY <1>3, <2>2, <2>3, <2>6
<1> QED BY <1>1, <1>3, <1>4

\* A fragmented run has a fragmented half: two listed halves would be buddies.
LEMMA FragmentedHalf ==
  ASSUME OneChunkRegion, IInv, Shape, NEW x \in Nat, NEW o \in 0..MAX_ORDER,
         Aligned(x, o + 1), Fragmented(x, o + 1)
  PROVE  \E y \in Nat : Aligned(y, o) /\ Fragmented(y, o)
<1> DEFINE P == Pow2[o]
<1>1. P \in Nat \ {0} /\ Pow2[o + 1] = 2 * P
  BY Pow2Type
<1>2. PICK k \in Nat : x = k * (2 * P)
  BY <1>1 DEF Aligned
<1>3. x + 2 * P <= block_num /\ block_num \in Nat
  BY <1>1, BlockNumAssumption DEF Fragmented
<1>4. /\ Span(<<x, o>>) = x..(x + P - 1) /\ Span(<<x + P, o>>) = (x + P)..(x + P + P - 1)
      /\ Span(<<x, o + 1>>) = x..(x + 2 * P - 1)
  BY <1>1 DEF Span
<1> HIDE DEF P
<1>5. x = (2 * k) * P /\ x + P = (2 * k + 1) * P /\ 2 * k \in Nat /\ 2 * k + 1 \in Nat /\ x + P \in Nat
  BY <1>1, <1>2
<1>6. Aligned(x, o) /\ Aligned(x + P, o)
  BY <1>5 DEF Aligned, P
<1>7. /\ x + Pow2[o] <= block_num /\ (x + P) + Pow2[o] <= block_num
  BY <1>1, <1>3 DEF P
<1>8. Span(<<x, o>>) \subseteq Span(<<x, o + 1>>) /\ Span(<<x + P, o>>) \subseteq Span(<<x, o + 1>>)
  BY <1>1, <1>4
<1>9. CASE <<x, o>> \notin FreeChunks
  BY <1>6, <1>7, <1>8, <1>9, FragmentedPart
<1>10. CASE <<x + P, o>> \notin FreeChunks
  <2>1. Fragmented(x + P, o)
    BY <1>5, <1>6, <1>7, <1>8, <1>10, FragmentedPart
  <2> QED BY <1>5, <1>6, <2>1
<1>11. CASE <<x, o>> \in FreeChunks /\ <<x + P, o>> \in FreeChunks
  <2>1. o <= max_order
    BY <1>11 DEF Shape
  <2>2. CASE o < max_order
    <3>1. o \in 0..(max_order - 1)
      BY <2>2, OrderFacts
    <3>2. get_buddy(x, o) = x + P
      BY <1>5, BuddyOfMultiple DEF P
    <3> QED BY <1>11, <3>1, <3>2 DEF Shape
  <2>3. CASE o = max_order
    <3>1. P = 2 * block_num
      <4>1. max_order - 1 \in 0..MAX_ORDER /\ (max_order - 1) + 1 = max_order
        BY OrderFacts
      <4> QED BY <2>3, <4>1, Pow2Type DEF OneChunkRegion, P
    <3> QED BY <1>1, <1>3, <3>1
  <2> QED BY <2>1, <2>2, <2>3, OrderFacts
<1> QED BY <1>9, <1>10, <1>11

\* A set of numbers that is not empty has a least one.
LEMMA Least ==
  ASSUME NEW S \in SUBSET Nat, S # {}
  PROVE  \E x \in S : \A y \in S : ~(y < x)
<1>1. PICK x \in S : \A y \in S : ~(<<y, x>> \in OpToRel(<, Nat))
  BY NatLessThanWellFounded, WFMin, Zenon
<1>2. \A y \in S : y \in Nat /\ (y < x => <<y, x>> \in OpToRel(<, Nat))
  BY DEF OpToRel
<1> QED BY <1>1, <1>2, Zenon

\* No run at a multiple of its size is fragmented.
LEMMA NoneFragmented ==
  ASSUME OneChunkRegion, IInv, Shape, NEW x \in Nat, NEW o \in DOMAIN Pow2, Aligned(x, o)
  PROVE  ~Fragmented(x, o)
<1> SUFFICES ASSUME Fragmented(x, o) PROVE FALSE
  OBVIOUS
<1> DEFINE Bad == {q \in DOMAIN Pow2 : \E y \in Nat : Aligned(y, q) /\ Fragmented(y, q)}
<1>1. Bad \in SUBSET Nat /\ Bad # {}
  BY OrderFacts
<1>2. PICK q \in Bad : \A r \in Bad : ~(r < q)
  BY <1>1, Least, Zenon
<1>3. PICK y \in Nat : Aligned(y, q) /\ Fragmented(y, q)
  BY <1>2
<1>4. q \in 0..(MAX_ORDER + 1) /\ Pow2[q] \in Nat \ {0}
  BY Pow2Assumption
<1>5. q # 0
  <2>1. y \in Span(<<y, q>>)
    BY <1>4 DEF Span
  <2>2. PICK c \in FreeChunks : c[2] < q
    BY <1>3, <2>1 DEF Fragmented
  <2>3. c[2] \in Nat
    BY ChunksType DEF IInv, Chunks, ChunkType
  <2> QED BY <2>2, <2>3
<1>6. q - 1 \in 0..MAX_ORDER /\ (q - 1) + 1 = q /\ q - 1 < q
  BY <1>4, <1>5, OrderFacts
<1>7. q - 1 \in Bad
  <2>1. q - 1 \in DOMAIN Pow2
    BY <1>6, OrderFacts
  <2>2. \E z \in Nat : Aligned(z, q - 1) /\ Fragmented(z, q - 1)
    BY <1>3, <1>6, FragmentedHalf
  <2> QED BY <2>1, <2>2
<1> QED BY <1>2, <1>6, <1>7

\* When the lists from an order on are empty, no run of that order is free.
LEMMA NothingFits ==
  ASSUME OneChunkRegion, IInv, Shape, op = NoOp, NEW order \in DOMAIN Pow2,
         \A f \in order..max_order : ~HasHead(f)
  PROVE  Pool!Fits(order) = {}
<1> SUFFICES ASSUME NEW x \in Pool!Fits(order) PROVE FALSE
  OBVIOUS
<1> DEFINE P == Pow2[order]
<1>1. P \in Nat \ {0} /\ block_num \in Nat /\ order \in Nat
  BY Pow2Assumption, BlockNumAssumption
<1>2. /\ x \in 0..(block_num - P) /\ x % P = 0
      /\ \A h \in allocated : Span(<<x, order>>) \cap Span(h) = {}
  BY DEF Pool!Fits, Pool!Run, Span
<1>3. x \in Nat /\ x + P <= block_num
  BY <1>1, <1>2
<1>4. Aligned(x, order)
  BY <1>1, <1>2, <1>3, NoRemainder, Zenon DEF Aligned
<1>5. ASSUME NEW b \in Span(<<x, order>>)
      PROVE  \E c \in FreeChunks : b \in Span(c) /\ c[2] < order
  <2>1. b \in Blocks
    BY <1>1, <1>3 DEF Span, Blocks
  <2>2. PICK c \in Chunks : b \in Span(c)
    BY <2>1 DEF IInv, Covers, CoverRegion
  <2>3. c \in FreeChunks
    <3>1. c \notin allocated
      BY <1>2, <2>2
    <3>2. InHand = {}
      BY DEF InHand, NoOp
    <3> QED BY <3>1, <3>2 DEF Chunks
  <2>4. PICK o \in Slots : c \in ListedAt(o)
    BY <2>3 DEF FreeChunks
  <2>5. c[2] = o /\ ElemsOf(free_list[o]) # {}
    BY <2>4 DEF ListedAt
  <2>6. o \in Nat /\ o < MAX_ORDER /\ o <= max_order
    BY <2>3, <2>5, OrderFacts DEF Slots, Shape
  <2>7. HasHead(o)
    BY <2>5 DEF HasHead, ElemsOf
  <2>8. o < order
    BY <1>1, <2>6, <2>7, OrderFacts
  <2> QED BY <2>2, <2>3, <2>5, <2>8
<1> QED BY <1>3, <1>4, <1>5, NoneFragmented DEF Fragmented

\* The chunk a finished split loop holds is a run the pool may grant.
LEMMA ChunkFits ==
  ASSUME IInv, Shape, op.pc = "split", op.found = op.order
  PROVE  op.block \in Pool!Fits(op.order)
<1> DEFINE c == <<op.block, op.order>>
           P == Pow2[op.order]
<1>1. TypeOK /\ op.block \in Nat /\ op.order \in 0..MAX_ORDER
  BY OpType DEF IInv
<1>2. P \in Nat \ {0} /\ block_num \in Nat
  BY <1>1, Pow2Type, BlockNumAssumption
<1>3. c \in Chunks /\ c \notin allocated /\ allocated \subseteq Chunks
  BY DEF IInv, NoOverlap, Chunks, InHand
<1>4. op.block \in 0..(block_num - P)
  <2>1. c[1] + Pow2[c[2]] <= block_num
    BY <1>3 DEF IInv, Covers, CoverRegion
  <2> QED BY <1>1, <1>2, <2>1
<1>5. op.block % P = 0
  <2>1. PICK k \in Nat : op.block = k * P
    BY <1>3 DEF Shape, Aligned
  <2> QED BY <1>2, <2>1, Multiple
<1>6. ASSUME NEW h \in allocated PROVE Span(c) \cap Span(h) = {}
  <2>1. Disjoint(c, h)
    BY <1>3 DEF IInv, NoOverlap, PairwiseDisjoint
  <2>2. h[1] \in Nat /\ Pow2[h[2]] \in Nat \ {0}
    BY <1>1, Pow2Type DEF TypeOK
  <2> QED BY <1>1, <1>2, <2>1, <2>2 DEF Disjoint, Span
<1> QED BY <1>4, <1>5, <1>6 DEF Pool!Fits, Pool!Run, Span

\* Every step of the allocator is a step of the pool, or none.
LEMMA StepPool ==
  ASSUME OneChunkRegion, IInv, Shape, [Next]_vars PROVE [Pool!Next]_Pool!vars
<1> DEFINE refused == IF op.pc = "failed" THEN op.order ELSE -1
<1>1. /\ TypeOK /\ DOMAIN Pow2 \subseteq Nat /\ op.order \in DOMAIN Pow2
  BY OpType, OrderFacts DEF IInv
<1>2. ASSUME NEW n \in 1..MaxRequest, NEW order \in DOMAIN Pow2,
             NEW found \in order..max_order, AllocFound(n, order, found)
      PROVE  UNCHANGED <<allocated, refused>>
  BY <1>2 DEF AllocFound, NoOp
<1>3. ASSUME NEW n \in 1..MaxRequest, NEW order \in DOMAIN Pow2, AllocNone(n, order)
      PROVE  Pool!Refuse(order)
  <2>1. /\ op = NoOp /\ log2_ceil(n, order) /\ \A f \in order..max_order : ~HasHead(f)
        /\ op' = [pc |-> "failed", order |-> order, found |-> 0, block |-> 0] /\ allocated' = allocated
    BY <1>3, Zenon DEF AllocNone, NoOp
  <2>2. Pool!Fits(order) = {}
    BY <2>1, NothingFits
  <2>3. Pool!Requested(order)
    BY <2>1 DEF Pool!Requested, log2_ceil
  <2>4. refused = -1 /\ refused' = order
    BY <2>1 DEF NoOp
  <2> QED BY <2>1, <2>2, <2>3, <2>4 DEF Pool!Refuse
<1>4. ASSUME NEW c \in allocated, FreeStart(c) PROVE Pool!Release
  <2>1. refused' = refused /\ allocated' = allocated \ {c}
    BY <1>4 DEF FreeStart, NoOp
  <2> QED BY <2>1 DEF Pool!Release
<1>5. CASE SplitStep
  <2>1. UNCHANGED <<allocated, refused>>
    BY <1>1, <1>5 DEF SplitStep, TypeOK
  <2> QED BY <2>1 DEF Pool!vars
<1>6. CASE AllocReturn
  <2>1. /\ refused = -1 /\ refused' = -1 /\ allocated' = allocated \cup {<<op.block, op.order>>}
        /\ op.pc = "split" /\ op.found = op.order
    BY <1>6 DEF AllocReturn, NoOp
  <2>2. op.block \in Pool!Fits(op.order)
    BY <2>1, ChunkFits
  <2>3. Pool!Requested(op.order)
    BY <2>1 DEF Shape, Asked, log2_ceil, Pool!Requested
  <2>4. Pool!Grant(op.order)
    BY <2>1, <2>2, <2>3 DEF Pool!Grant
  <2> QED BY <1>1, <2>4 DEF Pool!Next
<1>7. CASE ReturnNull
  <2>1. refused = op.order /\ refused' = -1 /\ allocated' = allocated
    BY <1>7 DEF ReturnNull, NoOp
  <2>2. refused # -1
    BY <1>1, <2>1
  <2> QED BY <2>1, <2>2 DEF Pool!Next, Pool!Refused
<1>8. CASE MergeStep
  <2>1. UNCHANGED <<allocated, refused>>
    BY <1>1, <1>8 DEF MergeStep, TypeOK
  <2> QED BY <2>1 DEF Pool!vars
<1>9. CASE FreeReturn
  <2>1. UNCHANGED <<allocated, refused>>
    BY <1>9 DEF FreeReturn, NoOp
  <2> QED BY <2>1 DEF Pool!vars
<1>10. CASE UNCHANGED vars
  BY <1>10 DEF vars, Pool!vars
<1>11. CASE \E n \in 1..MaxRequest, order \in DOMAIN Pow2 :
              \/ \E found \in order..max_order : AllocFound(n, order, found)
              \/ AllocNone(n, order)
  BY <1>2, <1>3, <1>11 DEF Pool!Next, Pool!vars
<1>12. CASE \E c \in allocated : FreeStart(c)
  BY <1>4, <1>12 DEF Pool!Next
<1> QED BY <1>5, <1>6, <1>7, <1>8, <1>9, <1>10, <1>11, <1>12 DEF Next

-----------------------------------------------------------------------------
\* The invariant holds at every step of every call.
LEMMA Invariance ==
  ASSUME OneChunkRegion PROVE Spec => [](IInv /\ FreeBlocksExact /\ Shape)
<1>1. Init => IInv /\ FreeBlocksExact /\ Shape
  BY InitIInv, InitCounted, InitShape
<1>2. IInv /\ FreeBlocksExact /\ Shape /\ [Next]_vars => IInv' /\ FreeBlocksExact' /\ Shape'
  BY StepIInv, StepCounted, StepShape
<1> QED BY <1>1, <1>2, PTL DEF Spec

\* The heart of the allocator, for every power-of-two region: at every step
\* of buddy_alloc and buddy_free the listed chunks, the clients' chunks and
\* the chunk in the loop's hands are disjoint and cover the region.
THEOREM TilingInvariant ==
  ASSUME OneChunkRegion PROVE Spec => [](TypeOK /\ NoOverlap /\ Covers)
<1>1. IInv => TypeOK /\ NoOverlap /\ Covers
  BY DEF IInv
<1> QED BY <1>1, Invariance, PTL

\* No block is lost and none outside the region is handed out, for every
\* power-of-two region, at every step of buddy_alloc and buddy_free.
THEOREM RegionIsCovered ==
  ASSUME OneChunkRegion PROVE Spec => []Covers
<1>1. IInv => Covers
  BY DEF IInv
<1> QED BY <1>1, Invariance, PTL

\* buddy.free_blocks counts the blocks no client owns, for every power-of-two
\* region and every sequence of buddy_alloc and buddy_free.
THEOREM FreeCountIsExact ==
  ASSUME OneChunkRegion PROVE Spec => []FreeBlocksExact
<1> QED BY Invariance, PTL

\* buddy_alloc grants a free run of the order it was asked for and answers null
\* only when there is none, and buddy_free takes runs back, for every
\* power-of-two region: split and merge loops, lists and buddies implement the
\* pool of blocks the clients see.
THEOREM ImplementsPool ==
  ASSUME OneChunkRegion PROVE Spec => PoolSpec
<1>1. Init => Pool!Init
  BY DEF Init, NoOp, Pool!Init
<1>2. IInv /\ Shape /\ [Next]_vars => [Pool!Next]_Pool!vars
  BY StepPool
<1> QED BY <1>1, <1>2, Invariance, PTL DEF Spec, PoolSpec, Pool!Spec

=============================================================================
