------------------------------- MODULE Umalloc -------------------------------
(***************************************************************************)
(* malloc and free of user programs (user/umalloc.c): a circular list of   *)
(* free blocks in address order, searched from where the last search or    *)
(* release ended.  Addresses and sizes are in units of a Header; a block   *)
(* starts with its header.  The program may also move the break itself, so *)
(* the memory morecore gets need not continue what it got before.          *)
(***************************************************************************)
EXTENDS Integers, FiniteSets

CONSTANTS
  Limit,    \* sbrk fails beyond it
  Grain,    \* least number of units morecore asks for (4096)
  Units     \* sizes of requests in units, the header included

UmallocAssumption ==
  Limit \in Nat /\ Grain \in Nat \ {0} /\ Units \subseteq Nat \ {0}

base == 0        \* the address of the static header, below the heap
HeapStart == 2
NoBlock == -1

VARIABLES
  heap,   \* ptr and size in the headers, by address, freep and the break; core is
          \* the set of units morecore has got
  owned   \* blocks the program holds: <<header, units>>

vars == <<heap, owned>>

Init ==
  /\ heap = [ptr |-> [a \in 0..Limit |-> 0], size |-> [a \in 0..Limit |-> 0],
             freep |-> NoBlock, brk |-> HeapStart, core |-> {}]
  /\ owned = {}

-----------------------------------------------------------------------------
(* Where free inserts bp: the free block before it, or the last one if bp  *)
(* is below or above all of them.                                          *)
RECURSIVE Place(_, _, _)
Place(h, bp, p) ==
  IF \/ bp > p /\ bp < h.ptr[p]
     \/ p >= h.ptr[p] /\ (bp > p \/ bp < h.ptr[p])
  THEN p ELSE Place(h, bp, h.ptr[p])

\* Fault: the block is joined to the one above it only.
free_UpperOnly(h, bp) ==
  LET p == Place(h, bp, h.freep)
      next == h.ptr[p]
      upper == bp + h.size[bp] = next
      nptr == IF upper THEN h.ptr[next] ELSE next
      nsize == IF upper THEN h.size[bp] + h.size[next] ELSE h.size[bp]
  IN [h EXCEPT !.ptr = [@ EXCEPT ![p] = bp, ![bp] = nptr],
               !.size = [@ EXCEPT ![bp] = nsize], !.freep = p]

free(h, bp) ==
  LET p == Place(h, bp, h.freep)
      next == h.ptr[p]
      upper == bp + h.size[bp] = next
      lower == p + h.size[p] = bp
      nptr == IF upper THEN h.ptr[next] ELSE next
      nsize == IF upper THEN h.size[bp] + h.size[next] ELSE h.size[bp]
  IN [h EXCEPT
        !.ptr = IF lower THEN [@ EXCEPT ![p] = nptr, ![bp] = nptr]
                         ELSE [@ EXCEPT ![p] = bp, ![bp] = nptr],
        !.size = IF lower THEN [@ EXCEPT ![p] = @ + nsize, ![bp] = nsize]
                          ELSE [@ EXCEPT ![bp] = nsize],
        !.freep = p]

\* morecore asks sbrk for at least Grain units and frees them.
Asked(nu) == IF nu < Grain THEN Grain ELSE nu
CanGrow(h, nu) == h.brk + Asked(nu) <= Limit
morecore(h, nu) ==
  LET end == h.brk + Asked(nu) IN
  free([h EXCEPT !.size[h.brk] = Asked(nu), !.brk = end, !.core = @ \cup h.brk..(end - 1)],
       h.brk)

\* Fault: the rest keeps the size of the whole block.
Take_KeepsSize(h, nunits, prevp, p) ==
  LET rest == h.size[p] - nunits IN
  IF rest = 0
  THEN [h |-> [h EXCEPT !.ptr[prevp] = h.ptr[p], !.freep = prevp], at |-> p]
  ELSE [h |-> [h EXCEPT !.size[p + rest] = nunits, !.freep = prevp], at |-> p + rest]

\* Take nunits from the end of block p, or all of it.
Take(h, nunits, prevp, p) ==
  LET rest == h.size[p] - nunits IN
  IF rest = 0
  THEN [h |-> [h EXCEPT !.ptr[prevp] = h.ptr[p], !.freep = prevp], at |-> p]
  ELSE [h |-> [h EXCEPT !.size = [@ EXCEPT ![p] = rest, ![p + rest] = nunits],
                        !.freep = prevp],
        at |-> p + rest]

\* The loop of malloc: round the list, once more after each morecore.
RECURSIVE Search(_, _, _, _)
Search(h, nunits, prevp, p) ==
  IF h.size[p] >= nunits THEN Take(h, nunits, prevp, p)
  ELSE IF p # h.freep THEN Search(h, nunits, p, h.ptr[p])
  ELSE IF ~CanGrow(h, nunits) THEN [h |-> h, at |-> NoBlock]
  ELSE LET m == morecore(h, nunits) IN Search(m, nunits, m.freep, m.ptr[m.freep])

Started == IF heap.freep # NoBlock THEN heap
           ELSE [heap EXCEPT !.ptr[base] = base, !.size[base] = 0, !.freep = base]

(* Memory that holds no header in use is of no interest: it is kept as 0.  *)
RECURSIVE ListFrom(_, _, _)
ListFrom(h, p, seen) ==
  IF p \in seen THEN seen ELSE ListFrom(h, h.ptr[p], seen \cup {p})

Scrub(h, own) ==
  LET list == ListFrom(h, h.freep, {})
      used == list \cup {b[1] : b \in own}
  IN [h EXCEPT !.ptr = [a \in 0..Limit |-> IF a \in list THEN @[a] ELSE 0],
               !.size = [a \in 0..Limit |-> IF a \in used THEN @[a] ELSE 0]]

malloc(nunits) ==
  LET r == Search(Started, nunits, Started.freep, Started.ptr[Started.freep]) IN
  /\ owned' = IF r.at = NoBlock THEN owned ELSE owned \cup {<<r.at, nunits>>}
  /\ heap' = Scrub(r.h, owned')

Free(b) ==
  /\ b \in owned
  /\ owned' = owned \ {b}
  /\ heap' = Scrub(free(heap, b[1]), owned')

\* The program moves the break by a unit for its own use.
Sbrk ==
  /\ heap.brk < Limit
  /\ heap' = [heap EXCEPT !.brk = @ + 1]
  /\ UNCHANGED owned

Next == (\E n \in Units : malloc(n)) \/ (\E b \in owned : Free(b)) \/ Sbrk

Spec == Init /\ [][Next]_vars

-----------------------------------------------------------------------------
(* Properties.                                                             *)

\* The free blocks: the list without base.
FreeList == IF heap.freep = NoBlock THEN {} ELSE ListFrom(heap, heap.freep, {}) \ {base}

FreeBlocks == {<<p, heap.size[p]>> : p \in FreeList}
Extent(b) == b[1]..(b[1] + b[2] - 1)

\* The blocks the program holds and the free blocks are, without overlap, all
\* the memory morecore has got, and the sizes in the headers of blocks in use
\* are what malloc was asked for: nothing is handed out twice and nothing lost,
\* whatever the order of releases and gaps in the heap.  Adjacent free blocks
\* have been joined, by free on both sides and also across two calls of
\* morecore, and the list is in address order with one wrap.
HeapTiled ==
  LET B == FreeBlocks \cup owned IN
  /\ FreeBlocks \cap owned = {}
  /\ \A a, b \in B : a # b => Extent(a) \cap Extent(b) = {}
  /\ UNION {Extent(b) : b \in B} = heap.core
  /\ \A b \in owned : heap.size[b[1]] = b[2]
  /\ \A a, b \in FreeBlocks : a[1] + a[2] # b[1]
  /\ heap.freep # NoBlock =>
       Cardinality({p \in FreeList \cup {base} : heap.ptr[p] <= p}) = 1
=============================================================================
