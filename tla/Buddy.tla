------------------------------- MODULE Buddy -------------------------------
(***************************************************************************)
(* The buddy allocator of kernel/buddy.c.                                  *)
(*                                                                         *)
(* A block is identified by its index from buddy.memory_start, a chunk by  *)
(* the pair <<index of its first block, order>>.  Every access to the      *)
(* allocator's state happens under buddy.lock, so one record, op, stands   *)
(* for the call that holds the lock: NoOp is the free lock, and the split  *)
(* and merge loops run one iteration per step while it is held.            *)
(*                                                                         *)
(* The free lists, linked through the first word of the free blocks, are   *)
(* sequences whose head is the list head.                                  *)
(***************************************************************************)
EXTENDS Integers, Sequences, FiniteSets

CONSTANTS
  block_num,    \* number of blocks given to buddy_init
  MAX_ORDER,    \* length of the array buddy.free_list
  Pow2,         \* Pow2[o] is 1 << o
  MaxRequest    \* bound: the largest num_blocks a client asks for

ASSUME Pow2Assumption ==
  /\ MAX_ORDER \in Nat \ {0}
  /\ Pow2 \in [0..(MAX_ORDER + 1) -> Nat \ {0}]
  /\ Pow2[0] = 1
  /\ \A o \in 0..MAX_ORDER : Pow2[o + 1] = 2 * Pow2[o]

ASSUME BlockNumAssumption == block_num \in Nat \ {0} /\ MaxRequest \in Nat

\* o is the order log2_ceil computes for n blocks.
log2_ceil(n, o) == n <= Pow2[o] /\ (o > 0 => Pow2[o - 1] < n)

max_order == 1 + (CHOOSE o \in DOMAIN Pow2 : log2_ceil(block_num, o))

\* buddy_init gives up when the region needs more lists than the array has.
ASSUME MaxOrderAssumption == max_order \in 1..MAX_ORDER

VARIABLES
  free_list,     \* buddy.free_list
  free_blocks,   \* buddy.free_blocks
  memory_start,  \* buddy.memory_start: "space", or "clobbered" (see TakeHead)
  op,            \* the call inside the critical section of buddy.lock
  allocated      \* chunks returned by buddy_alloc and not passed to buddy_free

vars == <<free_list, free_blocks, memory_start, op, allocated>>

Slots == 0..(MAX_ORDER - 1)
Blocks == 0..(block_num - 1)
NoOp == [pc |-> "idle", order |-> 0, found |-> 0, block |-> 0]

ElemsOf(list) == {list[i] : i \in DOMAIN list}

-----------------------------------------------------------------------------
(* Index arithmetic and list primitives.                                   *)

BitSet(index, order) == (index \div Pow2[order]) % 2 = 1

get_buddy(index, order) ==
  IF BitSet(index, order) THEN index - Pow2[order] ELSE index + Pow2[order]

\* Fault: the bit is subtracted whether it is set or not.
get_parent_Minus(index, order) == index - Pow2[order]

get_parent(index, order) ==
  IF BitSet(index, order) THEN index - Pow2[order] ELSE index

add_to_list(list, index) == <<index>> \o list

\* Unlink the node at position i.
RemoveNth(list, i) ==
  [j \in 1..(Len(list) - 1) |-> IF j < i THEN list[j] ELSE list[j + 1]]

remove_from_list(list, index) ==
  RemoveNth(list, CHOOSE i \in DOMAIN list : list[i] = index)

is_block_free(index, order) ==
  order < max_order /\ index \in ElemsOf(free_list[order])

-----------------------------------------------------------------------------
(* buddy_init: one chunk for every bit of block_num, largest first.  The   *)
(* cursor is a pointer to an 8-byte struct advanced by size * BLOCK_SIZE   *)
(* elements, so after the chunks of the higher bits it has moved 8 times   *)
(* their size.                                                             *)
InitialList(order) ==
  IF BitSet(block_num, order)
  THEN <<8 * (block_num - (block_num % (2 * Pow2[order])))>>
  ELSE <<>>

Init ==
  /\ free_list = [o \in Slots |-> InitialList(o)]
  /\ free_blocks = block_num
  /\ memory_start = "space"
  /\ op = NoOp
  /\ allocated = {}

-----------------------------------------------------------------------------
(* buddy_alloc                                                             *)

\* free_list[MAX_ORDER] is one element past the array: the word there is
\* buddy.memory_start, which is never null.
HasHead(order) == order < MAX_ORDER => free_list[order] # <<>>

HeadOf(order) == IF order < MAX_ORDER THEN Head(free_list[order]) ELSE 0

\* Unlinking the head past the end of the array overwrites memory_start with
\* the contents of the region's first block.  No address computed afterwards
\* means anything: the model does not go beyond the call that does this.
TakeHead(order) ==
  IF order < MAX_ORDER
  THEN /\ free_list' = [free_list EXCEPT ![order] = Tail(@)]
       /\ UNCHANGED memory_start
  ELSE /\ memory_start' = "clobbered"
       /\ UNCHANGED free_list

\* The scan stops at the first non-empty list of sufficient order.
AllocFound(n, order, found) ==
  /\ op = NoOp /\ memory_start = "space"
  /\ log2_ceil(n, order)
  /\ HasHead(found)
  /\ \A f \in order..(found - 1) : ~HasHead(f)
  /\ op' = [pc |-> "split", order |-> order, found |-> found,
            block |-> HeadOf(found)]
  /\ TakeHead(found)
  /\ UNCHANGED <<free_blocks, allocated>>

\* One iteration of the split loop: the upper half goes back on a list.
SplitStep ==
  /\ op.pc = "split" /\ op.found > op.order
  /\ op' = [op EXCEPT !.found = @ - 1]
  /\ free_list' = [free_list EXCEPT ![op.found - 1] =
                     add_to_list(@, op.block + Pow2[op.found - 1])]
  /\ UNCHANGED <<free_blocks, memory_start, allocated>>

AllocReturn ==
  /\ op.pc = "split" /\ op.found = op.order
  /\ free_blocks' = free_blocks - Pow2[op.order]
  /\ allocated' = allocated \cup {<<op.block, op.order>>}
  /\ op' = NoOp
  /\ UNCHANGED <<free_list, memory_start>>

\* Fault: no larger chunk is split.
AllocNone_NoScan(n, order) ==
  /\ op = NoOp /\ memory_start = "space"
  /\ log2_ceil(n, order)
  /\ order <= max_order => ~HasHead(order)
  /\ op' = [NoOp EXCEPT !.pc = "failed", !.order = order]
  /\ UNCHANGED <<free_list, free_blocks, memory_start, allocated>>

\* The order is above max_order, or every list from it on is empty.
AllocNone(n, order) ==
  /\ op = NoOp /\ memory_start = "space"
  /\ log2_ceil(n, order)
  /\ \A f \in order..max_order : ~HasHead(f)
  /\ op' = [NoOp EXCEPT !.pc = "failed", !.order = order]
  /\ UNCHANGED <<free_list, free_blocks, memory_start, allocated>>

ReturnNull ==
  /\ op.pc = "failed"
  /\ op' = NoOp
  /\ UNCHANGED <<free_list, free_blocks, memory_start, allocated>>

-----------------------------------------------------------------------------
(* buddy_free.  The client passes a chunk it owns, with its size.          *)

FreeStart(chunk) ==
  /\ op = NoOp /\ memory_start = "space"
  /\ allocated' = allocated \ {chunk}
  /\ op' = [pc |-> "merge", order |-> chunk[2], found |-> chunk[2],
            block |-> chunk[1]]
  /\ UNCHANGED <<free_list, free_blocks, memory_start>>

\* Fault: the merged buddy stays on its list.
MergeStep_KeepsBuddy ==
  /\ op.pc = "merge"
  /\ is_block_free(get_buddy(op.block, op.found), op.found)
  /\ op' = [op EXCEPT !.block = get_parent(@, op.found), !.found = @ + 1]
  /\ UNCHANGED <<free_list, free_blocks, memory_start, allocated>>

\* One iteration of the merge loop: the buddy is free and leaves its list.
MergeStep ==
  LET buddy == get_buddy(op.block, op.found) IN
  /\ op.pc = "merge"
  /\ is_block_free(buddy, op.found)
  /\ free_list' = [free_list EXCEPT ![op.found] = remove_from_list(@, buddy)]
  /\ op' = [op EXCEPT !.block = get_parent(@, op.found), !.found = @ + 1]
  /\ UNCHANGED <<free_blocks, memory_start, allocated>>

\* Fault: the chunk goes on the list of the order it had before merging.
FreeReturn_OldOrder ==
  /\ op.pc = "merge"
  /\ ~is_block_free(get_buddy(op.block, op.found), op.found)
  /\ free_list' = [free_list EXCEPT ![op.order] = add_to_list(@, op.block)]
  /\ free_blocks' = free_blocks + Pow2[op.order]
  /\ op' = NoOp
  /\ UNCHANGED <<memory_start, allocated>>

\* Fault: the blocks of the merged buddies are counted again.
FreeReturn_CountsMerged ==
  /\ op.pc = "merge"
  /\ ~is_block_free(get_buddy(op.block, op.found), op.found)
  /\ free_list' = [free_list EXCEPT ![op.found] = add_to_list(@, op.block)]
  /\ free_blocks' = free_blocks + Pow2[op.found]
  /\ op' = NoOp
  /\ UNCHANGED <<memory_start, allocated>>

FreeReturn ==
  /\ op.pc = "merge"
  /\ ~is_block_free(get_buddy(op.block, op.found), op.found)
  /\ free_list' = [free_list EXCEPT ![op.found] = add_to_list(@, op.block)]
  /\ free_blocks' = free_blocks + Pow2[op.order]
  /\ op' = NoOp
  /\ UNCHANGED <<memory_start, allocated>>

-----------------------------------------------------------------------------
Next ==
  \/ \E n \in 1..MaxRequest, order \in DOMAIN Pow2 :
       \/ \E found \in order..max_order : AllocFound(n, order, found)
       \/ AllocNone(n, order)
  \/ \E chunk \in allocated : FreeStart(chunk)
  \/ SplitStep \/ AllocReturn \/ ReturnNull \/ MergeStep \/ FreeReturn

Spec == Init /\ [][Next]_vars /\ WF_vars(SplitStep \/ AllocReturn \/ ReturnNull
                                          \/ MergeStep \/ FreeReturn)

-----------------------------------------------------------------------------
(* Properties.                                                             *)

TypeOK ==
  /\ free_list \in [Slots -> Seq(Nat)]
  /\ free_blocks \in Int
  /\ memory_start \in {"space", "clobbered"}
  /\ op \in [pc : {"idle", "split", "merge", "failed"},
             order : DOMAIN Pow2, found : 0..MAX_ORDER, block : Nat]
  /\ allocated \subseteq Nat \X (0..MAX_ORDER)

Span(chunk) == chunk[1]..(chunk[1] + Pow2[chunk[2]] - 1)
ListedAt(o) == {<<x, o>> : x \in ElemsOf(free_list[o])}
FreeChunks == UNION {ListedAt(o) : o \in Slots}
\* The chunk the call in progress is splitting or merging.
InHand == IF op.pc \in {"split", "merge"} THEN {<<op.block, op.found>>} ELSE {}
Chunks == FreeChunks \cup allocated \cup InHand

Disjoint(c, d) ==
  \/ c[1] + Pow2[c[2]] <= d[1]
  \/ d[1] + Pow2[d[2]] <= c[1]

PairwiseDisjoint(S) == \A c, d \in S : c # d => Disjoint(c, d)

CoverRegion(S) ==
  /\ \A c \in S : c[1] + Pow2[c[2]] <= block_num
  /\ \A b \in Blocks : \E c \in S : b \in Span(c)

NoRepeats(list) ==
  \A i, j \in DOMAIN list : list[i] = list[j] => i = j

\* No memory is handed out twice: the chunks on the free lists, the chunks
\* clients own and the chunk a split or merge loop is working on never
\* overlap, and no chunk is listed twice or both listed and owned.
NoOverlap ==
  /\ \A o \in Slots : NoRepeats(free_list[o])
  /\ PairwiseDisjoint(Chunks)
  /\ FreeChunks \cap allocated = {}
  /\ InHand \cap (FreeChunks \cup allocated) = {}

\* Nothing is lost and nothing outside the region is handed out: at every
\* step of every call the chunks cover exactly the blocks of the region.
Covers == CoverRegion(Chunks)

\* buddy.free_blocks is the number of blocks no client owns, whatever
\* splitting and merging happened in between (the count buddy_print_info
\* reports); a merge adds its blocks when it ends.
FreeBlocksExact ==
  free_blocks + (IF op.pc = "merge" THEN Pow2[op.order] ELSE 0)
    = Cardinality({b \in Blocks : \A c \in allocated : b \notin Span(c)})

\* The region buddy_init receives from main: a power of two, which it lists
\* as one chunk, of fewer orders than the array has.
OneChunkRegion ==
  /\ max_order < MAX_ORDER
  /\ block_num = Pow2[max_order - 1]
  /\ \A o \in Slots : InitialList(o) = IF o = max_order - 1 THEN <<0>> ELSE <<>>

-----------------------------------------------------------------------------
(* The allocator implements the abstract one: memory is refused only when  *)
(* no aligned run of free blocks of the requested size exists.             *)
Pool == INSTANCE BlockPool WITH
          size <- Pow2,
          held <- allocated,
          refused <- IF op.pc = "failed" THEN op.order ELSE -1

PoolSpec == Pool!Spec
=============================================================================
