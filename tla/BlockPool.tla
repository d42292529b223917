------------------------------ MODULE BlockPool ------------------------------
(***************************************************************************)
(* What the buddy allocator promises its clients (kernel/buddy.h), without *)
(* free lists: a request gets an aligned run of blocks nobody holds, and   *)
(* is refused only when there is none.                                     *)
(***************************************************************************)
EXTENDS Integers

CONSTANTS block_num, MaxRequest, size

VARIABLES
  held,      \* runs of blocks clients hold, as <<first block, order>>
  refused    \* the order of the request being refused, or -1

vars == <<held, refused>>

Run(first, order) == first..(first + size[order] - 1)

\* The runs of 2^order blocks that start at a multiple of their size and
\* share no block with a run somebody holds.
Fits(order) ==
  {first \in 0..(block_num - size[order]) :
     /\ first % size[order] = 0
     /\ \A h \in held : Run(first, order) \cap Run(h[1], h[2]) = {}}

Requested(order) == \E n \in 1..MaxRequest :
  n <= size[order] /\ (order > 0 => size[order - 1] < n)

Init == held = {} /\ refused = -1

Grant(order) ==
  /\ refused = -1 /\ Requested(order)
  /\ \E first \in Fits(order) : held' = held \cup {<<first, order>>}
  /\ UNCHANGED refused

Refuse(order) ==
  /\ refused = -1 /\ Requested(order) /\ Fits(order) = {}
  /\ refused' = order
  /\ UNCHANGED held

Refused == refused # -1 /\ refused' = -1 /\ UNCHANGED held

Release == \E h \in held : held' = held \ {h} /\ UNCHANGED refused

Next == (\E order \in DOMAIN size : Grant(order) \/ Refuse(order)) \/ Refused \/ Release

Spec == Init /\ [][Next]_vars
=============================================================================
