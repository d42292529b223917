------------------------------ MODULE MCMemory ------------------------------
(***************************************************************************)
(* Model checking of the kernel's memory: the buddy allocator (Buddy), the *)
(* page allocator with the address spaces built from its pages (Vm), and   *)
(* the copies between kernel and user memory (UserMem) for every small     *)
(* address space.  They share no state, so one run checks them side by     *)
(* side: part says what a behaviour is about.                              *)
(***************************************************************************)
EXTENDS Buddy, TLC

CONSTANTS Procs, Init1, NPAGES, MaxPages, TableSpan, Increments, NULL,   \* Vm
          PageBytes, MAXVA, WORD                                         \* UserMem

VARIABLES part,
          free, lost, panicked, space, sz, pc,
          user   \* the address space of UserMem

vm_vars == <<free, lost, panicked, space, sz, pc>>

V == INSTANCE Vm
M == INSTANCE UserMem WITH PGSIZE <- PageBytes

MCPow2 == [o \in 0..(MAX_ORDER + 1) |-> 2^o]

\* The premise of BuddyProofs' theorem holds of this instance.
ASSUME MCRegion == OneChunkRegion
ASSUME V!VmAssumption

\* What a page can be: not mapped, or mapped for the user to write, for the user
\* to read (text), or for the kernel only (the guard page of the stack).
Kinds == {"none", "rw", "ro", "guard"}
LastPage == (MAXVA \div PageBytes) - 1

\* The space of size n, pages of these kinds and k free frames.  b says which
\* bytes of a frame are zero; the others tell the frame they are in.
Space(n, kind, k, b) ==
  LET frames == {p + 1 : p \in {q \in 0..LastPage : kind[q] # "none"}}
      spare == (LastPage + 2)..(LastPage + 1 + k)
  IN [sz |-> n, free |-> spare,
      mem |-> [f \in frames \cup spare \cup {0} |->
                 [i \in 0..(PageBytes - 1) |-> IF b[i] THEN 0 ELSE 10 + f]],
      pt |-> [p \in 0..LastPage |-> [frame |-> IF kind[p] = "none" THEN 0 ELSE p + 1,
                                     write |-> kind[p] \in {"rw", "guard"},
                                     user |-> kind[p] \in {"rw", "ro"}]]]

\* Only pages below the size are mapped.
Spaces ==
  UNION {{Space(n, kind, k, b) : k \in 0..2, b \in [0..(PageBytes - 1) -> BOOLEAN],
            kind \in {q \in [0..LastPage -> Kinds] : \A p \in 0..LastPage : p * PageBytes >= n => q[p] = "none"}}
         : n \in 0..MAXVA}

Nothing == Space(0, [p \in 0..LastPage |-> "none"], 0, [i \in 0..(PageBytes - 1) |-> TRUE])

AllInit ==
  /\ Init /\ V!Init
  /\ \/ part \in {"buddy", "pages"} /\ user = Nothing
     \/ part = "bytes" /\ user \in Spaces

AllNext ==
  /\ UNCHANGED <<part, user>>
  /\ \/ part = "buddy" /\ Next /\ UNCHANGED vm_vars
     \/ part = "pages" /\ V!Next /\ UNCHANGED vars
     \/ part = "bytes" /\ UNCHANGED <<vars, vm_vars>>

AllSpec == AllInit /\ [][AllNext]_<<part, user, vars, vm_vars>>

\* Every page is in exactly one place: free, in one page table or mapped by it,
\* in the hands of one call, or handed to the wrong allocator by vmfault.  No
\* failure of fork, exec or sbrk half way leaks a page or leaves it in two places,
\* and a process has nothing mapped beyond its size but what a call is mapping.
PagesOwnedOnce == V!PagesOwnedOnce

Shape(s) == <<s.trapframe # 0, s.root # 0, s.top # 0,
              [g \in V!Groups |-> s.table[g] # 0], [v \in V!VPages |-> s.leaf[v] # 0]>>

(* Which page of Vm is where makes no difference as long as each is in one  *)
(* place: such states are told apart by which places hold one, and by the  *)
(* numbers of free and of lost pages.  A state that breaks PagesOwnedOnce  *)
(* looks like none that keeps it.  The variables of the other parts do not *)
(* change in a behaviour about pages, nor those of Vm in another one.      *)
View ==
  IF part = "pages"
    THEN <<part, [p \in Procs |-> <<Shape(space[p]), Shape(pc[p].new), pc[p].mem # 0,
                    pc[p].at, pc[p].op, pc[p].child, pc[p].start, pc[p].i, pc[p].end, pc[p].newsz>>],
           sz, Cardinality(free), Cardinality(lost), panicked, PagesOwnedOnce>>
    ELSE <<part, user, vars>>

Symmetry == Permutations(Procs \ {Init1})

Addresses == 0..(MAXVA + 1)

\* The kernel sees and changes the memory of a process as the process does, one
\* flat array of bytes, at every address and length, across pages that are not yet
\* allocated, read-only or not the user's, and when memory runs out half way
\* (copyout, copyin, copyinstr, fetchaddr, fetchstr).
CopiesFlat ==
  part = "bytes" =>
    /\ \A va \in Addresses, n \in 0..(MAXVA - 1) :
         /\ M!WritesFlat(user, va, [i \in 1..n |-> i])
         /\ M!ReadsFlat(user, va, n)
         /\ M!StringFlat(user, va, n)
    /\ \A va \in 0..(2 * MAXVA - 1) : M!WordFlat(user, va)
=============================================================================
