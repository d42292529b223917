--------------------------------- MODULE Vm ---------------------------------
(***************************************************************************)
(* User memory: the page allocator (kernel/kalloc.c), page tables          *)
(* (kernel/vm.c) and the system calls that build, grow and free address    *)
(* spaces: fork, exec, sbrk, page faults and exit.                         *)
(*                                                                         *)
(* Every kalloc is a step of its own, since it is where a process can find *)
(* the memory taken by another; freeing is one step.  The two lower levels *)
(* of a page table are one: a table page maps TableSpan user pages.  The   *)
(* trampoline and trapframe share the table at the top.  Page 0 stands for *)
(* a null pointer.                                                         *)
(***************************************************************************)
EXTENDS Integers, FiniteSets

CONSTANTS
  Procs,
  Init1,      \* the first process, which never exits
  NPAGES,     \* physical pages
  MaxPages,   \* user pages below TRAPFRAME
  TableSpan,  \* user pages mapped by one table page
  Increments, \* amounts by which sbrk grows or shrinks a process
  NULL

PGSIZE == 2   \* sizes are in half pages, so that they need not be aligned

VmAssumption ==
  /\ Init1 \in Procs /\ NULL \notin Procs
  /\ NPAGES \in Nat /\ MaxPages \in Nat /\ TableSpan \in Nat \ {0}
  /\ MaxPages >= 3 /\ NPAGES >= 5
  /\ Increments \subseteq Nat \ {0}

VARIABLES
  free,      \* kmem.freelist
  lost,      \* pages vmfault gave to the slab allocator's kfree
  panicked,  \* the kernel has stopped
  space,     \* the page table of each process, and its trapframe
  sz,
  pc

vars == <<free, lost, panicked, space, sz, pc>>

Pages == 1..NPAGES
VPages == 0..(MaxPages - 1)
Groups == {v \div TableSpan : v \in VPages}
TRAPFRAME == MaxPages * PGSIZE

PGROUNDUP(n) == (n + PGSIZE - 1) \div PGSIZE    \* as a number of pages

NoSpace == [trapframe |-> 0, root |-> 0, top |-> 0,
            table |-> [g \in Groups |-> 0], leaf |-> [v \in VPages |-> 0]]

\* What a process is doing: building a space for a child or for exec, or
\* mapping pages i..end-1; mem is the page not mapped yet.
Idle == [at |-> "idle", op |-> "", new |-> NoSpace, child |-> NULL,
         start |-> 0, i |-> 0, end |-> 0, newsz |-> 0, mem |-> 0]

\* The first process after its exec: one page of memory.
Init ==
  /\ free = 6..NPAGES
  /\ lost = {} /\ panicked = FALSE
  /\ space = [p \in Procs |-> IF p = Init1
       THEN [trapframe |-> 1, root |-> 2, top |-> 3,
             table |-> [NoSpace.table EXCEPT ![0] = 4],
             leaf |-> [NoSpace.leaf EXCEPT ![0] = 5]]
       ELSE NoSpace]
  /\ sz = [p \in Procs |-> IF p = Init1 THEN PGSIZE ELSE 0]
  /\ pc = [p \in Procs |-> Idle]

At(p, at) == pc[p].at = at
Alive(p) == space[p].root # 0
UsedSlots == {p \in Procs : Alive(p)} \cup {pc[p].child : p \in Procs}
Building(p) == pc[p].op \in {"fork", "exec"}

\* kalloc takes any page: which one makes no difference.
Page == CHOOSE pg \in free : \A other \in free : pg <= other
Nonzero(S) == S \ {0}
page_kfree(S) == free' = free \cup S

-----------------------------------------------------------------------------
(* Freeing.                                                                *)

\* The pages of leaves a..b-1, and the page table without them: uvmunmap.
Leaves(s, a, b) == Nonzero({s.leaf[v] : v \in VPages \cap a..(b - 1)})
uvmunmap(s, a, b) ==
  [s EXCEPT !.leaf = [v \in VPages |-> IF v \in a..(b - 1) THEN 0 ELSE s.leaf[v]]]

\* The pages proc_freepagetable frees: user memory below size, then the page
\* table.
proc_freepagetable(s, size) ==
  Nonzero(Leaves(s, 0, PGROUNDUP(size)) \cup {s.table[g] : g \in Groups} \cup {s.root, s.top})

freeproc(s, size) == proc_freepagetable(s, size) \cup Nonzero({s.trapframe})

-----------------------------------------------------------------------------
(* System calls start.                                                     *)

\* allocproc reserves a slot of the process table.
fork(p, q) ==
  /\ Alive(p) /\ At(p, "idle") /\ q \notin UsedSlots
  /\ pc' = [pc EXCEPT ![p] = [Idle EXCEPT !.at = "trapframe", !.op = "fork", !.child = q,
                                          !.end = PGROUNDUP(sz[p])]]
  /\ UNCHANGED <<free, lost, panicked, space, sz>>

\* The program takes one page.
exec(p) ==
  /\ Alive(p) /\ At(p, "idle")
  /\ pc' = [pc EXCEPT ![p] = [Idle EXCEPT !.at = "root", !.op = "exec", !.end = 1]]
  /\ UNCHANGED <<free, lost, panicked, space, sz>>

Map(p, op, a, b, size) ==
  pc' = [pc EXCEPT ![p] = [Idle EXCEPT !.at = "mem", !.op = op, !.start = a,
                                       !.i = a, !.end = b, !.newsz = size]]

\* sbrk with SBRK_EAGER: growproc and uvmalloc.
GrowEager(p, n) ==
  /\ Alive(p) /\ At(p, "idle") /\ sz[p] + n <= TRAPFRAME
  /\ Map(p, "sbrk", PGROUNDUP(sz[p]), PGROUNDUP(sz[p] + n), sz[p] + n)
  /\ UNCHANGED <<free, lost, panicked, space, sz>>

GrowLazy(p, n) ==
  /\ Alive(p) /\ At(p, "idle") /\ sz[p] + n <= TRAPFRAME
  /\ sz' = [sz EXCEPT ![p] = @ + n]
  /\ UNCHANGED <<free, lost, panicked, space, pc>>

\* Fault: one page too many is kept.
Kept_More(size) == size \div PGSIZE + 1

\* The pages a process of that size keeps.
Kept(size) == PGROUNDUP(size)

\* Shrinking by more than the size wraps around, and changes nothing.
Shrink(p, n) ==
  LET a == Kept(sz[p] - n)
      b == PGROUNDUP(sz[p])
  IN
  /\ Alive(p) /\ At(p, "idle") /\ n <= sz[p]
  /\ page_kfree(Leaves(space[p], a, b))
  /\ space' = [space EXCEPT ![p] = uvmunmap(@, a, b)]
  /\ sz' = [sz EXCEPT ![p] = @ - n]
  /\ UNCHANGED <<lost, panicked, pc>>

\* A page below the size that is not mapped is touched, by the process or by
\* copyin or copyout.
vmfault(p, v) ==
  /\ Alive(p) /\ At(p, "idle") /\ v * PGSIZE < sz[p] /\ space[p].leaf[v] = 0
  /\ Map(p, "fault", v, v + 1, sz[p])
  /\ UNCHANGED <<free, lost, panicked, space, sz>>

\* kexit, and freeproc by the parent.
exit(p) ==
  /\ Alive(p) /\ At(p, "idle") /\ p # Init1
  /\ page_kfree(freeproc(space[p], sz[p]))
  /\ space' = [space EXCEPT ![p] = NoSpace]
  /\ sz' = [sz EXCEPT ![p] = 0]
  /\ UNCHANGED <<lost, panicked, pc>>

-----------------------------------------------------------------------------
(* A new page table: allocproc's trapframe, then proc_pagetable.            *)

\* Give up on the space being built, whose memory ends at size.
Abandon(p, s, size) ==
  /\ page_kfree(freeproc(s, size) \cup Nonzero({pc[p].mem}))
  /\ pc' = [pc EXCEPT ![p] = Idle]
  /\ UNCHANGED <<lost, panicked, space, sz>>

\* kalloc a page for a field of the new space, or give up.
proc_pagetable(p, field, next) ==
  /\ At(p, field)
  /\ IF free = {} THEN Abandon(p, pc[p].new, 0)
     ELSE /\ free' = free \ {Page}
          /\ pc' = [pc EXCEPT ![p].new[field] = Page, ![p].at = next]
          /\ UNCHANGED <<lost, panicked, space, sz>>

Pagetable(p) ==
  \/ proc_pagetable(p, "trapframe", "root")
  \/ proc_pagetable(p, "root", "top")
  \/ proc_pagetable(p, "top", "mem")

-----------------------------------------------------------------------------
(* The loop of uvmalloc, of uvmcopy, and the body of vmfault.               *)

Target(p) == IF Building(p) THEN pc[p].new ELSE space[p]

SetTarget(p, s, rest) ==
  IF Building(p)
  THEN pc' = [pc EXCEPT ![p] = [rest EXCEPT !.new = s]] /\ UNCHANGED space
  ELSE pc' = [pc EXCEPT ![p] = rest] /\ space' = [space EXCEPT ![p] = s]

\* The target without the pages mapped so far: uvmdealloc, or the end of
\* uvmcopy.
Unwound(p) == uvmunmap(Target(p), pc[p].start, pc[p].i)

\* Fault: the page that could not be mapped is not freed.
Returned_Not(p) == Leaves(Target(p), pc[p].start, pc[p].i)

\* Fault: a failing uvmcopy frees none of the pages it has mapped.
Returned_NoCopies(p) ==
  (IF pc[p].op = "fork" THEN {} ELSE Leaves(Target(p), pc[p].start, pc[p].i))
    \cup Nonzero({pc[p].mem})

\* The pages a failing loop frees.
Returned(p) == Leaves(Target(p), pc[p].start, pc[p].i) \cup Nonzero({pc[p].mem})

\* vmfault calls kfree, the slab allocator's, where page_kfree is the one for
\* pages.  It takes what lies in front of the page for a pointer to a slab and
\* follows it to the slab's cache: nearly always the kernel faults there, and
\* kerneltrap panics; or it meets nothing with a cache's mark and returns.  In
\* either case the page does not come back.
slab_kfree(S) ==
  /\ lost' = lost \cup S
  /\ panicked' \in (IF S = {} THEN {FALSE} ELSE BOOLEAN)

\* Out of memory.
Fail(p) ==
  CASE pc[p].op = "fault" ->
         /\ slab_kfree(Nonzero({pc[p].mem}))
         /\ pc' = [pc EXCEPT ![p] = Idle]
         /\ UNCHANGED <<free, space, sz>>
    [] pc[p].op = "sbrk" ->
         /\ page_kfree(Returned(p))
         /\ space' = [space EXCEPT ![p] = Unwound(p)]
         /\ pc' = [pc EXCEPT ![p] = Idle]
         /\ UNCHANGED <<lost, panicked, sz>>
    [] OTHER ->
         /\ page_kfree(Returned(p) \cup freeproc(Unwound(p), pc[p].newsz))
         /\ pc' = [pc EXCEPT ![p] = Idle]
         /\ UNCHANGED <<lost, panicked, space, sz>>

\* uvmcopy skips pages the parent has not touched.
Skip(p) ==
  /\ At(p, "mem") /\ pc[p].i < pc[p].end
  /\ pc[p].op = "fork" /\ space[p].leaf[pc[p].i] = 0
  /\ pc' = [pc EXCEPT ![p].i = @ + 1]
  /\ UNCHANGED <<free, lost, panicked, space, sz>>

Mem(p) ==
  /\ At(p, "mem") /\ pc[p].i < pc[p].end
  /\ pc[p].op = "fork" => space[p].leaf[pc[p].i] # 0
  /\ IF free = {} THEN Fail(p)
     ELSE /\ free' = free \ {Page}
          /\ pc' = [pc EXCEPT ![p].mem = Page, ![p].at = "map"]
          /\ UNCHANGED <<lost, panicked, space, sz>>

\* mappages: walk allocates the table page if it is not there.
mappages(p) ==
  LET g == pc[p].i \div TableSpan
      t == Target(p).table[g]
  IN
  /\ At(p, "map")
  /\ IF t = 0 /\ free = {} THEN Fail(p)
     ELSE /\ SetTarget(p, [Target(p) EXCEPT !.table[g] = IF t = 0 THEN Page ELSE t,
                                            !.leaf[pc[p].i] = pc[p].mem],
                       [pc[p] EXCEPT !.at = "mem", !.i = @ + 1, !.mem = 0])
          /\ free' = IF t = 0 THEN free \ {Page} ELSE free
          /\ UNCHANGED <<lost, panicked, sz>>

-----------------------------------------------------------------------------
(* All pages are mapped.                                                   *)

Complete(p, op) == At(p, "mem") /\ pc[p].i >= pc[p].end /\ pc[p].op = op

Grown(p) ==
  /\ Complete(p, "sbrk") \/ Complete(p, "fault")
  /\ sz' = [sz EXCEPT ![p] = pc[p].newsz]
  /\ pc' = [pc EXCEPT ![p] = Idle]
  /\ UNCHANGED <<free, lost, panicked, space>>

Forked(p) ==
  /\ Complete(p, "fork")
  /\ space' = [space EXCEPT ![pc[p].child] = pc[p].new]
  /\ sz' = [sz EXCEPT ![pc[p].child] = sz[p]]
  /\ pc' = [pc EXCEPT ![p] = Idle]
  /\ UNCHANGED <<free, lost, panicked>>

\* The program is loaded: uvmalloc once more, for the guard page and stack.
Loaded(p) ==
  /\ Complete(p, "exec") /\ pc[p].end = 1
  /\ pc' = [pc EXCEPT ![p].start = 1, ![p].end = 3, ![p].newsz = PGSIZE]
  /\ UNCHANGED <<free, lost, panicked, space, sz>>

\* The arguments do not fit on the stack, or the file cannot be read.
ExecBad(p) ==
  /\ Complete(p, "exec")
  /\ Abandon(p, pc[p].new, pc[p].end * PGSIZE)

\* Commit to the new image: the trapframe stays, the rest of the old is freed.
Commit(p) ==
  /\ Complete(p, "exec") /\ pc[p].end = 3
  /\ page_kfree(proc_freepagetable(space[p], sz[p]))
  /\ space' = [space EXCEPT ![p] = [pc[p].new EXCEPT !.trapframe = space[p].trapframe]]
  /\ sz' = [sz EXCEPT ![p] = 3 * PGSIZE]
  /\ pc' = [pc EXCEPT ![p] = Idle]
  /\ UNCHANGED <<lost, panicked>>

-----------------------------------------------------------------------------
Step(p) ==
  \/ \E q \in Procs : fork(p, q)
  \/ exec(p) \/ exit(p)
  \/ \E n \in Increments : GrowEager(p, n) \/ GrowLazy(p, n) \/ Shrink(p, n)
  \/ \E v \in VPages : vmfault(p, v)
  \/ Pagetable(p) \/ Skip(p) \/ Mem(p) \/ mappages(p)
  \/ Grown(p) \/ Forked(p) \/ Loaded(p) \/ ExecBad(p) \/ Commit(p)

\* After a panic nothing runs.
Next ==
  \/ ~panicked /\ \E p \in Procs : Step(p)
  \/ panicked /\ UNCHANGED vars

Spec == Init /\ [][Next]_vars

-----------------------------------------------------------------------------
(* Properties.                                                             *)

\* The places of a page table that hold a page, each with its page, and all
\* places there are: also those of the spaces being built, and the page a call
\* has just got.
Filled(s) ==
  {<<f, 0, s[f]>> : f \in {g \in {"trapframe", "root", "top"} : s[g] # 0}}
    \cup {<<"table", g, s.table[g]>> : g \in {h \in Groups : s.table[h] # 0}}
    \cup {<<"leaf", v, s.leaf[v]>> : v \in {w \in VPages : s.leaf[w] # 0}}

Holders ==
  UNION {{<<p, "space", f>> : f \in Filled(space[p])}
           \cup {<<p, "new", f>> : f \in Filled(pc[p].new)}
           \cup {<<p, "mem", <<"", 0, m>>>> : m \in Nonzero({pc[p].mem})} : p \in Procs}

Held == {h[3][3] : h \in Holders}

\* Every page is in exactly one place: free, in one page table or mapped by it,
\* in the hands of one call, or handed to the wrong allocator by vmfault (see
\* NoPageLost).  No failure of fork, exec or sbrk half way, with other processes
\* taking and returning memory meanwhile, leaks a page or leaves it in two places.
\* A process has nothing mapped beyond its size, except what a call is still
\* mapping: so freewalk never finds a leaf, mappages never one to remap, and what
\* sbrk took away stays inaccessible.
PagesOwnedOnce ==
  /\ Cardinality(Holders) = Cardinality(Held)
  /\ free \cup lost \cup Held = Pages
  /\ Cardinality(free) + Cardinality(lost) + Cardinality(Held) = NPAGES
  /\ \A p \in Procs, v \in VPages : space[p].leaf[v] # 0 =>
       \/ v < PGROUNDUP(sz[p])
       \/ pc[p].op = "sbrk" /\ v < pc[p].i

\* No page is lost: each is free, or someone has it who will free it.  This is what
\* usertests counts the free pages for (it fails with "lost some free pages").
NoPageLost == Pages = free \cup Held
=============================================================================
