------------------------------- MODULE UserMem -------------------------------
(***************************************************************************)
(* How the kernel reads and writes the memory of a process: copyout,       *)
(* copyin and copyinstr of vm.c with the page faults they take for pages   *)
(* sbrk has promised and not yet allocated, and their callers in syscall.c *)
(* and proc.c.  A space is [sz, pt, mem, free]: the size, the page table   *)
(* (the frame of a page and whether the user may write it or use it at     *)
(* all), the bytes of the frames and the frames that are free.             *)
(***************************************************************************)
EXTENDS Integers, Sequences, SequencesExt, FiniteSets

CONSTANTS
  PGSIZE,    \* bytes in a page (4096)
  MAXVA,     \* one beyond the highest virtual address, a multiple of PGSIZE
  WORD       \* sizeof(uint64) (8)

NONE == 0    \* no frame: the page is not mapped

PGROUNDDOWN(va) == va - (va % PGSIZE)
PageOf(va) == va \div PGSIZE
Lesser(a, b) == IF a < b THEN a ELSE b

\* The frame of the page at va if the user may use it.
walkaddr(s, va) ==
  IF va >= MAXVA \/ ~s.pt[PageOf(va)].user THEN NONE ELSE s.pt[PageOf(va)].frame

ismapped(s, va) == s.pt[PageOf(va)].frame # NONE

\* A fresh page of zeros; NONE if va is beyond the size, mapped or memory is out.
vmfault(s, va) ==
  IF va >= s.sz \/ ismapped(s, va) \/ s.free = {} THEN [s |-> s, pa |-> NONE]
  ELSE LET f == CHOOSE f \in s.free : TRUE IN
       [s |-> [s EXCEPT !.free = @ \ {f}, !.mem[f] = [i \in 0..(PGSIZE - 1) |-> 0],
                        !.pt[PageOf(va)] = [frame |-> f, write |-> TRUE, user |-> TRUE]],
        pa |-> f]

\* The page at va, faulted in if need be.
Fetch(s, va) ==
  IF walkaddr(s, va) # NONE THEN [s |-> s, pa |-> walkaddr(s, va)] ELSE vmfault(s, va)

\* Fault: a piece may be a whole page wherever it starts.
Piece_WholePage(va, len) == Lesser(PGSIZE, len)

\* The bytes of len that lie in the page of va.
Piece(va, len) == Lesser(PGSIZE - (va - PGROUNDDOWN(va)), len)

\* n bytes of frame f from where va is in its page.
Bytes(s, f, va, n) == [i \in 1..n |-> s.mem[f][((va % PGSIZE) + i - 1) % PGSIZE]]

RECURSIVE copyout(_, _, _), copyin(_, _, _), copyinstr(_, _, _)

\* src goes to dstva, page by page.
copyout(s, dstva, src) ==
  IF src = <<>> THEN [s |-> s, ok |-> TRUE]
  ELSE LET va0 == PGROUNDDOWN(dstva)
           f == IF va0 >= MAXVA THEN [s |-> s, pa |-> NONE] ELSE Fetch(s, va0)
           off == dstva - va0
           n == Piece(dstva, Len(src))
           filled == [i \in 0..(PGSIZE - 1) |->
                        IF i \in off..(off + n - 1) THEN src[i - off + 1] ELSE f.s.mem[f.pa][i]]
       IN IF f.pa = NONE \/ ~f.s.pt[PageOf(va0)].write THEN [s |-> f.s, ok |-> FALSE]
          ELSE copyout([f.s EXCEPT !.mem[f.pa] = filled], va0 + PGSIZE,
                       SubSeq(src, n + 1, Len(src)))

\* len bytes from srcva.
copyin(s, srcva, len) ==
  IF len = 0 THEN [s |-> s, ok |-> TRUE, dst |-> <<>>]
  ELSE LET va0 == PGROUNDDOWN(srcva)
           f == Fetch(s, va0)
           n == Piece(srcva, len)
       IN IF f.pa = NONE THEN [s |-> f.s, ok |-> FALSE, dst |-> <<>>]
          ELSE LET r == copyin(f.s, va0 + PGSIZE, len - n) IN
               [r EXCEPT !.dst = Bytes(f.s, f.pa, srcva, n) \o @]

\* The bytes up to a 0, of which there are at most max.  No page is faulted in.
copyinstr(s, srcva, max) ==
  LET va0 == PGROUNDDOWN(srcva)
      pa == walkaddr(s, va0)
      n == Piece(srcva, max)
      part == Bytes(s, pa, srcva, n)
      end == SelectInSeq(part, LAMBDA c : c = 0)
  IN IF max = 0 \/ pa = NONE THEN [ok |-> FALSE, dst |-> <<>>]
     ELSE IF end # 0 THEN [ok |-> TRUE, dst |-> SubSeq(part, 1, end)]
     ELSE LET r == copyinstr(s, va0 + PGSIZE, max - n) IN [r EXCEPT !.dst = part \o @]

\* A word of the process; addresses wrap around at 2 * MAXVA in the second test.
fetchaddr(s, addr) ==
  IF addr >= s.sz \/ (addr + WORD) % (2 * MAXVA) > s.sz
  THEN [s |-> s, ok |-> FALSE, dst |-> <<>>] ELSE copyin(s, addr, WORD)

\* The length of a string of the process, or -1.
fetchstr(s, addr, max) ==
  LET r == copyinstr(s, addr, max) IN IF r.ok THEN Len(r.dst) - 1 ELSE -1

\* A kernel address is a sequence of bytes here, a user address a number.
either_copyout(s, user_dst, dst, src) ==
  IF user_dst THEN copyout(s, dst, src) ELSE [s |-> s, ok |-> TRUE]
either_copyin(s, user_src, src, len) ==
  IF user_src THEN copyin(s, src, len) ELSE [s |-> s, ok |-> TRUE, dst |-> SubSeq(src, 1, len)]

-----------------------------------------------------------------------------
(* The same, seen by the process: one flat memory, without pages.          *)

Pg(s, a) == s.pt[PageOf(a)]
Lazy(s, a) == a < MAXVA /\ ~ismapped(s, a) /\ PGROUNDDOWN(a) < s.sz
Usable(s, a) == a < MAXVA /\ (Lazy(s, a) \/ (ismapped(s, a) /\ Pg(s, a).user))
Visible(s, a) ==
  IF ~Usable(s, a) THEN -1 ELSE IF Lazy(s, a) THEN 0 ELSE s.mem[Pg(s, a).frame][a % PGSIZE]
Mem(s) == [a \in 0..(MAXVA - 1) |-> Visible(s, a)]
Over(m, va, src) ==
  [a \in DOMAIN m |-> IF a \in va..(va + Len(src) - 1) THEN src[a - va + 1] ELSE m[a]]
Enough(s, R) == Cardinality({PageOf(a) : a \in {b \in R : Lazy(s, b)}}) <= Cardinality(s.free)

\* Every frame is free or the frame of one page.
FramesOnce(s) ==
  LET used == {p \in DOMAIN s.pt : s.pt[p].frame # NONE} IN
  /\ {s.pt[p].frame : p \in used} \cup s.free = DOMAIN s.mem \ {NONE}
  /\ Cardinality(used) + Cardinality(s.free) = Cardinality(DOMAIN s.mem \ {NONE})

\* copyout writes all of src if the process may write there, and else a part of it
\* from the front; no other byte the process sees changes, and no frame is lost.
WritesFlat(s, va, src) ==
  LET r == copyout(s, va, src)
      R == va..(va + Len(src) - 1)
      may == \A a \in R : Usable(s, a) /\ (ismapped(s, a) => Pg(s, a).write)
  IN /\ r.ok <=> may /\ Enough(s, R)
     /\ \E k \in 0..Len(src) : (r.ok => k = Len(src)) /\ Mem(r.s) = Over(Mem(s), va, SubSeq(src, 1, k))
     /\ FramesOnce(r.s)

\* copyin gives the bytes the process sees and changes none of them.
ReadsFlat(s, va, len) ==
  LET r == copyin(s, va, len)
      R == va..(va + len - 1)
  IN /\ r.ok <=> (\A a \in R : Usable(s, a)) /\ Enough(s, R)
     /\ r.ok => r.dst = [i \in 1..len |-> Visible(s, va + i - 1)]
     /\ Mem(r.s) = Mem(s) /\ FramesOnce(r.s)

\* copyinstr gives the string at va if it ends within max bytes of mapped pages.
StringFlat(s, va, max) ==
  LET r == copyinstr(s, va, max)
      ends == {k \in 1..max : /\ \A i \in 0..(k - 1) : Usable(s, va + i) /\ ~Lazy(s, va + i)
                             /\ Visible(s, va + k - 1) = 0
                             /\ \A i \in 0..(k - 2) : Visible(s, va + i) # 0}
  IN /\ r.ok <=> ends # {}
     /\ r.ok => \A k \in ends : r.dst = [i \in 1..k |-> Visible(s, va + i - 1)]
     /\ fetchstr(s, va, max) = IF ends = {} THEN -1 ELSE (CHOOSE k \in ends : TRUE) - 1

\* fetchaddr reads a word that lies below the size, and no other.
WordFlat(s, va) ==
  LET r == fetchaddr(s, va) IN
  r.ok => va + WORD <= s.sz /\ r.dst = [i \in 1..WORD |-> Visible(s, va + i - 1)]
=============================================================================
