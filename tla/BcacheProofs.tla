---------------------------- MODULE BcacheProofs -----------------------------
(***************************************************************************)
(* Proofs that the buffer cache keeps a buffer for who has it, counts      *)
(* references exactly, and shows the latest contents of every block, for   *)
(* any number of processes, blocks and buffers.                            *)
(***************************************************************************)
EXTENDS Bcache, WellFoundedInduction, FiniteSetTheorems, TLAPS

-----------------------------------------------------------------------------
(* The invariant.                                                          *)

Places == {"idle", "lock", "bread", "use", "put"}

BufType == [blockno : Blocks \cup {NULL}, valid : BOOLEAN, refcnt : Nat,
            lock : Procs \cup {NULL}, data : Vals \cup {NULL}]

TypeOK ==
  /\ list \in Seq(Bufs) /\ bcache_count \in Nat
  /\ buf \in [Bufs -> BufType]
  /\ disk \in [Blocks -> Vals] /\ latest \in [Blocks -> Vals]
  /\ pinned \in SUBSET Blocks
  /\ pc \in [Procs -> [at : Places, buf : Bufs \cup {NULL}, blockno : Blocks \cup {NULL}]]

\* The list names no buffer twice, it has not shrunk below NBUF, and it is longer
\* only while its last buffer is in use.  Other buffers are zeroed.
Listed ==
  /\ \A i, j \in DOMAIN list : list[i] = list[j] => i = j
  /\ bcache_count = Len(list) /\ Len(list) >= NBUF
  /\ Len(list) > NBUF => buf[list[Len(list)]].refcnt # 0
  /\ \A b \in Bufs \ InList : buf[b] = Zeroed

\* What a process knows of the buffer it has.
Has(p) ==
  /\ pc[p].buf = NULL <=> pc[p].at = "idle"
  /\ pc[p].buf # NULL => /\ pc[p].buf \in InList /\ pc[p].blockno \in Blocks
                         /\ buf[pc[p].buf].blockno = pc[p].blockno
  /\ pc[p].at \in {"bread", "use"} => buf[pc[p].buf].lock = p
  /\ pc[p].at = "use" => buf[pc[p].buf].valid

\* No block has two buffers.
OneBuffer ==
  \A b, c \in InList : buf[b].blockno = buf[c].blockno /\ buf[b].blockno \in Blocks => b = c

Counted ==
  \A b \in Bufs : buf[b].refcnt =
    Cardinality(Uses(b)) + (IF buf[b].blockno \in pinned THEN 1 ELSE 0)

\* A valid buffer has the latest contents; so has the disk, unless the block is
\* pinned, which keeps its buffer, or somebody is changing it.
Fresh ==
  /\ \A b \in Bufs : buf[b].valid => buf[b].blockno \in Blocks /\ buf[b].data = latest[buf[b].blockno]
  /\ \A n \in pinned : \E b \in InList : buf[b].blockno = n /\ buf[b].valid
  /\ \A n \in Blocks : disk[n] = latest[n] \/ n \in pinned
                       \/ \E p \in Procs : pc[p].at = "use" /\ pc[p].blockno = n

Coherent ==
  TypeOK /\ Listed /\ (\A p \in Procs : Has(p)) /\ OneBuffer /\ Counted /\ Fresh

-----------------------------------------------------------------------------
(* Facts about numbers and counting.                                       *)

\* A set of natural numbers has a least element (for the shrink loop of brelse).
LEMMA Least ==
  ASSUME NEW S \in SUBSET Nat, S # {}
  PROVE  \E m \in S : \A k \in S : m <= k
<1> DEFINE Below == {ss \in Nat \X Nat : ss[1] < ss[2]}
<1>1. OpToRel(<, Nat) = Below
  BY Zenon DEF OpToRel
<1>2. IsWellFoundedOn(Below, Nat)
  BY <1>1, NatLessThanWellFounded, Zenon
<1>3. \A x, y \in Nat : x < y => <<x, y>> \in Below
  BY Zenon
<1> HIDE DEF Below
<1>4. PICK m \in S : \A y \in S : ~(<<y, m>> \in Below)
  BY <1>2, WFMin, Zenon
<1>5. ASSUME NEW y \in S PROVE m <= y
  <2>1. ~(y < m)
    BY <1>3, <1>4, Zenon
  <2>2. QED
    BY ONLY <2>1
<1>6. QED
  BY <1>5, Zenon

\* Updates of a buffer keep its type.
LEMMA Retyped ==
  ASSUME NEW r \in BufType
  PROVE  /\ \A x \in Procs \cup {NULL} : [r EXCEPT !.lock = x] \in BufType
         /\ \A x \in Nat : [r EXCEPT !.refcnt = x] \in BufType
         /\ \A x \in Vals : [r EXCEPT !.data = x] \in BufType
         /\ \A x \in Vals : [r EXCEPT !.data = x, !.valid = TRUE] \in BufType
         /\ \A n \in Blocks : [r EXCEPT !.blockno = n, !.valid = FALSE, !.refcnt = 1] \in BufType
         /\ \A n \in Blocks : [Zeroed EXCEPT !.blockno = n, !.refcnt = 1] \in BufType
         /\ Zeroed \in BufType
  BY Zenon DEF BufType, Zeroed

\* Counting the processes that use a buffer.
LEMMA Counting ==
  ASSUME NEW S \in SUBSET Procs
  PROVE  /\ Cardinality(S) \in Nat /\ (Cardinality(S) = 0 <=> S = {})
         /\ \A p \in Procs \ S : Cardinality(S \cup {p}) = Cardinality(S) + 1
         /\ \A p \in S : Cardinality(S \ {p}) = Cardinality(S) - 1
<1>1. IsFiniteSet(S)
  BY BcacheAssumption, FS_Subset, Zenon DEF BcacheAssumption
<1>2. Cardinality(S) \in Nat /\ (Cardinality(S) = 0 <=> S = {})
  BY <1>1, FS_CardinalityType, FS_EmptySet, Zenon
<1>3. \A p \in Procs \ S : Cardinality(S \cup {p}) = Cardinality(S) + 1
  BY <1>1, FS_AddElement, Zenon
<1>4. \A p \in S : Cardinality(S \ {p}) = Cardinality(S) - 1
  BY <1>1, FS_RemoveElement, Zenon
<1>5. QED
  BY <1>2, <1>3, <1>4, Zenon

\* A process beyond bget's search has a listed buffer, which counts it.
LEMMA Mine ==
  ASSUME Coherent, NEW p \in Procs, pc[p].at # "idle"
  PROVE  /\ pc[p].buf \in InList /\ pc[p].buf \in Bufs /\ pc[p].blockno \in Blocks
         /\ buf[pc[p].buf].blockno = pc[p].blockno
         /\ p \in Uses(pc[p].buf)
         /\ buf[pc[p].buf].refcnt >= 1 + (IF pc[p].blockno \in pinned THEN 1 ELSE 0)
<1> DEFINE b == pc[p].buf
<1>1. b \in InList /\ b \in Bufs /\ pc[p].blockno \in Blocks /\ buf[b].blockno = pc[p].blockno
  BY Zenon DEF Coherent, Has, TypeOK, InList
<1>2. p \in Uses(b) /\ Uses(b) \in SUBSET Procs
  BY Zenon DEF Uses
<1>3. Cardinality(Uses(b)) \in Nat /\ Cardinality(Uses(b)) # 0
  BY <1>2, Counting, Zenon
<1>4. buf[b].refcnt = Cardinality(Uses(b)) + (IF buf[b].blockno \in pinned THEN 1 ELSE 0)
  BY <1>1, Zenon DEF Coherent, Counted
<1>5. QED
  BY ONLY <1>1, <1>2, <1>3, <1>4

\* A buffer without references is used by nobody and its block is not pinned.
LEMMA Unreferenced ==
  ASSUME Coherent, NEW b \in Bufs, buf[b].refcnt = 0
  PROVE  Uses(b) = {} /\ buf[b].blockno \notin pinned
<1>1. Uses(b) \in SUBSET Procs
  BY Zenon DEF Uses
<1>2. Cardinality(Uses(b)) \in Nat /\ (Cardinality(Uses(b)) = 0 => Uses(b) = {})
  BY <1>1, Counting, Zenon
<1>3. buf[b].refcnt = Cardinality(Uses(b)) + (IF buf[b].blockno \in pinned THEN 1 ELSE 0)
  BY Zenon DEF Coherent, Counted
<1>4. QED
  BY <1>2, <1>3

-----------------------------------------------------------------------------
(* One lemma for each action.                                              *)

\* A process gets the lock of its buffer.
LEMMA AcquireStep ==
  ASSUME Coherent, NEW p \in Procs, acquiresleep(p)
  PROVE  Coherent'
<1> DEFINE b == pc[p].buf
<1>1. b \in InList /\ b \in Bufs /\ pc[p].blockno \in Blocks /\ buf[b].blockno = pc[p].blockno
  BY Mine, Zenon DEF acquiresleep, At
<1>2. InList' = InList
  BY Zenon DEF acquiresleep, InList
<1>3. /\ buf' = [buf EXCEPT ![b].lock = p] /\ pc[p].at = "lock"
      /\ pc' = [pc EXCEPT ![p] = [at |-> "bread", buf |-> b, blockno |-> pc[p].blockno]]
      /\ UNCHANGED <<list, bcache_count, disk, pinned, latest>> /\ buf[b].lock = NULL
  BY Zenon DEF acquiresleep, Goto, At
<1>4. TypeOK'
  <2>1. [buf[b] EXCEPT !.lock = p] \in BufType
    BY <1>1, Retyped, Zenon DEF Coherent, TypeOK
  <2>2. buf' \in [Bufs -> BufType]
    BY <1>1, <1>3, <2>1, Zenon DEF Coherent, TypeOK
  <2>3. QED
    BY <1>1, <1>3, <2>2, Zenon DEF Coherent, TypeOK, Places
<1>5. Listed'
  BY <1>1, <1>2, <1>3 DEF Coherent, TypeOK, BufType, Listed, InList
<1>6. \A q \in Procs : Has(q)'
  BY <1>1, <1>2, <1>3, BcacheAssumption DEF Coherent, TypeOK, BufType, Has, BcacheAssumption
<1>7. OneBuffer'
  BY <1>1, <1>2, <1>3 DEF Coherent, TypeOK, BufType, OneBuffer
<1>8. Counted'
  <2>1. \A c \in Bufs : Uses(c)' = Uses(c)
    BY <1>3, Zenon DEF Uses, Coherent, TypeOK
  <2>2. QED
    BY <1>1, <1>3, <2>1 DEF Coherent, TypeOK, BufType, Counted
<1>9. Fresh'
  BY <1>1, <1>2, <1>3 DEF Coherent, TypeOK, BufType, Fresh
<1>10. QED
  BY <1>4, <1>5, <1>6, <1>7, <1>8, <1>9, Zenon DEF Coherent

\* A process gives up the lock of a buffer that is written or pinned.
LEMMA ReleaseStep ==
  ASSUME Coherent, NEW p \in Procs, releasesleep(p)
  PROVE  Coherent'
<1> DEFINE b == pc[p].buf
<1>1. b \in InList /\ b \in Bufs /\ pc[p].blockno \in Blocks /\ buf[b].blockno = pc[p].blockno
  BY Mine, Zenon DEF releasesleep, At
<1>2. InList' = InList
  BY Zenon DEF releasesleep, InList
<1>3. /\ buf' = [buf EXCEPT ![b].lock = NULL] /\ pc[p].at = "use"
      /\ pc' = [pc EXCEPT ![p] = [at |-> "put", buf |-> b, blockno |-> pc[p].blockno]]
      /\ UNCHANGED <<list, bcache_count, disk, pinned, latest>>
      /\ disk[pc[p].blockno] = buf[b].data \/ pc[p].blockno \in pinned
  BY Zenon DEF releasesleep, Goto, At
<1>4. TypeOK'
  <2>1. [buf[b] EXCEPT !.lock = NULL] \in BufType
    BY <1>1, Retyped, Zenon DEF Coherent, TypeOK
  <2>2. buf' \in [Bufs -> BufType]
    BY <1>1, <1>3, <2>1, Zenon DEF Coherent, TypeOK
  <2>3. QED
    BY <1>1, <1>3, <2>2, Zenon DEF Coherent, TypeOK, Places
<1>5. Listed'
  BY <1>1, <1>2, <1>3 DEF Coherent, TypeOK, BufType, Listed, InList
<1>6. \A q \in Procs : Has(q)'
  <2>1. ASSUME NEW q \in Procs, q # p, pc[q].at \in {"bread", "use"} PROVE pc[q].buf # b
    BY <1>3, <2>1 DEF Coherent, Has
  <2>2. QED
    BY <1>1, <1>2, <1>3, <2>1, BcacheAssumption DEF Coherent, TypeOK, BufType, Has, BcacheAssumption
<1>7. OneBuffer'
  BY <1>1, <1>2, <1>3 DEF Coherent, TypeOK, BufType, OneBuffer
<1>8. Counted'
  <2>1. \A c \in Bufs : Uses(c)' = Uses(c)
    BY <1>3, Zenon DEF Uses, Coherent, TypeOK
  <2>2. QED
    BY <1>1, <1>3, <2>1 DEF Coherent, TypeOK, BufType, Counted
<1>9. Fresh'
  <2>1. buf[b].valid /\ buf[b].data = latest[pc[p].blockno]
    BY <1>1, <1>3 DEF Coherent, Has, Fresh
  <2>2. QED
    BY <1>1, <1>2, <1>3, <2>1 DEF Coherent, TypeOK, BufType, Fresh
<1>10. QED
  BY <1>4, <1>5, <1>6, <1>7, <1>8, <1>9, Zenon DEF Coherent

\* A process changes a block in its buffer.
LEMMA ModifyStep ==
  ASSUME Coherent, NEW p \in Procs, NEW v \in Vals, Modify(p, v)
  PROVE  Coherent'
<1> DEFINE b == pc[p].buf
<1>1. b \in InList /\ b \in Bufs /\ pc[p].blockno \in Blocks /\ buf[b].blockno = pc[p].blockno
  BY Mine, Zenon DEF Modify, At
<1>2. InList' = InList
  BY Zenon DEF Modify, InList
<1>3. /\ buf' = [buf EXCEPT ![b].data = v] /\ pc[p].at = "use"
      /\ latest' = [latest EXCEPT ![pc[p].blockno] = v]
      /\ UNCHANGED <<list, bcache_count, disk, pc, pinned>>
  BY Zenon DEF Modify, Goto, At
<1>4. TypeOK'
  <2>1. [buf[b] EXCEPT !.data = v] \in BufType
    BY <1>1, Retyped, Zenon DEF Coherent, TypeOK
  <2>2. buf' \in [Bufs -> BufType]
    BY <1>1, <1>3, <2>1, Zenon DEF Coherent, TypeOK
  <2>3. QED
    BY <1>1, <1>3, <2>2, Zenon DEF Coherent, TypeOK, Places
<1>5. Listed'
  BY <1>1, <1>2, <1>3 DEF Coherent, TypeOK, BufType, Listed, InList
<1>6. \A q \in Procs : Has(q)'
  BY <1>1, <1>2, <1>3, BcacheAssumption DEF Coherent, TypeOK, BufType, Has, BcacheAssumption
<1>7. OneBuffer'
  BY <1>1, <1>2, <1>3 DEF Coherent, TypeOK, BufType, OneBuffer
<1>8. Counted'
  <2>1. \A c \in Bufs : Uses(c)' = Uses(c)
    BY <1>3, Zenon DEF Uses, Coherent, TypeOK
  <2>2. QED
    BY <1>1, <1>3, <2>1 DEF Coherent, TypeOK, BufType, Counted
<1>9. Fresh'
  <2>1. ASSUME NEW c \in Bufs, c # b, buf[c].valid PROVE buf[c].blockno # pc[p].blockno
    BY <1>1, <2>1 DEF Coherent, Listed, Zeroed, OneBuffer
  <2>2. \A c \in Bufs : buf'[c].valid => /\ buf'[c].blockno \in Blocks
                                         /\ buf'[c].data = latest'[buf'[c].blockno]
    BY <1>1, <1>3, <2>1 DEF Coherent, TypeOK, BufType, Fresh
  <2>3. QED
    BY <1>1, <1>2, <1>3, <2>2 DEF Coherent, TypeOK, BufType, Fresh
<1>10. QED
  BY <1>4, <1>5, <1>6, <1>7, <1>8, <1>9, Zenon DEF Coherent

\* A process writes its buffer to the disk.
LEMMA WriteStep ==
  ASSUME Coherent, NEW p \in Procs, bwrite(p)
  PROVE  Coherent'
<1> DEFINE b == pc[p].buf
<1>1. b \in InList /\ b \in Bufs /\ pc[p].blockno \in Blocks /\ buf[b].blockno = pc[p].blockno
  BY Mine, Zenon DEF bwrite, At
<1>2. InList' = InList
  BY Zenon DEF bwrite, InList
<1>3. /\ disk' = [disk EXCEPT ![pc[p].blockno] = latest[pc[p].blockno]]
      /\ pc[p].at = "use" /\ UNCHANGED <<list, bcache_count, buf, pc, pinned, latest>>
  <2>1. buf[b].valid
    BY Zenon DEF bwrite, At, Coherent, Has
  <2>2. buf[b].data = latest[pc[p].blockno]
    BY <1>1, <2>1 DEF Coherent, Fresh
  <2>3. QED
    BY <1>1, <2>2, Zenon DEF bwrite, At
<1>4. TypeOK'
  BY <1>1, <1>3, Zenon DEF Coherent, TypeOK, BufType
<1>5. Listed'
  BY <1>1, <1>2, <1>3, Zenon DEF Coherent, TypeOK, BufType, Listed, InList
<1>6. \A q \in Procs : Has(q)'
  BY <1>1, <1>2, <1>3, BcacheAssumption, Zenon DEF Coherent, TypeOK, BufType, Has, BcacheAssumption
<1>7. OneBuffer'
  BY <1>1, <1>2, <1>3, Zenon DEF Coherent, TypeOK, BufType, OneBuffer
<1>8. Counted'
  <2>1. \A c \in Bufs : Uses(c)' = Uses(c)
    BY <1>3, Zenon DEF Uses, Coherent, TypeOK
  <2>2. QED
    BY <1>1, <1>3, <2>1, Zenon DEF Coherent, TypeOK, BufType, Counted
<1>9. Fresh'
  BY <1>1, <1>2, <1>3, Zenon DEF Coherent, TypeOK, BufType, Fresh
<1>10. QED
  BY <1>4, <1>5, <1>6, <1>7, <1>8, <1>9, Zenon DEF Coherent

\* log_write pins the block of its buffer.
LEMMA PinStep ==
  ASSUME Coherent, NEW p \in Procs, bpin(p)
  PROVE  Coherent'
<1> DEFINE b == pc[p].buf
<1>1. b \in InList /\ b \in Bufs /\ pc[p].blockno \in Blocks /\ buf[b].blockno = pc[p].blockno
  BY Mine, Zenon DEF bpin, At
<1>2. InList' = InList
  BY Zenon DEF bpin, InList
<1>3. /\ buf' = [buf EXCEPT ![b].refcnt = @ + 1] /\ pc[p].at = "use"
      /\ pc[p].blockno \notin pinned /\ pinned' = pinned \cup {pc[p].blockno}
      /\ UNCHANGED <<list, bcache_count, disk, pc, latest>>
  BY Zenon DEF bpin, Goto, At
<1>4. TypeOK'
  <2>1. buf[b].refcnt + 1 \in Nat
    BY <1>1 DEF BufType, Coherent, TypeOK
  <2>2. [buf[b] EXCEPT !.refcnt = @ + 1] \in BufType
    BY <1>1, <2>1, Retyped, Zenon DEF Coherent, TypeOK
  <2>3. buf' \in [Bufs -> BufType]
    BY <1>1, <1>3, <2>2, Zenon DEF Coherent, TypeOK
  <2>4. QED
    BY <1>1, <1>3, <2>3, Zenon DEF Coherent, TypeOK, Places
<1>5. Listed'
  BY <1>1, <1>2, <1>3 DEF Coherent, TypeOK, BufType, Listed, InList
<1>6. \A q \in Procs : Has(q)'
  BY <1>1, <1>2, <1>3, BcacheAssumption DEF Coherent, TypeOK, BufType, Has, BcacheAssumption
<1>7. OneBuffer'
  BY <1>1, <1>2, <1>3 DEF Coherent, TypeOK, BufType, OneBuffer
<1>8. Counted'
  <2>1. \A c \in Bufs : Uses(c)' = Uses(c) /\ Cardinality(Uses(c)) \in Nat
    BY <1>3, Counting, Zenon DEF Uses
  <2>2. ASSUME NEW c \in Bufs, c # b PROVE buf[c].blockno # pc[p].blockno
    BY <1>1, <2>2, BcacheAssumption DEF Coherent, Listed, Zeroed, OneBuffer, BcacheAssumption
  <2>3. QED
    BY <1>1, <1>3, <2>1, <2>2 DEF Coherent, TypeOK, BufType, Counted
<1>9. Fresh'
  <2>1. buf[b].valid
    BY <1>3, Zenon DEF Coherent, Has
  <2>2. QED
    BY <1>1, <1>2, <1>3, <2>1 DEF Coherent, TypeOK, BufType, Fresh
<1>10. QED
  BY <1>4, <1>5, <1>6, <1>7, <1>8, <1>9, Zenon DEF Coherent

\* install_trans unpins a block it has written.
LEMMA UnpinStep ==
  ASSUME Coherent, NEW p \in Procs, bunpin(p)
  PROVE  Coherent'
<1> DEFINE b == pc[p].buf
<1>1. b \in InList /\ b \in Bufs /\ pc[p].blockno \in Blocks /\ buf[b].blockno = pc[p].blockno
  BY Mine, Zenon DEF bunpin, At
<1>2. InList' = InList
  BY Zenon DEF bunpin, InList
<1>3. /\ buf' = [buf EXCEPT ![b].refcnt = @ - 1] /\ pc[p].at = "use" /\ disk[pc[p].blockno] = buf[b].data
      /\ pc[p].blockno \in pinned /\ pinned' = pinned \ {pc[p].blockno}
      /\ UNCHANGED <<list, bcache_count, disk, pc, latest>>
  BY Zenon DEF bunpin, Goto, At
<1>4. TypeOK'
  <2>1. buf[b].refcnt - 1 \in Nat
    <3>1. buf[b].refcnt \in Nat
      BY <1>1, Zenon DEF BufType, Coherent, TypeOK
    <3>2. QED
      BY <1>3, <3>1, Mine
  <2>2. [buf[b] EXCEPT !.refcnt = @ - 1] \in BufType
    BY <1>1, <2>1, Retyped, Zenon DEF Coherent, TypeOK
  <2>3. buf' \in [Bufs -> BufType]
    BY <1>1, <1>3, <2>2, Zenon DEF Coherent, TypeOK
  <2>4. QED
    BY <1>1, <1>3, <2>3, Zenon DEF Coherent, TypeOK, Places
<1>5. Listed'
  <2>1. buf[b].refcnt - 1 # 0
    BY <1>3, Mine
  <2>2. QED
    BY <1>1, <1>2, <1>3, <2>1 DEF Coherent, TypeOK, BufType, Listed, InList
<1>6. \A q \in Procs : Has(q)'
  BY <1>1, <1>2, <1>3, BcacheAssumption DEF Coherent, TypeOK, BufType, Has, BcacheAssumption
<1>7. OneBuffer'
  BY <1>1, <1>2, <1>3 DEF Coherent, TypeOK, BufType, OneBuffer
<1>8. Counted'
  <2>1. \A c \in Bufs : Uses(c)' = Uses(c) /\ Cardinality(Uses(c)) \in Nat
    BY <1>3, Counting, Zenon DEF Uses
  <2>2. ASSUME NEW c \in Bufs, c # b PROVE buf[c].blockno # pc[p].blockno
    BY <1>1, <2>2, BcacheAssumption DEF Coherent, Listed, Zeroed, OneBuffer, BcacheAssumption
  <2>3. QED
    BY <1>1, <1>3, <2>1, <2>2 DEF Coherent, TypeOK, BufType, Counted
<1>9. Fresh'
  <2>1. buf[b].valid /\ buf[b].data = latest[pc[p].blockno]
    BY <1>1, <1>3 DEF Coherent, Has, Fresh
  <2>2. QED
    BY <1>1, <1>2, <1>3, <2>1 DEF Coherent, TypeOK, BufType, Fresh
<1>10. QED
  BY <1>4, <1>5, <1>6, <1>7, <1>8, <1>9, Zenon DEF Coherent

\* bread reads the block unless the buffer is valid.
LEMMA ReadStep ==
  ASSUME Coherent, NEW p \in Procs, bread(p)
  PROVE  Coherent'
<1> DEFINE b == pc[p].buf
<1>1. b \in InList /\ b \in Bufs /\ pc[p].blockno \in Blocks /\ buf[b].blockno = pc[p].blockno
  BY Mine, Zenon DEF bread, At
<1>2. InList' = InList
  BY Zenon DEF bread, InList
<1>0. buf' = IF buf[b].valid THEN buf
             ELSE [buf EXCEPT ![b].data = disk[pc[p].blockno], ![b].valid = TRUE]
  BY <1>1, Zenon DEF bread
<1>3. /\ pc[p].at = "bread"
      /\ pc' = [pc EXCEPT ![p] = [at |-> "use", buf |-> b, blockno |-> pc[p].blockno]]
      /\ UNCHANGED <<list, bcache_count, disk, pinned, latest>>
  BY Zenon DEF bread, Goto, At
<1>4. TypeOK'
  <2>1. [buf[b] EXCEPT !.data = disk[pc[p].blockno], !.valid = TRUE] \in BufType
    BY <1>1, Retyped, Zenon DEF Coherent, TypeOK
  <2>2. buf' \in [Bufs -> BufType]
    BY <1>0, <1>1, <2>1, Zenon DEF Coherent, TypeOK
  <2>3. QED
    BY <1>1, <1>3, <2>2, Zenon DEF Coherent, TypeOK, Places
<1>5. ASSUME ~buf[b].valid PROVE disk[pc[p].blockno] = latest[pc[p].blockno]
  <2>1. pc[p].blockno \notin pinned
    BY <1>1, <1>5 DEF Coherent, Fresh, OneBuffer
  <2>2. ASSUME NEW q \in Procs, pc[q].at = "use", pc[q].blockno = pc[p].blockno PROVE FALSE
    <3>1. pc[q].buf = b
      BY <1>1, <2>2, Mine DEF Coherent, OneBuffer
    <3>2. buf[b].lock = q /\ buf[b].lock = p
      BY <1>3, <2>2, <3>1, Zenon DEF Coherent, Has
    <3>3. QED
      BY <1>3, <2>2, <3>2, Zenon
  <2>3. QED
    BY <1>1, <2>1, <2>2, Zenon DEF Coherent, Fresh
<1>6. /\ buf'[b].valid /\ buf'[b].data = latest[pc[p].blockno]
      /\ \A c \in Bufs : /\ buf'[c].lock = buf[c].lock /\ buf'[c].blockno = buf[c].blockno
                         /\ buf'[c].refcnt = buf[c].refcnt /\ (c # b => buf'[c] = buf[c])
  <2>1. CASE buf[b].valid
    BY <1>0, <1>1, <2>1 DEF Coherent, Fresh
  <2>2. CASE ~buf[b].valid
    BY <1>0, <1>1, <1>5, <2>2 DEF Coherent, TypeOK, BufType
  <2>3. QED
    BY <2>1, <2>2, Zenon
<1>7. Listed'
  BY <1>1, <1>2, <1>3, <1>6 DEF Coherent, TypeOK, Listed, InList
<1>8. \A q \in Procs : Has(q)'
  BY <1>1, <1>2, <1>3, <1>6, BcacheAssumption DEF Coherent, TypeOK, InList, Has, BcacheAssumption
<1>9. OneBuffer'
  BY <1>1, <1>2, <1>3, <1>6 DEF Coherent, TypeOK, InList, OneBuffer
<1>10. Counted'
  <2>1. \A c \in Bufs : Uses(c)' = Uses(c)
    BY <1>3, Zenon DEF Uses, Coherent, TypeOK
  <2>2. QED
    BY <1>3, <1>6, <2>1 DEF Coherent, Counted
<1>11. Fresh'
  <2>1. \A c \in Bufs : buf'[c].valid => /\ buf'[c].blockno \in Blocks
                                         /\ buf'[c].data = latest'[buf'[c].blockno]
    BY <1>1, <1>3, <1>6 DEF Coherent, Fresh
  <2>2. \A n \in pinned' : \E c \in InList' : buf'[c].blockno = n /\ buf'[c].valid
    BY <1>1, <1>2, <1>3, <1>6 DEF Coherent, TypeOK, InList, Fresh
  <2>3. \A n \in Blocks : disk'[n] = latest'[n] \/ n \in pinned'
                          \/ \E q \in Procs : pc'[q].at = "use" /\ pc'[q].blockno = n
    BY <1>1, <1>3, Zenon DEF Coherent, TypeOK, Fresh
  <2>4. QED
    BY <2>1, <2>2, <2>3, Zenon DEF Fresh
<1>12. QED
  BY <1>4, <1>7, <1>8, <1>9, <1>10, <1>11, Zenon DEF Coherent

\* bget finds the block's buffer and refers to it.
LEMMA HitStep ==
  ASSUME Coherent, NEW p \in Procs, NEW n \in Blocks, BgetHit(p, n)
  PROVE  Coherent'
<1>1. PICK b \in Cached(n) : /\ buf' = [buf EXCEPT ![b].refcnt = @ + 1]
                             /\ Goto(p, "lock", b, n)
  BY Zenon DEF BgetHit
<1>2. b \in InList /\ b \in Bufs /\ buf[b].blockno = n /\ InList' = InList
  BY DEF BgetHit, Cached, InList, Coherent, TypeOK
<1>3. /\ buf' = [buf EXCEPT ![b].refcnt = @ + 1] /\ pc[p].at = "idle" /\ pc[p].buf = NULL
      /\ pc' = [pc EXCEPT ![p] = [at |-> "lock", buf |-> b, blockno |-> n]]
      /\ UNCHANGED <<list, bcache_count, disk, pinned, latest>>
  BY <1>1, Zenon DEF BgetHit, Goto, At, Coherent, Has
<1>4. buf[b].refcnt \in Nat /\ buf[b].refcnt + 1 \in Nat
  BY <1>2 DEF Coherent, TypeOK, BufType
<1>5. TypeOK'
  <2>1. [buf[b] EXCEPT !.refcnt = @ + 1] \in BufType
    BY <1>2, <1>4, Retyped, Zenon DEF Coherent, TypeOK
  <2>2. buf' \in [Bufs -> BufType]
    BY <1>2, <1>3, <2>1, Zenon DEF Coherent, TypeOK
  <2>3. QED
    BY <1>2, <1>3, <2>2, Zenon DEF Coherent, TypeOK, Places
<1>6. Listed'
  BY <1>2, <1>3, <1>4 DEF Coherent, TypeOK, BufType, Listed, InList
<1>7. \A q \in Procs : Has(q)'
  BY <1>2, <1>3, BcacheAssumption DEF Coherent, TypeOK, BufType, Has, BcacheAssumption
<1>8. OneBuffer'
  BY <1>2, <1>3 DEF Coherent, TypeOK, BufType, OneBuffer
<1>9. Counted'
  <2>1. \A c \in Bufs \ {b} : Uses(c)' = Uses(c)
    BY <1>2, <1>3, BcacheAssumption, Zenon DEF Uses, Coherent, TypeOK, BcacheAssumption
  <2>2. Uses(b)' = Uses(b) \cup {p} /\ p \notin Uses(b) /\ Uses(b) \in SUBSET Procs
    BY <1>2, <1>3, BcacheAssumption DEF Uses, Coherent, TypeOK, BcacheAssumption
  <2>3. Cardinality(Uses(b))' = Cardinality(Uses(b)) + 1 /\ Cardinality(Uses(b)) \in Nat
    BY ONLY <2>2, Counting
  <2>4. QED
    BY <1>2, <1>3, <2>1, <2>3 DEF Coherent, TypeOK, BufType, Counted
<1>10. Fresh'
  BY <1>2, <1>3 DEF Coherent, TypeOK, BufType, Fresh
<1>11. QED
  BY <1>5, <1>6, <1>7, <1>8, <1>9, <1>10, Zenon DEF Coherent

\* A block without a buffer is not pinned, nobody uses it, and the disk has it.
LEMMA Uncached ==
  ASSUME Coherent, NEW n \in Blocks, Cached(n) = {}
  PROVE  n \notin pinned /\ disk[n] = latest[n] /\ \A b \in Bufs : buf[b].blockno # n
<1>1. \A b \in Bufs : buf[b].blockno # n
  BY BcacheAssumption DEF Cached, Coherent, Listed, Zeroed, BcacheAssumption
<1>2. n \notin pinned
  BY Zenon DEF Cached, Coherent, Fresh
<1>3. \A p \in Procs : pc[p].at = "use" => pc[p].blockno # n
  BY <1>1, Mine, Zenon
<1>4. QED
  BY <1>1, <1>2, <1>3, Zenon DEF Coherent, Fresh

\* bget gives the block the buffer that has been unused longest.
LEMMA RecycleStep ==
  ASSUME Coherent, NEW p \in Procs, NEW n \in Blocks, BgetRecycle(p, n)
  PROVE  Coherent'
<1>1. PICK b \in InList : /\ buf[b].refcnt = 0
                          /\ buf' = [buf EXCEPT ![b] = Recycled(b, n)]
                          /\ Goto(p, "lock", b, n)
  BY Zenon DEF BgetRecycle, Unused, InList
<1>2. b \in InList /\ b \in Bufs /\ buf[b].refcnt = 0 /\ InList' = InList
  BY <1>1 DEF BgetRecycle, InList, Coherent, TypeOK
<1>3. /\ buf' = [buf EXCEPT ![b] = [buf[b] EXCEPT !.blockno = n, !.valid = FALSE, !.refcnt = 1]]
      /\ pc' = [pc EXCEPT ![p] = [at |-> "lock", buf |-> b, blockno |-> n]]
      /\ pc[p].at = "idle" /\ pc[p].buf = NULL
      /\ UNCHANGED <<list, bcache_count, disk, pinned, latest>>
  BY <1>1, Zenon DEF BgetRecycle, Recycled, Goto, At, Coherent, Has
<1>4. Uses(b) = {} /\ buf[b].blockno \notin pinned
  BY <1>2, Unreferenced, Zenon
<1>5. n \notin pinned /\ disk[n] = latest[n] /\ \A c \in Bufs : buf[c].blockno # n
  BY Uncached, Zenon DEF BgetRecycle
<1>6. TypeOK'
  <2>1. [buf[b] EXCEPT !.blockno = n, !.valid = FALSE, !.refcnt = 1] \in BufType
    BY <1>2, Retyped, Zenon DEF Coherent, TypeOK
  <2>2. buf' \in [Bufs -> BufType]
    BY <1>2, <1>3, <2>1, Zenon DEF Coherent, TypeOK
  <2>3. QED
    BY <1>2, <1>3, <2>2, Zenon DEF Coherent, TypeOK, Places
<1>7. /\ buf'[b].blockno = n /\ ~buf'[b].valid /\ buf'[b].refcnt = 1 /\ buf'[b].lock = buf[b].lock
      /\ \A c \in Bufs \ {b} : buf'[c] = buf[c]
  BY <1>2, <1>3 DEF Coherent, TypeOK, BufType
<1>8. Listed'
  BY <1>2, <1>3, <1>7 DEF Coherent, TypeOK, Listed, InList
<1>9. \A q \in Procs : Has(q)'
  <2>1. \A q \in Procs : pc[q].buf # b
    BY <1>4, Zenon DEF Uses
  <2>2. QED
    BY <1>2, <1>3, <1>7, <2>1, BcacheAssumption DEF Coherent, TypeOK, InList, Has, BcacheAssumption
<1>10. OneBuffer'
  BY <1>2, <1>3, <1>5, <1>7 DEF Coherent, TypeOK, InList, OneBuffer
<1>11. Counted'
  <2>1. \A c \in Bufs \ {b} : Uses(c)' = Uses(c)
    BY <1>2, <1>3, BcacheAssumption, Zenon DEF Uses, Coherent, TypeOK, BcacheAssumption
  <2>2. Uses(b)' = {p}
    BY <1>2, <1>3, <1>4, Zenon DEF Uses, Coherent, TypeOK
  <2>3. Cardinality(Uses(b))' = 1
    BY <2>2, FS_Singleton, Zenon
  <2>4. QED
    BY <1>3, <1>5, <1>7, <2>1, <2>3 DEF Coherent, Counted
<1>12. Fresh'
  <2>1. \A c \in Bufs : buf'[c].valid => /\ buf'[c].blockno \in Blocks
                                         /\ buf'[c].data = latest'[buf'[c].blockno]
    BY <1>3, <1>7 DEF Coherent, Fresh
  <2>2. \A m \in pinned' : \E c \in InList' : buf'[c].blockno = m /\ buf'[c].valid
    BY <1>2, <1>3, <1>4, <1>7 DEF Coherent, TypeOK, InList, Fresh
  <2>3. \A m \in Blocks : disk'[m] = latest'[m] \/ m \in pinned'
                          \/ \E q \in Procs : pc'[q].at = "use" /\ pc'[q].blockno = m
    BY <1>3, Zenon DEF Coherent, TypeOK, Fresh
  <2>4. QED
    BY <2>1, <2>2, <2>3, Zenon DEF Fresh
<1>13. QED
  BY <1>6, <1>8, <1>9, <1>10, <1>11, <1>12, Zenon DEF Coherent

\* bget puts a new buffer in front of the list.
LEMMA GrowStep ==
  ASSUME Coherent, NEW p \in Procs, NEW n \in Blocks, BgetGrow(p, n)
  PROVE  Coherent'
<1>1. PICK b \in Bufs \ InList : /\ buf' = [buf EXCEPT ![b] = [Zeroed EXCEPT !.blockno = n, !.refcnt = 1]]
                                 /\ list' = <<b>> \o list
                                 /\ Goto(p, "lock", b, n)
  BY Zenon DEF BgetGrow
<1>2. /\ pc' = [pc EXCEPT ![p] = [at |-> "lock", buf |-> b, blockno |-> n]]
      /\ pc[p].at = "idle" /\ pc[p].buf = NULL /\ bcache_count' = bcache_count + 1
      /\ UNCHANGED <<disk, pinned, latest>>
  BY <1>1, Zenon DEF BgetGrow, Goto, At, Coherent, Has
<1>3. /\ list' \in Seq(Bufs) /\ Len(list') = Len(list) + 1 /\ list'[1] = b
      /\ \A i \in 1..Len(list) : list'[i + 1] = list[i]
      /\ \A i \in 1..Len(list') : i # 1 => i - 1 \in 1..Len(list) /\ list'[i] = list[i - 1]
  BY <1>1 DEF Coherent, TypeOK
<1>4. InList' = InList \cup {b} /\ InList \subseteq Bufs
  <2>1. Len(list) \in Nat /\ DOMAIN list = 1..Len(list) /\ DOMAIN list' = 1..Len(list')
    BY ONLY <1>3 DEF Coherent, TypeOK
  <2>2. ASSUME NEW c \in InList' PROVE c \in InList \cup {b}
    <3>1. PICK i \in 1..Len(list') : c = list'[i]
      BY <2>1, Zenon DEF InList
    <3>2. CASE i = 1
      BY <1>3, <3>1, <3>2, Zenon
    <3>3. CASE i # 1
      BY <1>3, <2>1, <3>1, <3>3, Zenon DEF InList
    <3>4. QED
      BY <3>2, <3>3, Zenon
  <2>3. ASSUME NEW c \in InList PROVE c \in InList'
    <3>1. PICK i \in 1..Len(list) : c = list[i]
      BY <2>1, Zenon DEF InList
    <3>2. i + 1 \in 1..Len(list') /\ list'[i + 1] = c
      BY ONLY <1>3, <2>1, <3>1
    <3>3. QED
      BY <2>1, <3>2, Zenon DEF InList
  <2>4. b \in InList'
    <3>1. 1 \in 1..Len(list')
      BY ONLY <1>3, <2>1
    <3>2. QED
      BY <1>3, <2>1, <3>1, Zenon DEF InList
  <2>5. InList \subseteq Bufs
    BY DEF InList, Coherent, TypeOK
  <2>6. QED
    BY <2>2, <2>3, <2>4, <2>5, Zenon
<1>5. n \notin pinned /\ \A c \in Bufs : buf[c].blockno # n
  BY Uncached, Zenon DEF BgetGrow
<1>6. /\ buf'[b].blockno = n /\ ~buf'[b].valid /\ buf'[b].refcnt = 1
      /\ \A c \in Bufs \ {b} : buf'[c] = buf[c]
  BY <1>1, Zenon DEF Coherent, TypeOK, BufType, Zeroed
<1>7. \A q \in Procs : pc[q].buf # b
  BY <1>1, BcacheAssumption DEF Coherent, Has, BcacheAssumption
<1>8. TypeOK'
  <2>1. [Zeroed EXCEPT !.blockno = n, !.refcnt = 1] \in BufType
    BY Retyped, Zenon DEF Coherent, TypeOK
  <2>2. buf' \in [Bufs -> BufType]
    BY <1>1, <2>1, Zenon DEF Coherent, TypeOK
  <2>3. QED
    BY <1>2, <1>3, <2>2 DEF Coherent, TypeOK, Places
<1>9. Listed'
  <2>1. \A i, j \in DOMAIN list' : list'[i] = list'[j] => i = j
    BY <1>1, <1>3 DEF Coherent, TypeOK, Listed, InList
  <2>2. /\ bcache_count' = Len(list') /\ Len(list') >= NBUF
    BY <1>2, <1>3, BcacheAssumption DEF Coherent, TypeOK, Listed, BcacheAssumption
  <2>3. Len(list') > 1 /\ buf'[list'[Len(list')]] = buf[list[Len(list)]]
    <3>1. Len(list) \in Nat /\ Len(list) >= 1
      BY BcacheAssumption DEF Coherent, TypeOK, Listed, BcacheAssumption
    <3>2. list'[Len(list')] = list[Len(list)] /\ list[Len(list)] \in InList
      BY ONLY <1>3, <3>1 DEF InList, Coherent, TypeOK
    <3>3. QED
      BY ONLY <1>1, <1>3, <1>6, <3>1, <3>2 DEF InList, Coherent, TypeOK
  <2>4. buf[list[Len(list)]].refcnt # 0
    <3>1. Len(list) \in DOMAIN list
      BY BcacheAssumption DEF Coherent, TypeOK, Listed, BcacheAssumption
    <3>2. QED
      BY <3>1, Zenon DEF BgetGrow, Unused
  <2>5. \A c \in Bufs \ InList' : buf'[c] = Zeroed
    BY <1>4, <1>6, Zenon DEF Coherent, Listed
  <2>6. QED
    BY <2>1, <2>2, <2>3, <2>4, <2>5, Zenon DEF Listed
<1>10. \A q \in Procs : Has(q)'
  <2>1. /\ pc'[p] = [at |-> "lock", buf |-> b, blockno |-> n] /\ b # NULL
        /\ \A q \in Procs \ {p} : pc'[q] = pc[q]
    BY <1>2, BcacheAssumption, Zenon DEF Coherent, TypeOK, BcacheAssumption
  <2>2. Has(p)'
    BY ONLY <1>4, <1>6, <2>1, n \in Blocks DEF Has
  <2>3. ASSUME NEW q \in Procs, q # p PROVE Has(q)'
    <3>1. pc'[q] = pc[q] /\ pc[q].buf # b /\ Has(q)
      BY <1>7, <2>1, <2>3, Zenon DEF Coherent
    <3>2. QED
      BY ONLY <1>4, <1>6, <3>1, Zenon DEF Has
  <2>4. QED
    BY <2>2, <2>3, Zenon
<1>11. OneBuffer'
  BY <1>1, <1>4, <1>5, <1>6 DEF Coherent, OneBuffer
<1>12. Counted'
  <2>1. \A c \in Bufs \ {b} : Uses(c)' = Uses(c)
    BY <1>2, BcacheAssumption, Zenon DEF Uses, Coherent, TypeOK, BcacheAssumption
  <2>2. Uses(b)' = {p}
    BY <1>2, <1>7, Zenon DEF Uses, Coherent, TypeOK
  <2>3. Cardinality(Uses(b))' = 1
    BY <2>2, FS_Singleton, Zenon
  <2>4. QED
    BY <1>2, <1>5, <1>6, <2>1, <2>3 DEF Coherent, Counted
<1>13. Fresh'
  <2>1. \A c \in Bufs : buf'[c].valid => /\ buf'[c].blockno \in Blocks
                                         /\ buf'[c].data = latest'[buf'[c].blockno]
    BY <1>2, <1>6 DEF Coherent, Fresh
  <2>2. \A m \in pinned' : \E c \in InList' : buf'[c].blockno = m /\ buf'[c].valid
    BY <1>1, <1>2, <1>4, <1>6 DEF Coherent, Fresh
  <2>3. \A m \in Blocks : disk'[m] = latest'[m] \/ m \in pinned'
                          \/ \E q \in Procs : pc'[q].at = "use" /\ pc'[q].blockno = m
    BY <1>2, Zenon DEF Coherent, TypeOK, Fresh
  <2>4. QED
    BY <2>1, <2>2, <2>3, Zenon DEF Fresh
<1>14. QED
  BY <1>8, <1>9, <1>10, <1>11, <1>12, <1>13, Zenon DEF Coherent

\* Moving a buffer to the front of the list permutes the list.
LEMMA FrontIs ==
  ASSUME Coherent, NEW b \in InList
  PROVE  /\ MoveToFront(b) \in Seq(Bufs) /\ Len(MoveToFront(b)) = Len(list) /\ MoveToFront(b)[1] = b
         /\ \A i, j \in 1..Len(list) : MoveToFront(b)[i] = MoveToFront(b)[j] => i = j
         /\ \A i \in 1..Len(list) : MoveToFront(b)[i] \in InList
         /\ \A c \in InList : \E i \in 1..Len(list) : MoveToFront(b)[i] = c
<1> DEFINE k == CHOOSE i \in DOMAIN list : list[i] = b
           front == MoveToFront(b)
           n == Len(list)
<1>1. k \in 1..n /\ list[k] = b /\ n \in Nat /\ DOMAIN list = 1..n
  BY DEF InList, Coherent, TypeOK
<1>2. front = [i \in 1..n |-> IF i = 1 THEN b ELSE IF i <= k THEN list[i - 1] ELSE list[i]]
  BY <1>1, Zenon DEF MoveToFront
<1>3. list \in [1..n -> Bufs] /\ \A i, j \in 1..n : list[i] = list[j] => i = j
  BY <1>1 DEF Coherent, TypeOK, Listed
<1> HIDE DEF k, front, n
<1>4. front \in Seq(Bufs) /\ Len(front) = n /\ front[1] = b
  <2>1. front \in [1..n -> Bufs]
    BY ONLY <1>1, <1>2, <1>3
  <2>2. QED
    BY ONLY <1>1, <1>2, <2>1
<1>5. \A i, j \in 1..n : front[i] = front[j] => i = j
  BY ONLY <1>1, <1>2, <1>3
<1>6. \A i \in 1..n : \E j \in 1..n : front[i] = list[j]
  BY ONLY <1>1, <1>2, <1>3
<1>7. ASSUME NEW j \in 1..n PROVE \E i \in 1..n : front[i] = list[j]
  <2>1. CASE j = k
    BY ONLY <1>1, <1>2, <2>1
  <2>2. CASE j < k
    <3>1. j + 1 \in 1..n /\ front[j + 1] = list[j]
      BY ONLY <1>1, <1>2, <2>2
    <3>2. QED
      BY <3>1, Zenon
  <2>3. CASE j > k
    BY ONLY <1>1, <1>2, <2>3
  <2>4. QED
    BY ONLY <1>1, <2>1, <2>2, <2>3
<1>8. /\ \A i \in 1..n : front[i] \in InList
      /\ \A c \in InList : \E i \in 1..n : front[i] = c
  <2>1. InList = {list[i] : i \in 1..n}
    BY <1>1, Zenon DEF InList
  <2>2. \A i \in 1..n : front[i] \in InList
    BY <1>6, <2>1, Zenon
  <2>3. ASSUME NEW c \in InList PROVE \E i \in 1..n : front[i] = c
    <3>1. PICK j \in 1..n : c = list[j]
      BY <2>1, Zenon
    <3>2. QED
      BY <1>7, <3>1, Zenon
  <2>4. QED
    BY <2>2, <2>3, Zenon
<1>9. QED
  BY <1>4, <1>5, <1>8, Zenon DEF front, n

\* The shrink loop frees from the end what is beyond NBUF and not in use, and
\* stops at NBUF or at a buffer it must keep.
LEMMA FreedIs ==
  ASSUME NEW l \in Seq(Bufs), NEW b, NEW refs, Len(l) >= NBUF
  PROVE  LET k == Freed(l, b, refs) IN
         /\ k \in 0..Len(l)
         /\ \A i \in 0..(k - 1) : Len(l) - i > NBUF /\ ~Stops(l[Len(l) - i], b, refs)
         /\ Len(l) - k <= NBUF \/ Stops(l[Len(l) - k], b, refs)
<1> DEFINE Stop(k) == Len(l) - k <= NBUF \/ Stops(l[Len(l) - k], b, refs)
           K == {k \in 0..Len(l) : Stop(k)}
<1>1. Len(l) \in Nat /\ NBUF \in Nat
  BY ONLY BcacheAssumption DEF BcacheAssumption
<1>2. Len(l) \in K /\ K \subseteq Nat
  BY ONLY <1>1
<1>3. PICK m \in K : \A k \in K : m <= k
  BY <1>2, Least, Zenon
<1>4. ASSUME NEW i \in 0..(m - 1)
      PROVE  Len(l) - i > NBUF /\ ~Stops(l[Len(l) - i], b, refs)
  <2>1. i \in 0..Len(l) /\ i < m
    BY ONLY <1>1, <1>3
  <2>2. i \notin K
    BY ONLY <1>2, <1>3, <2>1
  <2>3. ~(Len(l) - i <= NBUF) /\ ~Stops(l[Len(l) - i], b, refs)
    BY <2>1, <2>2, Zenon
  <2>4. QED
    BY ONLY <1>1, <2>1, <2>3
<1>5. \A i \in 0..(m - 1) : Len(l) - i > NBUF /\ ~Stops(l[Len(l) - i], b, refs)
  BY <1>4, Zenon
<1>6. m \in 0..Len(l) /\ (Len(l) - m <= NBUF \/ Stops(l[Len(l) - m], b, refs))
  BY <1>3, Zenon
<1>7. QED
  BY <1>5, <1>6, Zenon DEF Freed

\* brelse drops a reference that is not the last one.
LEMMA DropStep ==
  ASSUME Coherent, NEW p \in Procs, brelse(p), buf[pc[p].buf].refcnt - 1 # 0
  PROVE  Coherent'
<1>1. PICK b \in InList : pc[p].buf = b /\ b \in Bufs
  BY Mine, Zenon DEF brelse, At
<1>2. /\ pc[p].at = "put" /\ pc' = [pc EXCEPT ![p] = Idle]
      /\ UNCHANGED <<disk, pinned, latest>>
  BY Zenon DEF brelse, At
<1>3. buf[b].refcnt \in Nat /\ buf[b].refcnt >= 1
  BY <1>1, <1>2, Mine, SMTT(20) DEF Coherent, TypeOK, BufType
<1>4. /\ buf' = [buf EXCEPT ![b] = [buf[b] EXCEPT !.refcnt = @ - 1]]
      /\ UNCHANGED <<list, bcache_count>>
  BY <1>1, <1>3 DEF brelse, Coherent, TypeOK, BufType
<1>5. /\ \A c \in Bufs : /\ buf'[c].blockno = buf[c].blockno /\ buf'[c].valid = buf[c].valid
                         /\ buf'[c].data = buf[c].data /\ buf'[c].lock = buf[c].lock
                         /\ c # b => buf'[c] = buf[c]
      /\ buf'[b].refcnt = buf[b].refcnt - 1
  BY <1>1, <1>4 DEF Coherent, TypeOK, BufType
<1>6. InList' = InList /\ InList \subseteq Bufs
  BY <1>4 DEF InList, Coherent, TypeOK
<1>7. TypeOK'
  <2>1. [buf[b] EXCEPT !.refcnt = @ - 1] \in BufType
    <3>1. buf[b].refcnt - 1 \in Nat
      BY ONLY <1>3
    <3>2. QED
      BY <1>1, <3>1, Retyped, Zenon DEF Coherent, TypeOK
  <2>2. buf' \in [Bufs -> BufType]
    BY <1>1, <1>4, <2>1, Zenon DEF Coherent, TypeOK
  <2>3. QED
    BY <1>2, <1>4, <2>2, Zenon DEF Coherent, TypeOK, Places, Idle
<1>8. Listed'
  <2>1. \A i \in DOMAIN list : buf[list[i]].refcnt # 0 => buf'[list[i]].refcnt # 0
    BY <1>1, <1>3, <1>5 DEF Coherent, TypeOK
  <2>2. \A c \in Bufs \ InList' : buf'[c] = Zeroed
    BY <1>1, <1>5, <1>6 DEF Coherent, Listed
  <2>3. Len(list) \in DOMAIN list
    BY BcacheAssumption DEF Coherent, TypeOK, Listed, BcacheAssumption
  <2>4. QED
    BY <1>4, <2>1, <2>2, <2>3, Zenon DEF Coherent, Listed
<1>9. \A q \in Procs : Has(q)'
  BY <1>2, <1>5, <1>6, BcacheAssumption DEF Coherent, TypeOK, Has, Idle, BcacheAssumption
<1>10. OneBuffer'
  BY <1>5, <1>6 DEF Coherent, OneBuffer
<1>11. Counted'
  <2>1. \A c \in Bufs \ {b} : Uses(c)' = Uses(c)
    BY <1>1, <1>2, BcacheAssumption, Zenon DEF Uses, Coherent, TypeOK, Idle, BcacheAssumption
  <2>2. Uses(b)' = Uses(b) \ {p} /\ p \in Uses(b) /\ Uses(b) \in SUBSET Procs
    BY <1>1, <1>2, BcacheAssumption, Zenon DEF Uses, Coherent, TypeOK, Idle, BcacheAssumption
  <2>3. Cardinality(Uses(b))' = Cardinality(Uses(b)) - 1 /\ Cardinality(Uses(b)) \in Nat
    BY ONLY <2>2, Counting
  <2>4. QED
    BY <1>1, <1>2, <1>5, <2>1, <2>3 DEF Coherent, Counted
<1>12. Fresh'
  <2>1. \A c \in Bufs : buf'[c].valid => /\ buf'[c].blockno \in Blocks
                                         /\ buf'[c].data = latest'[buf'[c].blockno]
    BY <1>2, <1>5 DEF Coherent, Fresh
  <2>2. \A m \in pinned' : \E c \in InList' : buf'[c].blockno = m /\ buf'[c].valid
    BY <1>2, <1>5, <1>6 DEF Coherent, Fresh
  <2>3. \A m \in Blocks : disk'[m] = latest'[m] \/ m \in pinned'
                          \/ \E q \in Procs : pc'[q].at = "use" /\ pc'[q].blockno = m
    BY <1>2, Zenon DEF Coherent, TypeOK, Fresh, Idle
  <2>4. QED
    BY <2>1, <2>2, <2>3, Zenon DEF Fresh
<1>13. QED
  BY <1>7, <1>8, <1>9, <1>10, <1>11, <1>12, Zenon DEF Coherent

\* brelse drops the last reference, moves the buffer to the front and shrinks the
\* list: what it frees nobody has and is not pinned.
LEMMA ShrinkStep ==
  ASSUME Coherent, NEW p \in Procs, brelse(p), buf[pc[p].buf].refcnt - 1 = 0
  PROVE  Coherent'
<1>1. PICK b \in InList : pc[p].buf = b /\ b \in Bufs
  BY Mine, Zenon DEF brelse, At
<1>2. /\ pc[p].at = "put" /\ pc' = [pc EXCEPT ![p] = Idle]
      /\ UNCHANGED <<disk, pinned, latest>>
  BY Zenon DEF brelse, At
<1>3. buf[b].refcnt = 1
  BY <1>1 DEF Coherent, TypeOK, BufType
<1> DEFINE refs == [buf EXCEPT ![b] = [buf[b] EXCEPT !.refcnt = @ - 1]]
           front == MoveToFront(b)
           n == Len(list)
           k == Freed(front, b, refs)
<1>4. /\ refs \in [Bufs -> BufType]
      /\ \A c \in Bufs : /\ refs[c].blockno = buf[c].blockno /\ refs[c].valid = buf[c].valid
                         /\ refs[c].data = buf[c].data /\ refs[c].lock = buf[c].lock
                         /\ c # b => refs[c] = buf[c]
      /\ refs[b].refcnt = 0
  <2>1. buf[b].refcnt - 1 \in Nat
    BY ONLY <1>3
  <2>2. [buf[b] EXCEPT !.refcnt = @ - 1] \in BufType
    BY <1>1, <2>1, Retyped, Zenon DEF Coherent, TypeOK
  <2>3. refs \in [Bufs -> BufType]
    BY <1>1, <2>2, Zenon DEF Coherent, TypeOK
  <2>4. QED
    BY ONLY <1>1, <1>3, <2>3 DEF Coherent, TypeOK, BufType
<1>5. /\ list' = SubSeq(front, 1, Len(front) - k) /\ bcache_count' = bcache_count - k
      /\ buf' = [c \in Bufs |-> IF \E i \in 1..Len(list') : list'[i] = c THEN refs[c] ELSE Zeroed]
  BY ONLY <1>1, <1>4, brelse(p), ZenonT(30) DEF brelse
<1>6. n \in Nat /\ n >= NBUF /\ NBUF \in Nat /\ NBUF >= 1
  BY BcacheAssumption DEF Coherent, TypeOK, Listed, BcacheAssumption
<1>7. /\ front \in Seq(Bufs) /\ Len(front) = n /\ front[1] = b
      /\ \A i, j \in 1..n : front[i] = front[j] => i = j
      /\ \A i \in 1..n : front[i] \in InList
      /\ \A c \in InList : \E i \in 1..n : front[i] = c
  BY <1>1, FrontIs, Zenon
<1> HIDE DEF front, refs, n
<1>8. /\ k \in 0..n
      /\ \A i \in 0..(k - 1) : n - i > NBUF /\ ~Stops(front[n - i], b, refs)
      /\ n - k <= NBUF \/ Stops(front[n - k], b, refs)
  <2>1. Len(front) >= NBUF
    BY <1>6, <1>7, Zenon
  <2>2. /\ k \in 0..Len(front)
        /\ \A i \in 0..(k - 1) : Len(front) - i > NBUF /\ ~Stops(front[Len(front) - i], b, refs)
        /\ Len(front) - k <= NBUF \/ Stops(front[Len(front) - k], b, refs)
    BY <1>7, <2>1, FreedIs, Zenon
  <2>3. QED
    BY <1>7, <2>2, Zenon
<1> HIDE DEF k
<1>9. n - k \in Nat /\ n - k >= NBUF
  <2>1. CASE k = 0
    BY ONLY <1>6, <2>1
  <2>2. CASE k # 0
    <3>1. k - 1 \in 0..(k - 1)
      BY ONLY <1>8, <2>2
    <3>2. n - (k - 1) > NBUF
      BY <1>8, <3>1, Zenon
    <3>3. QED
      BY ONLY <1>6, <1>8, <3>2
  <2>3. QED
    BY <2>1, <2>2, Zenon
<1>10. list' \in Seq(Bufs) /\ Len(list') = n - k /\ \A i \in 1..(n - k) : list'[i] = front[i]
  BY ONLY <1>5, <1>6, <1>7, <1>8, <1>9
<1>11. /\ InList' = {front[i] : i \in 1..(n - k)} /\ InList' \subseteq InList
       /\ InList \subseteq Bufs /\ b \in InList'
  <2>1. InList' = {list'[i] : i \in 1..(n - k)}
    BY ONLY <1>10 DEF InList
  <2>2. InList' = {front[i] : i \in 1..(n - k)}
    BY <1>10, <2>1, Zenon
  <2>3. \A i \in 1..(n - k) : i \in 1..n
    BY ONLY <1>6, <1>8
  <2>4. 1 \in 1..(n - k)
    BY ONLY <1>6, <1>9
  <2>5. InList \subseteq Bufs
    BY DEF InList, Coherent, TypeOK
  <2>6. QED
    BY ONLY <1>7, <2>2, <2>3, <2>4, <2>5
<1>12. /\ \A c \in InList' : buf'[c] = refs[c]
       /\ \A c \in Bufs \ InList' : buf'[c] = Zeroed
  <2>1. \A c : (\E i \in 1..Len(list') : list'[i] = c) <=> c \in InList'
    BY <1>10, <1>11, Zenon
  <2>2. QED
    BY <1>5, <1>11, <2>1, Zenon
<1>13. Uses(b) = {p} /\ buf[b].blockno \notin pinned
  <2>1. p \in Uses(b) /\ Uses(b) \in SUBSET Procs
    BY <1>1, Zenon DEF Uses
  <2>2. Cardinality(Uses(b)) \in Nat /\ Cardinality(Uses(b)) # 0 /\ Cardinality(Uses(b) \ {p}) = Cardinality(Uses(b)) - 1
    BY <2>1, Counting, Zenon
  <2>3. buf[b].refcnt = Cardinality(Uses(b)) + (IF buf[b].blockno \in pinned THEN 1 ELSE 0)
    BY <1>1, Zenon DEF Coherent, Counted
  <2>4. buf[b].blockno \notin pinned /\ Cardinality(Uses(b) \ {p}) = 0
    BY ONLY <1>3, <2>2, <2>3
  <2>5. Uses(b) \ {p} \in SUBSET Procs
    BY <2>1, Zenon
  <2>6. Uses(b) \ {p} = {}
    BY <2>4, <2>5, Counting, Zenon
  <2>7. QED
    BY <2>1, <2>4, <2>6, Zenon
<1>14. ASSUME NEW c \in InList, c \notin InList'
       PROVE  Uses(c) = {} /\ buf[c].blockno \notin pinned
  <2>1. PICK j \in 1..n : front[j] = c
    BY <1>7, Zenon
  <2>2. j > n - k
    BY ONLY <1>6, <1>8, <1>11, <1>14, <2>1
  <2>3. n - j \in 0..(k - 1) /\ n - (n - j) = j
    BY ONLY <1>6, <1>8, <2>2
  <2>4. ~Stops(front[n - (n - j)], b, refs)
    BY <1>8, <2>3, Zenon
  <2>5. c # b /\ refs[c].refcnt = 0
    BY <2>1, <2>3, <2>4, Zenon DEF Stops
  <2>6. buf[c].refcnt = 0
    BY <1>4, <1>11, <2>5, Zenon
  <2>7. QED
    BY <1>11, <2>6, Unreferenced, Zenon
<1>15. TypeOK'
  <2>1. Zeroed \in BufType
    BY <1>1, Retyped, Zenon DEF Coherent, TypeOK
  <2>2. buf' \in [Bufs -> BufType]
    BY <1>4, <1>5, <2>1, Zenon
  <2>3. bcache_count' \in Nat
    BY <1>5, <1>9, Zenon DEF Coherent, Listed, n
  <2>4. QED
    BY <1>2, <1>10, <2>2, <2>3, Zenon DEF Coherent, TypeOK, Places, Idle
<1>16. Listed'
  <2>1. \A i, j \in DOMAIN list' : list'[i] = list'[j] => i = j
    <3>1. DOMAIN list' = 1..(n - k) /\ \A i \in 1..(n - k) : i \in 1..n
      BY ONLY <1>6, <1>8, <1>10
    <3>2. QED
      BY <1>7, <1>10, <3>1, Zenon
  <2>2. bcache_count' = Len(list') /\ Len(list') >= NBUF
    BY <1>5, <1>9, <1>10, Zenon DEF Coherent, Listed, n
  <2>3. ASSUME Len(list') > NBUF PROVE buf'[list'[Len(list')]].refcnt # 0
    <3>1. n - k \in 1..(n - k) /\ n - k \in 1..n /\ 1 \in 1..n /\ n - k # 1
      BY ONLY <1>6, <1>8, <1>9, <1>10, <2>3
    <3>2. Stops(front[n - k], b, refs)
      BY ONLY <1>6, <1>8, <1>9, <1>10, <2>3
    <3>3. front[n - k] # b
      BY <1>7, <3>1, Zenon
    <3>4. refs[front[n - k]].refcnt # 0
      BY <3>2, <3>3, Zenon DEF Stops
    <3>5. list'[Len(list')] = front[n - k] /\ front[n - k] \in InList'
      BY <1>10, <1>11, <3>1, Zenon
    <3>6. QED
      BY <1>12, <3>4, <3>5, Zenon
  <2>4. QED
    BY <1>12, <2>1, <2>2, <2>3, Zenon DEF Listed
<1>17. ASSUME NEW q \in Procs, q # p, pc[q].buf # NULL
       PROVE  pc[q].buf \in InList' /\ pc[q].buf # b
  <2>1. pc[q].buf \in InList /\ q \in Uses(pc[q].buf)
    BY <1>17, Zenon DEF Coherent, Has, Uses
  <2>2. QED
    BY <1>13, <1>14, <1>17, <2>1, Zenon
<1>18. \A q \in Procs : Has(q)'
  <2>1. ASSUME NEW q \in Procs PROVE Has(q)'
    <3>1. CASE q = p
      BY <1>2, <3>1, BcacheAssumption, Zenon DEF Has, Idle, Coherent, TypeOK, BcacheAssumption
    <3>2. CASE q # p
      <4>1. pc'[q] = pc[q]
        BY <1>2, <3>2, Zenon DEF Coherent, TypeOK
      <4>2. CASE pc[q].buf = NULL
        BY <4>1, <4>2, Zenon DEF Has, Coherent
      <4>3. CASE pc[q].buf # NULL
        <5>1. pc[q].buf \in InList' /\ buf'[pc[q].buf] = buf[pc[q].buf]
          BY <1>4, <1>11, <1>12, <1>17, <3>2, <4>3, Zenon
        <5>2. QED
          BY <4>1, <4>3, <5>1 DEF Has, Coherent
      <4>4. QED
        BY <4>2, <4>3, Zenon
    <3>3. QED
      BY <3>1, <3>2, Zenon
  <2>2. QED
    BY <2>1, Zenon
<1>19. \A c \in InList' : /\ buf'[c].blockno = buf[c].blockno /\ buf'[c].valid = buf[c].valid
                          /\ buf'[c].data = buf[c].data
  BY ONLY <1>4, <1>11, <1>12
<1>20. OneBuffer'
  BY <1>11, <1>19 DEF Coherent, OneBuffer
<1>21. Counted'
  <2>1. ASSUME NEW c \in Bufs
        PROVE  buf'[c].refcnt = Cardinality(Uses(c))' + (IF buf'[c].blockno \in pinned' THEN 1 ELSE 0)
    <3>1. CASE c = b
      <4>1. Uses(b)' = {}
        BY <1>1, <1>2, <1>13, BcacheAssumption, Zenon DEF Uses, Coherent, TypeOK, Idle, BcacheAssumption
      <4>2. Cardinality(Uses(c))' = 0
        BY <3>1, <4>1, FS_EmptySet, Zenon
      <4>3. buf'[c].refcnt = 0 /\ buf'[c].blockno \notin pinned'
        BY <1>2, <1>4, <1>11, <1>12, <1>13, <3>1, Zenon
      <4>4. QED
        BY ONLY <4>2, <4>3
    <3>2. CASE c # b
      <4>1. Uses(c)' = Uses(c)
        BY <1>1, <1>2, <3>2, BcacheAssumption, Zenon DEF Uses, Coherent, TypeOK, Idle, BcacheAssumption
      <4>2. CASE c \in InList'
        BY <1>2, <1>4, <1>12, <3>2, <4>1, <4>2 DEF Coherent, Counted
      <4>3. CASE c \notin InList'
        <5>1. Uses(c) = {}
          <6>1. CASE c \in InList
            BY <1>14, <4>3, <6>1, Zenon
          <6>2. CASE c \notin InList
            BY <6>2, BcacheAssumption DEF Uses, Coherent, Has, BcacheAssumption
          <6>3. QED
            BY <6>1, <6>2, Zenon
        <5>2. Cardinality(Uses(c))' = 0
          BY <4>1, <5>1, FS_EmptySet, Zenon
        <5>3. buf'[c].refcnt = 0 /\ buf'[c].blockno = NULL
          BY ONLY <1>12, <4>3 DEF Zeroed
        <5>4. NULL \notin pinned'
          BY <1>2, BcacheAssumption, Zenon DEF Coherent, TypeOK, BcacheAssumption
        <5>5. QED
          BY ONLY <5>2, <5>3, <5>4
      <4>4. QED
        BY <4>2, <4>3, Zenon
    <3>3. QED
      BY <3>1, <3>2, Zenon
  <2>2. QED
    BY <2>1, Zenon DEF Counted
<1>22. Fresh'
  <2>1. \A c \in Bufs : buf'[c].valid => /\ buf'[c].blockno \in Blocks
                                         /\ buf'[c].data = latest'[buf'[c].blockno]
    BY <1>2, <1>11, <1>12, <1>19 DEF Coherent, Fresh, Zeroed
  <2>2. ASSUME NEW m \in pinned' PROVE \E c \in InList' : buf'[c].blockno = m /\ buf'[c].valid
    <3>1. PICK c \in InList : buf[c].blockno = m /\ buf[c].valid
      BY <1>2, Zenon DEF Coherent, Fresh
    <3>2. c \in InList'
      BY <1>2, <1>14, <3>1, Zenon
    <3>3. QED
      BY <1>19, <3>1, <3>2, Zenon
  <2>3. \A m \in Blocks : disk'[m] = latest'[m] \/ m \in pinned'
                          \/ \E q \in Procs : pc'[q].at = "use" /\ pc'[q].blockno = m
    BY <1>2, Zenon DEF Coherent, TypeOK, Fresh, Idle
  <2>4. QED
    BY <2>1, <2>2, <2>3, Zenon DEF Fresh
<1>23. QED
  BY <1>15, <1>16, <1>18, <1>20, <1>21, <1>22, Zenon DEF Coherent

-----------------------------------------------------------------------------
(* The theorems.                                                           *)

\* binit establishes the invariant.
LEMMA CoherentInit == Init => Coherent
<1> SUFFICES ASSUME Init PROVE Coherent
  BY Zenon
<1>1. NBUF \in Nat /\ NBUF >= 1 /\ Initial \in [Blocks -> Vals]
  BY ONLY BcacheAssumption DEF BcacheAssumption
<1>2. /\ list \in [1..NBUF -> Bufs]
      /\ \A i, j \in 1..NBUF : list[i] = list[j] => i = j
  BY Zenon DEF Init
<1>3. list \in Seq(Bufs) /\ Len(list) = NBUF /\ DOMAIN list = 1..NBUF
  BY ONLY <1>1, <1>2
<1>4. Zeroed \in BufType
  BY Zenon DEF Zeroed, BufType
<1>5. TypeOK
  BY <1>1, <1>3, <1>4, Zenon DEF Init, TypeOK, Idle, Places
<1>6. Listed
  BY <1>1, <1>2, <1>3 DEF Init, Listed
<1>7. \A p \in Procs : Has(p)
  BY Zenon DEF Init, Has, Idle
<1>8. OneBuffer
  BY <1>2, <1>3, BcacheAssumption DEF Init, OneBuffer, InList, Zeroed, BcacheAssumption
<1>9. Counted
  <2>1. ASSUME NEW b \in Bufs PROVE buf[b].refcnt = 0 /\ Cardinality(Uses(b)) = 0
    <3>1. Uses(b) = {}
      BY BcacheAssumption, Zenon DEF Init, Uses, Idle, BcacheAssumption
    <3>2. QED
      BY <3>1, FS_EmptySet, Zenon DEF Init, Zeroed
  <2>2. QED
    BY <2>1 DEF Init, Counted
<1>10. Fresh
  BY Zenon DEF Init, Fresh, Zeroed
<1>11. QED
  BY <1>5, <1>6, <1>7, <1>8, <1>9, <1>10, Zenon DEF Coherent

\* Every step keeps the invariant.
LEMMA CoherentStep == Coherent /\ [Next]_vars => Coherent'
<1> SUFFICES ASSUME Coherent, [Next]_vars PROVE Coherent'
  BY Zenon
<1>1. CASE UNCHANGED vars
  BY <1>1 DEF vars, Coherent, TypeOK, Listed, InList, Has, OneBuffer, Counted, Uses, Fresh
<1>2. ASSUME NEW p \in Procs, NEW n \in Blocks, BgetHit(p, n) PROVE Coherent'
  BY <1>2, HitStep, Zenon
<1>3. ASSUME NEW p \in Procs, NEW n \in Blocks, BgetRecycle(p, n) PROVE Coherent'
  BY <1>3, RecycleStep, Zenon
<1>4. ASSUME NEW p \in Procs, NEW n \in Blocks, BgetGrow(p, n) PROVE Coherent'
  BY <1>4, GrowStep, Zenon
<1>5. ASSUME NEW p \in Procs, acquiresleep(p) PROVE Coherent'
  BY <1>5, AcquireStep, Zenon
<1>6. ASSUME NEW p \in Procs, bread(p) PROVE Coherent'
  BY <1>6, ReadStep, Zenon
<1>7. ASSUME NEW p \in Procs, NEW v \in Vals, Modify(p, v) PROVE Coherent'
  BY <1>7, ModifyStep, Zenon
<1>8. ASSUME NEW p \in Procs, bwrite(p) PROVE Coherent'
  BY <1>8, WriteStep, Zenon
<1>9. ASSUME NEW p \in Procs, bpin(p) PROVE Coherent'
  BY <1>9, PinStep, Zenon
<1>10. ASSUME NEW p \in Procs, bunpin(p) PROVE Coherent'
  BY <1>10, UnpinStep, Zenon
<1>11. ASSUME NEW p \in Procs, releasesleep(p) PROVE Coherent'
  BY <1>11, ReleaseStep, Zenon
<1>12. ASSUME NEW p \in Procs, brelse(p) PROVE Coherent'
  BY <1>12, DropStep, ShrinkStep, Zenon
<1>13. QED
  BY <1>1, <1>2, <1>3, <1>4, <1>5, <1>6, <1>7, <1>8, <1>9, <1>10, <1>11, <1>12, Zenon DEF Next

\* The invariant gives a buffer to one user and one block.
LEMMA CoherentMine == Coherent => BufferStaysMine
<1> SUFFICES ASSUME Coherent PROVE BufferStaysMine
  BY Zenon
<1>1. \A p \in Procs : pc[p].buf # NULL =>
        pc[p].buf \in InList /\ buf[pc[p].buf].blockno = pc[p].blockno
  BY Zenon DEF Coherent, Has
<1>2. ASSUME NEW n \in Blocks PROVE Cardinality(Cached(n)) <= 1
  <2>1. CASE Cached(n) = {}
    BY ONLY <2>1, FS_EmptySet
  <2>2. CASE Cached(n) # {}
    <3>1. PICK b \in Cached(n) : TRUE
      BY <2>2, Zenon
    <3>2. Cached(n) = {b}
      BY <3>1, Zenon DEF Cached, Coherent, OneBuffer
    <3>3. QED
      BY ONLY <3>2, FS_Singleton
  <2>3. QED
    BY <2>1, <2>2, Zenon
<1>3. \A p, q \in Procs : p # q /\ pc[p].buf = pc[q].buf => ~(At(p, "use") /\ At(q, "use"))
  BY DEF Coherent, Has, At
<1>4. Cardinality(InList) = Len(list)
  <2>1. Len(list) \in Nat /\ DOMAIN list = 1..Len(list) /\ list \in [1..Len(list) -> InList]
    BY DEF Coherent, TypeOK, InList
  <2>2. list \in Bijection(1..Len(list), InList)
    BY <2>1, Zenon DEF Bijection, Injection, Surjection, IsInjective, Coherent, Listed, InList
  <2>3. QED
    BY <2>1, <2>2, FS_CountingElements, Zenon DEF ExistsBijection
<1>5. bcache_count = Len(list) /\ bcache_count >= NBUF
  BY Zenon DEF Coherent, Listed
<1>6. ASSUME \A i \in DOMAIN list : buf[list[i]].refcnt = 0 PROVE bcache_count = NBUF
  <2>1. Len(list) \in DOMAIN list /\ Len(list) \in Nat /\ NBUF \in Nat
    BY BcacheAssumption DEF Coherent, TypeOK, Listed, BcacheAssumption
  <2>2. QED
    BY <1>6, <2>1 DEF Coherent, Listed
<1>7. QED
  BY <1>1, <1>2, <1>3, <1>4, <1>5, <1>6, Zenon DEF BufferStaysMine, Coherent, Counted

\* However buffers are recycled, allocated and freed, who has a buffer keeps it,
\* alone while it is locked, and reference counts are exact (bget, brelse).
THEOREM BuffersStayMine == Spec => []BufferStaysMine
<1>1. Spec => []Coherent
  BY CoherentInit, CoherentStep, PTL DEF Spec
<1>2. QED
  BY <1>1, CoherentMine, PTL

\* Who has read a block sees what was last stored in it (bread, bwrite, bpin).
THEOREM CacheIsCoherent == Spec => []ReadsLatest
<1>1. Spec => []Coherent
  BY CoherentInit, CoherentStep, PTL DEF Spec
<1>2. Coherent => ReadsLatest
  <2> SUFFICES ASSUME Coherent, NEW p \in Procs, At(p, "use")
               PROVE  buf[pc[p].buf].data = latest[pc[p].blockno]
    BY Zenon DEF ReadsLatest
  <2>1. pc[p].buf \in Bufs /\ buf[pc[p].buf].blockno = pc[p].blockno
    BY Mine, Zenon DEF At
  <2>2. buf[pc[p].buf].valid
    BY Zenon DEF At, Coherent, Has
  <2>3. QED
    BY <2>1, <2>2 DEF Coherent, Fresh
<1>3. QED
  BY <1>1, <1>2, PTL
=============================================================================
