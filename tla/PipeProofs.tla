----------------------------- MODULE PipeProofs -----------------------------
(***************************************************************************)
(* The byte stream, the wakeups and the end of file of Pipe, for any       *)
(* number of processes, any size of the ring and any word that is a        *)
(* multiple of it.                                                         *)
(***************************************************************************)
EXTENDS Pipe, TLAPS

-----------------------------------------------------------------------------
(* Counters that wrap.                                                     *)

\* What a remainder is: the one number below d that differs by a multiple of d.
LEMMA ModIs ==
  ASSUME NEW d \in Nat \ {0}, NEW k \in Int, NEW r \in 0..(d - 1)
  PROVE  (k * d + r) % d = r
OBVIOUS

\* Quotient and remainder of a number.
LEMMA ModParts ==
  ASSUME NEW d \in Nat \ {0}, NEW x \in Nat
  PROVE  \E k \in Nat : x = k * d + (x % d) /\ (x % d) \in 0..(d - 1)
<1>1. x = d * (x \div d) + (x % d) /\ x \div d \in Int /\ (x % d) \in 0..(d - 1)
  OBVIOUS
<1>2. PICK k \in Int : k = x \div d
  BY <1>1
<1>3. PICK r \in 0..(d - 1) : r = x % d
  BY <1>1
<1>4. x = k * d + r
  BY <1>1, <1>2, <1>3
<1>5. k \in Nat
  <2> SUFFICES ASSUME k <= -1 PROVE FALSE
    OBVIOUS
  <2>1. k * d <= (-1) * d
    OBVIOUS
  <2> QED BY <1>4, <2>1
<1> QED BY <1>3, <1>4, <1>5

\* A counter may be reduced before or after it is advanced.
LEMMA ModAdd ==
  ASSUME NEW d \in Nat \ {0}, NEW x \in Nat, NEW y \in Nat
  PROVE  ((x % d) + y) % d = (x + y) % d
<1>1. PICK k \in Nat : x = k * d + (x % d) /\ (x % d) \in 0..(d - 1)
  BY ModParts, Zenon
<1>2. PICK r \in 0..(d - 1) : r = x % d
  BY <1>1
<1>3. PICK z \in Nat : z = r + y
  OBVIOUS
<1>4. PICK j \in Nat : z = j * d + (z % d) /\ (z % d) \in 0..(d - 1)
  BY ModParts, Zenon
<1>5. PICK s \in 0..(d - 1) : s = z % d
  BY <1>4
<1>6. PICK i \in Int : i = k + j
  OBVIOUS
<1>7. x + y = i * d + s
  BY <1>1, <1>2, <1>3, <1>4, <1>5, <1>6
<1>8. (i * d + s) % d = s
  BY ModIs
<1> QED BY <1>2, <1>3, <1>5, <1>7, <1>8

\* Counting modulo a multiple of d counts modulo d.
LEMMA ModMod ==
  ASSUME NEW d \in Nat \ {0}, NEW w \in Nat \ {0}, w % d = 0, NEW x \in Nat, NEW y \in Nat
  PROVE  ((x % w) + y) % d = (x + y) % d
<1>1. PICK k \in Nat : x = k * w + (x % w) /\ (x % w) \in 0..(w - 1)
  BY ModParts, Zenon
<1>2. PICK m \in Nat : w = m * d
  <2>1. PICK m \in Nat : w = m * d + (w % d)
    BY ModParts, Zenon
  <2> QED BY <2>1
<1>3. PICK r \in Nat : r = x % w
  BY <1>1
<1>4. PICK z \in Nat : z = r + y
  OBVIOUS
<1>5. PICK j \in Nat : z = j * d + (z % d) /\ (z % d) \in 0..(d - 1)
  BY ModParts, Zenon
<1>6. PICK s \in 0..(d - 1) : s = z % d
  BY <1>5
<1>7. PICK u \in Nat : u = k * m
  OBVIOUS
<1>8. k * w = u * d
  BY <1>2, <1>7
<1>9. PICK i \in Int : i = u + j
  OBVIOUS
<1>10. i * d = u * d + j * d
  BY <1>9
<1>11. x + y = i * d + s
  <2>1. x + y = u * d + z
    BY <1>1, <1>3, <1>4, <1>8
  <2>2. z = j * d + s
    BY <1>5, <1>6
  <2> QED BY <1>10, <2>1, <2>2
<1>12. (i * d + s) % d = s
  BY ModIs
<1> QED BY <1>3, <1>4, <1>6, <1>11, <1>12, Zenon

\* The slot of the ring a counter points to is that of the count.
LEMMA ModSlot ==
  ASSUME NEW d \in Nat \ {0}, NEW w \in Nat \ {0}, w % d = 0, NEW x \in Nat
  PROVE  (x % w) % d = x % d
<1>1. \A y \in Nat : ((x % w) + y) % d = (x + y) % d
  BY ModMod, Zenon
<1>2. PICK y \in Nat : y = 0
  OBVIOUS
<1>3. PICK u \in Nat : u = x % w
  OBVIOUS
<1>4. (u + y) % d = (x + y) % d
  BY <1>1, <1>3
<1>5. u + y = u /\ x + y = x
  BY <1>2
<1> QED BY <1>3, <1>4, <1>5

\* Two counts less than a turn of the counter apart are told apart by it.
LEMMA ModSame ==
  ASSUME NEW d \in Nat \ {0}, NEW x \in Nat, NEW y \in Nat, x <= y, y < x + d, x % d = y % d
  PROVE  x = y
<1>1. PICK j \in Nat : x = j * d + (x % d) /\ (x % d) \in 0..(d - 1)
  BY ModParts, Zenon
<1>2. PICK k \in Nat : y = k * d + (y % d) /\ (y % d) \in 0..(d - 1)
  BY ModParts, Zenon
<1>3. PICK r \in 0..(d - 1) : r = x % d
  BY <1>1
<1>4. x = j * d + r /\ y = k * d + r
  BY <1>1, <1>2, <1>3
<1>5. j * d <= k * d /\ k * d < j * d + d
  BY <1>4
<1>6. k <= j
  <2> SUFFICES ASSUME k >= j + 1 PROVE FALSE
    OBVIOUS
  <2>1. k * d >= (j + 1) * d
    OBVIOUS
  <2> QED BY <1>5, <2>1
<1>7. j <= k
  <2> SUFFICES ASSUME j >= k + 1 PROVE FALSE
    OBVIOUS
  <2>1. j * d >= (k + 1) * d
    OBVIOUS
  <2> QED BY <1>5, <2>1
<1> QED BY <1>4, <1>6, <1>7

\* The difference of two counters is that of the counts.
LEMMA ModDiff ==
  ASSUME NEW d \in Nat \ {0}, NEW x \in Nat, NEW y \in Nat, x <= y, y < x + d
  PROVE  ((y % d) - (x % d)) % d = y - x
<1>1. PICK j \in Nat : x = j * d + (x % d) /\ (x % d) \in 0..(d - 1)
  BY ModParts, Zenon
<1>2. PICK k \in Nat : y = k * d + (y % d) /\ (y % d) \in 0..(d - 1)
  BY ModParts, Zenon
<1>3. PICK r \in 0..(d - 1) : r = x % d
  BY <1>1
<1>4. PICK s \in 0..(d - 1) : s = y % d
  BY <1>2
<1>5. x = j * d + r /\ y = k * d + s
  BY <1>1, <1>2, <1>3, <1>4
<1>6. s - r = (j - k) * d + (y - x) /\ y - x \in 0..(d - 1) /\ j - k \in Int
  BY <1>5
<1>7. (s - r) % d = y - x
  BY <1>6, ModIs
<1> QED BY <1>3, <1>4, <1>7

-----------------------------------------------------------------------------
(* The inductive invariant.                                                *)

Places == {"idle", "wacq", "write", "wsleep", "nwrite", "racq", "rwake", "wait", "rsleep", "nread",
           "read", "cacq", "close", "kfree"}
PcType == [at : Places, i : Nat, n : Nat \cup {"r", "w"}]

\* The values of the variables.
TypeOK ==
  /\ nread \in Nat /\ nwrite \in Nat /\ data \in [0..(PIPESIZE - 1) -> Nat]
  /\ readopen \in BOOLEAN /\ writeopen \in BOOLEAN
  /\ lock \in Procs \cup {NULL} /\ freed \in Nat
  /\ ends \in [Procs -> SUBSET {"r", "w"}] /\ pc \in [Procs -> PcType]
  /\ killed \subseteq Procs /\ sent \in Nat /\ got \in Seq(Nat)

\* The places of a call in which it holds pi->lock, and those of each call.
Locked == {"write", "wsleep", "wait", "rsleep", "read", "close"}
Writer == {"wacq", "write", "wsleep", "nwrite"}
Reader == {"racq", "rwake", "wait", "rsleep", "nread", "read"}
Closer == {"cacq", "close"}

\* The lock is held by the one process that is at such a place.
Mutex == \A p \in Procs : lock = p <=> pc[p].at \in Locked

\* p is in pipeclose for the end e.
Closing(p, e) == pc[p].at \in Closer /\ pc[p].n = e

Open(e) == IF e = "w" THEN writeopen ELSE readopen

\* A call is made by a process that has its end open; an end is open as long
\* as somebody has it, and then until the one who closed it last is through.
Users ==
  /\ \A p \in Procs : /\ pc[p].at \in Writer => "w" \in ends[p]
                      /\ pc[p].at \in Reader => "r" \in ends[p]
                      /\ pc[p].at \in Closer => pc[p].n \in {"r", "w"}
  /\ \A p \in Procs : \A e \in ends[p] : Open(e)
  /\ \A p \in Procs, e \in {"r", "w"} : Closing(p, e) =>
        /\ Open(e)
        /\ \A q \in Procs : e \notin ends[q] /\ (Closing(q, e) => q = p)

\* The memory is freed by the one who closed the second end.
FreedOnce ==
  /\ \A p \in Procs : pc[p].at = "kfree" =>
        ~readopen /\ ~writeopen /\ freed = 0 /\ \A q \in Procs : pc[q].at = "kfree" => q = p
  /\ freed # 0 => freed = 1 /\ ~readopen /\ ~writeopen /\ \A p \in Procs : pc[p].at # "kfree"

\* The ring holds the bytes written and not yet read, the counters are those
\* of the history modulo WORD.
Ring ==
  /\ Len(got) <= sent /\ sent <= Len(got) + PIPESIZE
  /\ nread = Len(got) % WORD /\ nwrite = sent % WORD
  /\ \A k \in 1..Len(got) : got[k] = k
  /\ \A j \in (Len(got) + 1)..sent : data[(j - 1) % PIPESIZE] = j

\* Why a process that sleeps, or is about to, has nothing to do yet.
Sleepers ==
  \A p \in Procs :
    /\ pc[p].at = "rsleep" => Len(got) = sent /\ writeopen
    /\ pc[p].at = "wsleep" => sent = Len(got) + PIPESIZE /\ readopen
    /\ pc[p].at = "nread" =>
         writeopen /\ (Len(got) = sent \/ killed # {} \/ \E q \in Procs : pc[q].at = "write")
    /\ pc[p].at = "nwrite" =>
         readopen /\ (sent = Len(got) + PIPESIZE \/ \E q \in Procs : pc[q].at = "read")

Inv == TypeOK /\ Mutex /\ Users /\ FreedOnce /\ Ring /\ Sleepers

\* The ring is not empty, and the counters wrap at a multiple of its size.
LEMMA PipeFacts == PIPESIZE \in Nat \ {0} /\ WORD \in Nat \ {0} /\ WORD > PIPESIZE /\ WORD % PIPESIZE = 0
BY PipeAssumption

\* What the tests of pipewrite and piperead on the counters mean.
LEMMA Tests ==
  ASSUME TypeOK, Ring
  PROVE  (Empty <=> Len(got) = sent) /\ (Full <=> sent = Len(got) + PIPESIZE)
<1> DEFINE c == Len(got)
<1>1. c \in Nat /\ sent \in Nat /\ c <= sent /\ sent <= c + PIPESIZE /\ nread = c % WORD /\ nwrite = sent % WORD
  BY DEF TypeOK, Ring
<1> HIDE DEF c
<1>0. sent < c + WORD
  BY <1>1, PipeFacts
<1>2. Empty => c = sent
  <2> SUFFICES ASSUME c % WORD = sent % WORD PROVE c = sent
    BY <1>1 DEF Empty
  <2> QED BY <1>0, <1>1, PipeFacts, ModSame, Zenon
<1>3. (nread + PIPESIZE) % WORD = (c + PIPESIZE) % WORD /\ c + PIPESIZE \in Nat
  <2>1. ((c % WORD) + PIPESIZE) % WORD = (c + PIPESIZE) % WORD
    BY <1>1, PipeFacts, ModAdd, Zenon
  <2> QED BY <1>1, <2>1, PipeFacts
<1>4. Full => sent = c + PIPESIZE
  <2> SUFFICES ASSUME Full PROVE sent = c + PIPESIZE
    OBVIOUS
  <2>1. sent % WORD = (c + PIPESIZE) % WORD
    BY <1>1, <1>3 DEF Full
  <2>2. c + PIPESIZE < sent + WORD
    BY <1>1, PipeFacts
  <2> QED BY <1>1, <1>3, <2>1, <2>2, PipeFacts, ModSame, Zenon
<1> QED BY <1>1, <1>2, <1>3, <1>4 DEF Empty, Full, c

\* pipealloc establishes the invariant.
LEMMA InitInv == Init => Inv
<1> SUFFICES ASSUME Init PROVE Inv
  OBVIOUS
<1>1. TypeOK
  BY PipeFacts, PipeAssumption DEF Init, TypeOK, PcType, Places, Idle
<1>2. \A p \in Procs : pc[p].at = "idle"
  BY DEF Init, Idle
<1>3. Mutex /\ FreedOnce /\ Sleepers
  BY <1>2, PipeAssumption DEF Init, Mutex, Locked, FreedOnce, Sleepers
<1>4. Users
  BY <1>1, <1>2 DEF Init, Users, Writer, Reader, Closer, Closing, Open, TypeOK
<1>5. Ring
  <2>1. Len(got) = 0 /\ sent = 0 /\ nread = 0 /\ nwrite = 0
    BY DEF Init
  <2>2. 0 % WORD = 0
    BY PipeFacts
  <2> QED BY <2>1, <2>2, PipeFacts DEF Ring
<1> QED BY <1>1, <1>3, <1>4, <1>5 DEF Inv

-----------------------------------------------------------------------------
(* How the places of the processes change.                                 *)

\* p goes on at the place at, nobody else moves.
Alone(p, at) ==
  /\ pc' \in [Procs -> PcType] /\ pc'[p].at = at
  /\ \A q \in Procs : q # p => pc'[q] = pc[q]

\* p goes on at the place at, and those who sleep on chan go on at again.
Woken(p, at, chan, again) ==
  /\ pc' \in [Procs -> PcType] /\ pc'[p].at = at
  /\ \A q \in Procs : q # p =>
       /\ pc'[q].n = pc[q].n
       /\ pc'[q].at = IF pc[q].at = chan THEN again ELSE pc[q].at

\* What Goto does.
LEMMA GotoIs ==
  ASSUME TypeOK, NEW p \in Procs, NEW at \in Places, Goto(p, at)
  PROVE  Alone(p, at) /\ pc'[p].n = pc[p].n
BY Zenon DEF TypeOK, Goto, Alone, PcType

\* What setting the whole record does.
LEMMA SetIs ==
  ASSUME TypeOK, NEW p \in Procs, NEW r \in PcType, pc' = [pc EXCEPT ![p] = r]
  PROVE  Alone(p, r.at) /\ pc'[p] = r
BY DEF TypeOK, Alone, PcType

\* What the return to the caller does.
LEMMA IdleIs ==
  ASSUME TypeOK, NEW p \in Procs, pc' = [pc EXCEPT ![p] = Idle]
  PROVE  Alone(p, "idle")
<1>1. Idle \in PcType /\ Idle.at = "idle"
  BY DEF Idle, PcType, Places
<1> QED BY <1>1, SetIs, Zenon

\* What counting a byte does.
LEMMA CountIs ==
  ASSUME TypeOK, NEW p \in Procs, pc' = [pc EXCEPT ![p].i = @ + 1]
  PROVE  pc' \in [Procs -> PcType] /\ \A q \in Procs : pc'[q].at = pc[q].at /\ pc'[q].n = pc[q].n
<1>1. PICK r : r = [pc[p] EXCEPT !.i = pc[p].i + 1]
  BY Zenon
<1>2. pc[p] \in PcType /\ pc \in [Procs -> PcType]
  BY DEF TypeOK
<1>3. r \in PcType /\ r.at = pc[p].at /\ r.n = pc[p].n
  BY <1>1, <1>2 DEF PcType
<1>4. pc' = [pc EXCEPT ![p] = r]
  BY <1>1
<1> QED BY <1>2, <1>3, <1>4

\* What wakeup does.
LEMMA WakeIs ==
  ASSUME TypeOK, NEW p \in Procs, NEW at \in Places, NEW chan, NEW again \in Places,
         WakeAndGoto(chan, again, p, at)
  PROVE  Woken(p, at, chan, again)
<1>1. Idle \in PcType /\ Idle.at = "idle"
  BY DEF Idle, PcType, Places
<1>2. \A q \in Procs : pc[q] \in PcType
  BY DEF TypeOK
<1>3. \A q \in Procs, x \in Places : /\ [pc[q] EXCEPT !.at = x] \in PcType
                                     /\ [pc[q] EXCEPT !.at = x].at = x
                                     /\ [pc[q] EXCEPT !.at = x].n = pc[q].n
  BY <1>2 DEF PcType
<1> QED BY <1>1, <1>2, <1>3 DEF WakeAndGoto, Woken

\* Nobody begins a call without its end, and nobody begins to close.
Within ==
  \A q \in Procs : /\ pc'[q].at \in Writer => "w" \in ends[q]
                   /\ pc'[q].at \in Reader => "r" \in ends[q]
                   /\ pc'[q].at \in Closer => pc[q].at \in Closer /\ pc'[q].n = pc[q].n
                   /\ pc'[q].at = "kfree" => pc[q].at = "kfree"

\* A step that changes neither the pipe nor who has its ends open, and moves
\* the processes within their calls, needs a look at the lock and the sleepers.
LEMMA CalmKeeps ==
  ASSUME Inv, UNCHANGED <<pipe, freed, ends, sent, got>>, pc' \in [Procs -> PcType],
         lock' \in Procs \cup {NULL}, killed' \subseteq Procs, Mutex', Sleepers', Within
  PROVE  Inv'
<1>1. /\ UNCHANGED <<nread, nwrite, data, readopen, writeopen, freed, ends, sent, got>>
  BY DEF pipe
<1>2. TypeOK' /\ Ring'
  BY <1>1 DEF Inv, TypeOK, Ring
<1>3. Users'
  BY <1>1 DEF Inv, Users, Closing, Open, Within
<1>4. FreedOnce'
  BY <1>1 DEF Inv, FreedOnce, Within
<1> QED BY <1>2, <1>3, <1>4 DEF Inv

\* Only the holder of the lock is at a place that needs it.
LEMMA Holder ==
  ASSUME Inv, NEW p \in Procs
  PROVE  /\ pc[p].at \in Locked => lock = p /\ \A q \in Procs : q # p => pc[q].at \notin Locked
         /\ lock = NULL => \A q \in Procs : pc[q].at \notin Locked
BY PipeAssumption DEF Inv, Mutex

-----------------------------------------------------------------------------
(* One lemma for each action.                                              *)

\* acquire, at the start of a call or at the end of sleep.
LEMMA AcquireKeeps ==
  ASSUME Inv, NEW p \in Procs, Acquire(p) PROVE Inv'
<1>1. /\ lock = NULL /\ lock' = p /\ UNCHANGED <<pipe, freed, ends, killed, sent, got>>
      /\ \E s \in {<<"wacq", "write">>, <<"racq", "wait">>, <<"rwake", "wait">>, <<"cacq", "close">>} :
           pc[p].at = s[1] /\ Goto(p, s[2])
  BY DEF Acquire, AfterSleep, At
<1>2. PICK x \in {"write", "wait", "close"} :
        /\ Goto(p, x)
        /\ x = "write" => pc[p].at = "wacq"
        /\ x = "wait" => pc[p].at \in {"racq", "rwake"}
        /\ x = "close" => pc[p].at = "cacq"
  BY <1>1
<1>3. Alone(p, x) /\ pc'[p].n = pc[p].n
  BY <1>2, GotoIs DEF Inv, Places
<1>4. \A q \in Procs : pc[q].at \notin Locked
  BY <1>1, Holder
<1>5. Mutex'
  BY <1>1, <1>3, <1>4 DEF Mutex, Alone, Locked
<1>6. UNCHANGED <<nread, nwrite, data, readopen, writeopen>>
  BY <1>1 DEF pipe
<1>7. Sleepers'
  BY <1>1, <1>3, <1>4, <1>6 DEF Inv, Sleepers, Alone, Locked
<1>8. Within
  BY <1>2, <1>3 DEF Inv, Users, Alone, Writer, Reader, Closer, Within
<1> QED BY <1>1, <1>3, <1>5, <1>7, <1>8, CalmKeeps DEF Inv, TypeOK, Alone

\* sleep gives the lock back; why the process sleeps is known since it decided to.
LEMMA SleepKeeps ==
  ASSUME Inv, NEW p \in Procs, Sleep(p) PROVE Inv'
<1>1. /\ lock' = NULL /\ UNCHANGED <<pipe, freed, ends, killed, sent, got>>
      /\ \/ pc[p].at = "wsleep" /\ Goto(p, "nwrite")
         \/ pc[p].at = "rsleep" /\ Goto(p, "nread")
  BY DEF Sleep, At
<1>2. \/ pc[p].at = "wsleep" /\ Alone(p, "nwrite")
      \/ pc[p].at = "rsleep" /\ Alone(p, "nread")
  BY <1>1, GotoIs DEF Inv, Places
<1>3. lock = p /\ \A q \in Procs : q # p => pc[q].at \notin Locked
  BY <1>1, Holder DEF Locked
<1>4. UNCHANGED <<nread, nwrite, data, readopen, writeopen>>
  BY <1>1 DEF pipe
<1>5. Mutex'
  BY <1>1, <1>2, <1>3, PipeAssumption DEF Inv, Mutex, Alone, Locked
<1>6. Sleepers'
  BY <1>1, <1>2, <1>3, <1>4 DEF Inv, Sleepers, Alone, Locked
<1>7. Within
  BY <1>1, <1>2, ZenonT(30) DEF Inv, Users, Alone, Writer, Reader, Closer, Within
<1> QED BY <1>1, <1>2, <1>5, <1>6, <1>7, CalmKeeps DEF Inv, TypeOK, Alone

\* A process that has the write end open calls pipewrite.
LEMMA pipewriteKeeps ==
  ASSUME Inv, NEW p \in Procs, NEW n \in Sizes, pipewrite(p, n) PROVE Inv'
<1>1. /\ pc[p].at = "idle" /\ "w" \in ends[p] /\ pc' = [pc EXCEPT ![p] = [at |-> "wacq", i |-> 0, n |-> n]]
      /\ UNCHANGED <<pipe, lock, freed, ends, killed, sent, got>>
  BY DEF pipewrite, At
<1>2. Alone(p, "wacq")
  <2>1. [at |-> "wacq", i |-> 0, n |-> n] \in PcType
    BY PipeAssumption DEF PcType, Places
  <2> QED BY <1>1, <2>1, SetIs, Zenon DEF Inv
<1>3. UNCHANGED <<nread, nwrite, data, readopen, writeopen>>
  BY <1>1 DEF pipe
<1>4. Mutex'
  BY <1>1, <1>2 DEF Inv, Mutex, Alone, Locked
<1>5. Sleepers'
  BY <1>1, <1>2, <1>3, SMTT(20) DEF Inv, Sleepers, Alone, Locked
<1>6. Within
  BY <1>1, <1>2 DEF Inv, Users, Alone, Writer, Reader, Closer, Within
<1> QED BY <1>1, <1>2, <1>4, <1>5, <1>6, CalmKeeps DEF Inv, TypeOK, Alone

\* A process that has the read end open calls piperead.
LEMMA pipereadKeeps ==
  ASSUME Inv, NEW p \in Procs, NEW n \in Sizes, piperead(p, n) PROVE Inv'
<1>1. /\ pc[p].at = "idle" /\ "r" \in ends[p] /\ pc' = [pc EXCEPT ![p] = [at |-> "racq", i |-> 0, n |-> n]]
      /\ UNCHANGED <<pipe, lock, freed, ends, killed, sent, got>>
  BY DEF piperead, At
<1>2. Alone(p, "racq")
  <2>1. [at |-> "racq", i |-> 0, n |-> n] \in PcType
    BY PipeAssumption DEF PcType, Places
  <2> QED BY <1>1, <2>1, SetIs, Zenon DEF Inv
<1>3. UNCHANGED <<nread, nwrite, data, readopen, writeopen>>
  BY <1>1 DEF pipe
<1>4. Mutex'
  BY <1>1, <1>2 DEF Inv, Mutex, Alone, Locked
<1>5. Sleepers'
  BY <1>1, <1>2, <1>3 DEF Inv, Sleepers, Alone, Locked
<1>6. Within
  BY <1>1, <1>2 DEF Inv, Users, Alone, Writer, Reader, Closer, Within
<1> QED BY <1>1, <1>2, <1>4, <1>5, <1>6, CalmKeeps DEF Inv, TypeOK, Alone

\* A writer leaves bytes unannounced only when it was killed: as long as a reader
\* sleeps, the read end is open.
LEMMA WriteClosedKeeps ==
  ASSUME Inv, NEW p \in Procs, WriteClosed(p) PROVE Inv'
<1>1. /\ pc[p].at = "write" /\ (~readopen \/ p \in killed) /\ lock' = NULL
      /\ pc' = [pc EXCEPT ![p] = Idle] /\ UNCHANGED <<pipe, freed, ends, killed, sent, got>>
  BY DEF WriteClosed, Writing, At
<1>2. Alone(p, "idle")
  BY <1>1, IdleIs, Zenon DEF Inv
<1>3. lock = p /\ \A q \in Procs : q # p => pc[q].at \notin Locked
  BY <1>1, Holder DEF Locked
<1>4. UNCHANGED <<nread, nwrite, data, readopen, writeopen>>
  BY <1>1 DEF pipe
<1>k. \A q \in Procs : pc[q].at = "nread" => killed # {}
  BY <1>1 DEF Inv, Users, Reader, Open
<1>5. Mutex'
  BY <1>1, <1>2, <1>3, PipeAssumption DEF Inv, Mutex, Alone, Locked
<1>6. Sleepers'
  BY <1>1, <1>2, <1>3, <1>4, <1>k DEF Inv, Sleepers, Alone, Locked
<1>7. Within
  BY <1>1, <1>2 DEF Inv, Users, Alone, Writer, Reader, Closer, Within
<1> QED BY <1>1, <1>2, <1>5, <1>6, <1>7, CalmKeeps DEF Inv, TypeOK, Alone

\* A writer that finds the ring full wakes the readers before it sleeps.
LEMMA WriteFullKeeps ==
  ASSUME Inv, NEW p \in Procs, WriteFull(p) PROVE Inv'
<1>1. /\ pc[p].at = "write" /\ readopen /\ Full /\ WakeReaders(p, "wsleep")
      /\ UNCHANGED <<pipe, lock, freed, ends, killed, sent, got>>
  BY DEF WriteFull, Writing, At
<1>2. Woken(p, "wsleep", "nread", "rwake")
  BY <1>1, WakeIs DEF Inv, WakeReaders, Places
<1>3. lock = p /\ \A q \in Procs : q # p => pc[q].at \notin Locked
  BY <1>1, Holder DEF Locked
<1>4. UNCHANGED <<nread, nwrite, data, readopen, writeopen>>
  BY <1>1 DEF pipe
<1>t. (Empty <=> Len(got) = sent) /\ (Full <=> sent = Len(got) + PIPESIZE)
  BY Tests DEF Inv
<1>5. Mutex'
  BY <1>1, <1>2, <1>3 DEF Inv, Mutex, Woken, Locked
<1>6. Sleepers'
  BY <1>1, <1>2, <1>3, <1>4, <1>t, ZenonT(30) DEF Inv, Sleepers, Woken, Locked
<1>7. Within
  BY <1>1, <1>2, ZenonT(30) DEF Inv, Users, Woken, Writer, Reader, Closer, Within
<1> QED BY <1>1, <1>2, <1>5, <1>6, <1>7, CalmKeeps DEF Inv, TypeOK, Woken

\* pipewrite wakes the readers before it returns.
LEMMA WriteEndKeeps ==
  ASSUME Inv, NEW p \in Procs, WriteEnd(p) PROVE Inv'
<1>1. /\ pc[p].at = "write" /\ WakeReaders(p, "idle") /\ lock' = NULL
      /\ UNCHANGED <<pipe, freed, ends, killed, sent, got>>
  BY DEF WriteEnd, At
<1>2. Woken(p, "idle", "nread", "rwake")
  BY <1>1, WakeIs DEF Inv, WakeReaders, Places
<1>3. lock = p /\ \A q \in Procs : q # p => pc[q].at \notin Locked
  BY <1>1, Holder DEF Locked
<1>4. UNCHANGED <<nread, nwrite, data, readopen, writeopen>>
  BY <1>1 DEF pipe
<1>5. Mutex'
  BY <1>1, <1>2, <1>3, PipeAssumption DEF Inv, Mutex, Woken, Locked
<1>6. Sleepers'
  BY <1>1, <1>2, <1>3, <1>4, ZenonT(30) DEF Inv, Sleepers, Woken, Locked
<1>7. Within
  BY <1>1, <1>2, ZenonT(30) DEF Inv, Users, Woken, Writer, Reader, Closer, Within
<1> QED BY <1>1, <1>2, <1>5, <1>6, <1>7, CalmKeeps DEF Inv, TypeOK, Woken

\* A killed reader returns.
LEMMA ReadKilledKeeps ==
  ASSUME Inv, NEW p \in Procs, ReadKilled(p) PROVE Inv'
<1>1. /\ pc[p].at = "wait" /\ lock' = NULL
      /\ pc' = [pc EXCEPT ![p] = Idle] /\ UNCHANGED <<pipe, freed, ends, killed, sent, got>>
  BY DEF ReadKilled, At
<1>2. Alone(p, "idle")
  BY <1>1, IdleIs, Zenon DEF Inv
<1>3. lock = p /\ \A q \in Procs : q # p => pc[q].at \notin Locked
  BY <1>1, Holder DEF Locked
<1>4. UNCHANGED <<nread, nwrite, data, readopen, writeopen>>
  BY <1>1 DEF pipe
<1>5. Mutex'
  BY <1>1, <1>2, <1>3, PipeAssumption DEF Inv, Mutex, Alone, Locked
<1>6. Sleepers'
  BY <1>1, <1>2, <1>3, <1>4 DEF Inv, Sleepers, Alone, Locked
<1>7. Within
  BY <1>1, <1>2 DEF Inv, Users, Alone, Writer, Reader, Closer, Within
<1> QED BY <1>1, <1>2, <1>5, <1>6, <1>7, CalmKeeps DEF Inv, TypeOK, Alone

\* A reader decides to sleep on an empty pipe that can still be written.
LEMMA ReadWaitKeeps ==
  ASSUME Inv, NEW p \in Procs, ReadWait(p) PROVE Inv'
<1>1. /\ pc[p].at = "wait" /\ Empty /\ writeopen /\ Goto(p, "rsleep")
      /\ UNCHANGED <<pipe, lock, freed, ends, killed, sent, got>>
  BY DEF ReadWait, At
<1>2. Alone(p, "rsleep")
  BY <1>1, GotoIs DEF Inv, Places
<1>3. lock = p /\ \A q \in Procs : q # p => pc[q].at \notin Locked
  BY <1>1, Holder DEF Locked
<1>4. UNCHANGED <<nread, nwrite, data, readopen, writeopen>>
  BY <1>1 DEF pipe
<1>t. (Empty <=> Len(got) = sent) /\ (Full <=> sent = Len(got) + PIPESIZE)
  BY Tests DEF Inv
<1>5. Mutex'
  BY <1>1, <1>2, <1>3 DEF Inv, Mutex, Alone, Locked
<1>6. Sleepers'
  BY <1>1, <1>2, <1>3, <1>4, <1>t, ZenonT(30) DEF Inv, Sleepers, Alone, Locked
<1>7. Within
  BY <1>1, <1>2, ZenonT(30) DEF Inv, Users, Alone, Writer, Reader, Closer, Within
<1> QED BY <1>1, <1>2, <1>5, <1>6, <1>7, CalmKeeps DEF Inv, TypeOK, Alone

\* A reader goes on to copy.
LEMMA ReadStartKeeps ==
  ASSUME Inv, NEW p \in Procs, ReadStart(p) PROVE Inv'
<1>1. /\ pc[p].at = "wait" /\ Goto(p, "read")
      /\ UNCHANGED <<pipe, lock, freed, ends, killed, sent, got>>
  BY ZenonT(30) DEF ReadStart, At
<1>2. Alone(p, "read")
  BY <1>1, GotoIs DEF Inv, Places
<1>3. lock = p /\ \A q \in Procs : q # p => pc[q].at \notin Locked
  BY <1>1, Holder DEF Locked
<1>4. UNCHANGED <<nread, nwrite, data, readopen, writeopen>>
  BY <1>1 DEF pipe
<1>5. Mutex'
  BY <1>1, <1>2, <1>3 DEF Inv, Mutex, Alone, Locked
<1>6. Sleepers'
  BY <1>1, <1>2, <1>3, <1>4, ZenonT(30) DEF Inv, Sleepers, Alone, Locked
<1>7. Within
  BY <1>1, <1>2, ZenonT(30) DEF Inv, Users, Alone, Writer, Reader, Closer, Within
<1> QED BY <1>1, <1>2, <1>5, <1>6, <1>7, CalmKeeps DEF Inv, TypeOK, Alone

\* piperead wakes the writers before it returns.
LEMMA ReadEndKeeps ==
  ASSUME Inv, NEW p \in Procs, ReadEnd(p) PROVE Inv'
<1>1. /\ pc[p].at = "read" /\ WakeWriters(p, "idle") /\ lock' = NULL
      /\ UNCHANGED <<pipe, freed, ends, killed, sent, got>>
  BY DEF ReadEnd, At
<1>2. Woken(p, "idle", "nwrite", "wacq")
  BY <1>1, WakeIs DEF Inv, WakeWriters, Places
<1>3. lock = p /\ \A q \in Procs : q # p => pc[q].at \notin Locked
  BY <1>1, Holder DEF Locked
<1>4. UNCHANGED <<nread, nwrite, data, readopen, writeopen>>
  BY <1>1 DEF pipe
<1>5. Mutex'
  BY <1>1, <1>2, <1>3, PipeAssumption DEF Inv, Mutex, Woken, Locked
<1>6. Sleepers'
  BY <1>1, <1>2, <1>3, <1>4, SMTT(30) DEF Inv, Sleepers, Woken, Locked
<1>7. Within
  BY <1>1, <1>2, ZenonT(30) DEF Inv, Users, Woken, Writer, Reader, Closer, Within
<1> QED BY <1>1, <1>2, <1>5, <1>6, <1>7, CalmKeeps DEF Inv, TypeOK, Woken

\* A byte goes into a slot that holds no byte yet to be read.
LEMMA WriteByteKeeps ==
  ASSUME Inv, NEW p \in Procs, WriteByte(p) PROVE Inv'
<1> DEFINE c == Len(got)
<1>1. /\ pc[p].at = "write" /\ ~Full /\ sent' = sent + 1
      /\ data' = [data EXCEPT ![nwrite % PIPESIZE] = sent + 1] /\ nwrite' = (nwrite + 1) % WORD
      /\ pc' = [pc EXCEPT ![p].i = @ + 1]
      /\ UNCHANGED <<nread, readopen, writeopen, lock, freed, ends, killed, got>>
  BY DEF WriteByte, Writing, At
<1>2. pc' \in [Procs -> PcType] /\ \A q \in Procs : pc'[q].at = pc[q].at /\ pc'[q].n = pc[q].n
  BY <1>1, CountIs, Zenon DEF Inv
<1>3. lock = p /\ \A q \in Procs : q # p => pc[q].at \notin Locked
  BY <1>1, Holder DEF Locked
<1>4. /\ c \in Nat /\ sent \in Nat /\ c <= sent /\ sent < c + PIPESIZE /\ nwrite = sent % WORD
      /\ data \in [0..(PIPESIZE - 1) -> Nat]
  <2>1. sent # c + PIPESIZE
    BY <1>1, Tests DEF Inv
  <2>2. c \in Nat /\ sent \in Nat /\ data \in [0..(PIPESIZE - 1) -> Nat]
    BY DEF Inv, TypeOK
  <2>3. c <= sent /\ sent <= c + PIPESIZE /\ nwrite = sent % WORD
    BY DEF Inv, Ring
  <2> QED BY <2>1, <2>2, <2>3, PipeFacts
<1>5. nwrite' = (sent + 1) % WORD /\ nwrite' \in Nat
  <2>1. ((sent % WORD) + 1) % WORD = (sent + 1) % WORD
    BY <1>4, PipeFacts, ModAdd, ZenonT(30)
  <2> QED BY <1>1, <1>4, <2>1, PipeFacts, SMTT(30)
<1>6. PICK k \in 0..(PIPESIZE - 1) : k = sent % PIPESIZE /\ k = nwrite % PIPESIZE
  <2>1. (sent % WORD) % PIPESIZE = sent % PIPESIZE
    BY <1>4, PipeFacts, ModSlot, Zenon
  <2>2. sent % PIPESIZE \in 0..(PIPESIZE - 1)
    BY <1>4, PipeFacts
  <2> QED BY <1>4, <2>1, <2>2
<1>7. data' = [data EXCEPT ![k] = sent + 1]
  BY <1>1, <1>6, Zenon
<1>8. ASSUME NEW j \in (c + 1)..sent PROVE (j - 1) % PIPESIZE # k /\ (j - 1) % PIPESIZE \in 0..(PIPESIZE - 1)
  <2>1. j - 1 \in Nat /\ j - 1 <= sent /\ sent < (j - 1) + PIPESIZE /\ j - 1 # sent
    BY <1>4, PipeFacts
  <2>2. (j - 1) % PIPESIZE # sent % PIPESIZE
    BY <1>4, <2>1, PipeFacts, ModSame, Zenon
  <2> QED BY <1>6, <2>1, <2>2, PipeFacts
<1>9. Ring'
  <2>1. \A j \in (c + 1)..(sent + 1) : data'[(j - 1) % PIPESIZE] = j
    <3> SUFFICES ASSUME NEW j \in (c + 1)..(sent + 1) PROVE data'[(j - 1) % PIPESIZE] = j
      OBVIOUS
    <3>1. CASE j = sent + 1
      <4>1. (j - 1) % PIPESIZE = k
        BY <1>4, <1>6, <3>1
      <4> QED BY <1>4, <1>7, <3>1, <4>1
    <3>2. CASE j # sent + 1
      <4>1. j \in (c + 1)..sent
        BY <1>4, <3>2
      <4>2. data[(j - 1) % PIPESIZE] = j
        BY <4>1 DEF Inv, Ring
      <4> QED BY <1>4, <1>7, <1>8, <4>1, <4>2
    <3> QED BY <3>1, <3>2
  <2>2. c <= sent + 1 /\ sent + 1 <= c + PIPESIZE
    BY <1>4, PipeFacts
  <2> QED BY <1>1, <1>5, <2>1, <2>2 DEF Inv, Ring
<1>10. TypeOK'
  <2>1. sent + 1 \in Nat
    BY <1>4
  <2>2. data' \in [0..(PIPESIZE - 1) -> Nat]
    BY <1>4, <1>7, <2>1
  <2> QED BY <1>1, <1>2, <1>5, <2>1, <2>2 DEF Inv, TypeOK
<1>11. Mutex' /\ Users' /\ FreedOnce'
  BY <1>1, <1>2 DEF Inv, Mutex, Users, Closing, Open, FreedOnce
<1>12. Sleepers'
  <2>1. \A q \in Procs : pc[q].at \notin {"rsleep", "wsleep", "read"}
    BY <1>1, <1>3 DEF Locked
  <2>2. \A q \in Procs : pc[q].at # "nwrite"
    BY <1>4, <2>1, PipeFacts DEF Inv, Sleepers
  <2> QED BY <1>1, <1>2, <2>1, <2>2 DEF Inv, Sleepers
<1> QED BY <1>9, <1>10, <1>11, <1>12 DEF Inv

\* The next byte in order leaves the ring.
LEMMA ReadByteKeeps ==
  ASSUME Inv, NEW p \in Procs, ReadByte(p) PROVE Inv'
<1> DEFINE c == Len(got)
<1>1. /\ pc[p].at = "read" /\ ~Empty /\ got' = Append(got, data[nread % PIPESIZE])
      /\ nread' = (nread + 1) % WORD /\ pc' = [pc EXCEPT ![p].i = @ + 1]
      /\ UNCHANGED <<nwrite, data, readopen, writeopen, lock, freed, ends, killed, sent>>
  BY DEF ReadByte, At
<1>2. pc' \in [Procs -> PcType] /\ \A q \in Procs : pc'[q].at = pc[q].at /\ pc'[q].n = pc[q].n
  BY <1>1, CountIs, Zenon DEF Inv
<1>3. lock = p /\ \A q \in Procs : q # p => pc[q].at \notin Locked
  BY <1>1, Holder DEF Locked
<1>4. /\ c \in Nat /\ sent \in Nat /\ c < sent /\ sent <= c + PIPESIZE /\ nread = c % WORD
      /\ got \in Seq(Nat)
  <2>1. c # sent
    BY <1>1, Tests DEF Inv
  <2>2. c \in Nat /\ sent \in Nat /\ got \in Seq(Nat)
    BY DEF Inv, TypeOK
  <2>3. c <= sent /\ sent <= c + PIPESIZE /\ nread = c % WORD
    BY DEF Inv, Ring
  <2> QED BY <2>1, <2>2, <2>3, PipeFacts
<1>5. nread' = (c + 1) % WORD /\ nread' \in Nat
  <2>1. ((c % WORD) + 1) % WORD = (c + 1) % WORD
    BY <1>4, PipeFacts, ModAdd, ZenonT(30)
  <2> QED BY <1>1, <1>4, <2>1, PipeFacts, SMTT(30)
<1>6. data[nread % PIPESIZE] = c + 1
  <2>1. (c % WORD) % PIPESIZE = c % PIPESIZE
    BY <1>4, PipeFacts, ModSlot, Zenon
  <2>3. nread % PIPESIZE = c % PIPESIZE
    BY <1>4, <2>1
  <2>4. c + 1 \in (c + 1)..sent /\ (c + 1) - 1 = c
    BY <1>4
  <2>5. data[((c + 1) - 1) % PIPESIZE] = c + 1
    BY <2>4 DEF Inv, Ring
  <2> QED BY <2>3, <2>4, <2>5
<1>7. got' = Append(got, c + 1)
  BY <1>1, <1>6
<1>8. /\ got' \in Seq(Nat) /\ Len(got') = c + 1 /\ got'[c + 1] = c + 1
      /\ \A k \in 1..c : got'[k] = got[k]
  BY <1>4, <1>7
<1>9. Ring'
  <2>1. \A k \in 1..(c + 1) : got'[k] = k
    <3>1. \A k \in 1..c : got[k] = k
      BY DEF Inv, Ring
    <3> SUFFICES ASSUME NEW k \in 1..(c + 1) PROVE got'[k] = k
      OBVIOUS
    <3>2. k = c + 1 \/ k \in 1..c
      BY <1>4
    <3> QED BY <1>8, <3>1, <3>2
  <2>2. c + 1 <= sent /\ sent <= (c + 1) + PIPESIZE
    BY <1>4, PipeFacts
  <2>3. \A j \in ((c + 1) + 1)..sent : data[(j - 1) % PIPESIZE] = j
    BY <1>4 DEF Inv, Ring
  <2>4. nwrite = sent % WORD
    BY DEF Inv, Ring
  <2> QED BY <1>1, <1>5, <1>8, <2>1, <2>2, <2>3, <2>4 DEF Ring
<1>10. TypeOK'
  BY <1>1, <1>2, <1>5, <1>8 DEF Inv, TypeOK
<1>11. Mutex' /\ Users' /\ FreedOnce'
  BY <1>1, <1>2 DEF Inv, Mutex, Users, Closing, Open, FreedOnce
<1>12. Sleepers'
  <2>1. \A q \in Procs : pc[q].at \notin {"rsleep", "wsleep", "write"}
    BY <1>1, <1>3 DEF Locked
  <2>2. \A q \in Procs : pc[q].at = "nread" => writeopen /\ killed # {}
    BY <1>4, <2>1 DEF Inv, Sleepers
  <2>3. \A q \in Procs : pc[q].at = "nwrite" => readopen
    BY DEF Inv, Sleepers
  <2> QED BY <1>1, <1>2, <2>1, <2>2, <2>3 DEF Sleepers
<1> QED BY <1>9, <1>10, <1>11, <1>12 DEF Inv

\* The last process that has an end open becomes the one that closes it.
LEMMA filecloseKeeps ==
  ASSUME Inv, NEW p \in Procs, NEW e \in {"r", "w"}, fileclose(p, e) PROVE Inv'
<1>1. /\ pc[p].at = "idle" /\ e \in ends[p] /\ ends' = [ends EXCEPT ![p] = @ \ {e}]
      /\ pc' = IF Holds(e) = {p} THEN [pc EXCEPT ![p] = [at |-> "cacq", i |-> 0, n |-> e]] ELSE pc
      /\ UNCHANGED <<pipe, lock, freed, killed, sent, got>>
  BY DEF fileclose, At
<1>2. UNCHANGED <<nread, nwrite, data, readopen, writeopen>>
  BY <1>1 DEF pipe
<1>3. /\ ends' \in [Procs -> SUBSET {"r", "w"}] /\ ends'[p] = ends[p] \ {e}
      /\ \A q \in Procs : q # p => ends'[q] = ends[q]
  BY <1>1 DEF Inv, TypeOK
<1>4. \A q \in Procs : ~Closing(q, e)
  BY <1>1 DEF Inv, Users
<1>5. CASE Holds(e) = {p}
  <2>1. Alone(p, "cacq") /\ pc'[p].n = e
    <3>1. [at |-> "cacq", i |-> 0, n |-> e] \in PcType
      BY DEF PcType, Places
    <3>2. PICK r \in PcType : r = [at |-> "cacq", i |-> 0, n |-> e]
      BY <3>1
    <3>3. pc' = [pc EXCEPT ![p] = r] /\ r.at = "cacq" /\ r.n = e
      BY <1>1, <1>5, <3>2
    <3> QED BY <3>3, SetIs, ZenonT(30) DEF Inv
  <2>2. TypeOK' /\ Ring'
    BY <1>1, <1>2, <1>3, <2>1, ZenonT(30) DEF Inv, TypeOK, Ring, Alone
  <2>3. Mutex' /\ FreedOnce' /\ Sleepers'
    BY <1>1, <1>2, <2>1, SMTT(30) DEF Inv, Mutex, FreedOnce, Sleepers, Alone, Locked
  <2>4. \A q \in Procs : e \notin ends'[q]
    BY <1>3, <1>5 DEF Holds
  <2>5. Open(e) /\ Open(e)' = Open(e) /\ Open("r")' = Open("r") /\ Open("w")' = Open("w")
    BY <1>1, <1>2 DEF Inv, Users, Open
  <2>6. \A q \in Procs : /\ pc'[q].at \in Writer => "w" \in ends'[q]
                         /\ pc'[q].at \in Reader => "r" \in ends'[q]
                         /\ pc'[q].at \in Closer => pc'[q].n \in {"r", "w"}
    BY <1>3, <2>1, ZenonT(30) DEF Inv, Users, Alone, Writer, Reader, Closer
  <2>7. \A q \in Procs : \A x \in ends'[q] : x \in ends[q] /\ x \in {"r", "w"}
    BY <1>3
  <2>8. \A q \in Procs, x \in {"r", "w"} :
          Closing(q, x)' <=> (IF q = p THEN x = e ELSE Closing(q, x))
    BY <2>1 DEF Closing, Closer, Alone
  <2>9. \A q \in Procs, x \in {"r", "w"} : Closing(q, x)' => Open(x)'
    BY <2>5, <2>8 DEF Inv, Users
  <2>10. \A q \in Procs, x \in {"r", "w"} : Closing(q, x)' => \A o \in Procs : x \notin ends'[o]
    BY <2>4, <2>7, <2>8 DEF Inv, Users
  <2>11. \A q, o \in Procs, x \in {"r", "w"} : Closing(q, x)' /\ Closing(o, x)' => o = q
    BY <1>4, <2>8 DEF Inv, Users
  <2>12. \A q \in Procs : \A x \in ends'[q] : Open(x)'
    BY <2>5, <2>7 DEF Inv, Users
  <2>13. Users'
    BY <2>6, <2>9, <2>10, <2>11, <2>12 DEF Users
  <2> QED BY <2>2, <2>3, <2>13 DEF Inv
<1>6. CASE Holds(e) # {p}
  <2>1. pc' = pc
    BY <1>1, <1>6
  <2>2. TypeOK' /\ Ring'
    BY <1>1, <1>2, <1>3, <2>1 DEF Inv, TypeOK, Ring
  <2>3. Mutex' /\ FreedOnce' /\ Sleepers'
    BY <1>1, <1>2, <2>1 DEF Inv, Mutex, FreedOnce, Sleepers
  <2>4. Users'
    BY <1>1, <1>2, <1>3, <2>1 DEF Inv, Users, Closing, Open, Writer, Reader
  <2> QED BY <2>2, <2>3, <2>4 DEF Inv
<1> QED BY <1>5, <1>6

\* pipeclose closes an end nobody uses, wakes who waits for it, and goes on to
\* free the memory when the other end is closed as well.
LEMMA pipecloseKeeps ==
  ASSUME Inv, NEW p \in Procs, pipeclose(p) PROVE Inv'
<1>1. PICK e \in {"r", "w"} : pc[p].n = e /\ Closing(p, e) /\ pc[p].at = "close"
  BY ZenonT(30) DEF pipeclose, At, Inv, Users, Closing, Closer
<1>2. /\ Open(e) /\ freed = 0 /\ \A q \in Procs : pc[q].at # "kfree"
      /\ \A q \in Procs : e \notin ends[q] /\ (Closing(q, e) => q = p)
  <2>1. Open(e) /\ \A q \in Procs : e \notin ends[q] /\ (Closing(q, e) => q = p)
    BY <1>1 DEF Inv, Users
  <2> QED BY <1>1, <2>1 DEF Inv, FreedOnce, Open
<1>3. PICK at \in {"idle", "kfree"} :
        /\ at = "kfree" <=> ~readopen' /\ ~writeopen'
        /\ IF e = "w" THEN WakeReaders(p, at) ELSE WakeWriters(p, at)
  BY <1>1 DEF pipeclose, Unused, CloseWrite
<1>4. /\ writeopen' = (writeopen /\ e # "w") /\ readopen' = (readopen /\ e = "w") /\ lock' = NULL
      /\ UNCHANGED <<nread, nwrite, data, freed, ends, killed, sent, got>>
  BY <1>1 DEF pipeclose
<1>5. \/ e = "w" /\ Woken(p, at, "nread", "rwake")
      \/ e = "r" /\ Woken(p, at, "nwrite", "wacq")
  BY <1>1, <1>3, WakeIs DEF Inv, WakeReaders, WakeWriters, Places
<1>6. /\ pc' \in [Procs -> PcType] /\ pc'[p].at = at
      /\ \A q \in Procs : q # p => /\ pc'[q].n = pc[q].n
                                   /\ pc'[q].at \in Writer <=> pc[q].at \in Writer
                                   /\ pc'[q].at \in Reader <=> pc[q].at \in Reader
                                   /\ pc'[q].at \in Closer <=> pc[q].at \in Closer
                                   /\ pc'[q].at \in Locked <=> pc[q].at \in Locked
                                   /\ pc'[q].at # "kfree"
  BY <1>2, <1>5, ZenonT(30) DEF Woken, Writer, Reader, Closer, Locked
<1>7. \A q \in Procs : q # p => pc[q].at \notin Locked
  BY <1>1, Holder DEF Locked
<1>8. TypeOK' /\ Ring'
  BY <1>4, <1>6 DEF Inv, TypeOK, Ring
<1>9. Mutex'
  BY <1>4, <1>6, <1>7, PipeAssumption DEF Mutex, Locked
<1>10. /\ ~Open(e)' /\ \A x \in {"r", "w"} : x # e => (Open(x)' <=> Open(x))
  BY <1>4, Zenon DEF Open, Inv, TypeOK
<1>11. Users'
  <2>1. \A q \in Procs : /\ pc'[q].at \in Writer => "w" \in ends'[q]
                         /\ pc'[q].at \in Reader => "r" \in ends'[q]
                         /\ pc'[q].at \in Closer => pc'[q].n \in {"r", "w"}
    BY <1>3, <1>4, <1>6 DEF Inv, Users, Writer, Reader, Closer
  <2>2. \A q \in Procs : \A x \in ends'[q] : Open(x)'
    <3> SUFFICES ASSUME NEW q \in Procs, NEW x \in ends[q] PROVE Open(x)'
      BY <1>4
    <3>1. x \in {"r", "w"} /\ x # e /\ Open(x)
      BY <1>2 DEF Inv, Users, TypeOK
    <3> QED BY <1>10, <3>1
  <2>3. \A q \in Procs, x \in {"r", "w"} : Closing(q, x)' => Closing(q, x) /\ x # e
    BY <1>2, <1>6 DEF Closing, Closer
  <2>4. \A q \in Procs, x \in {"r", "w"} : Closing(q, x)' =>
          Open(x)' /\ \A o \in Procs : x \notin ends'[o] /\ (Closing(o, x)' => o = q)
    BY <1>4, <1>10, <2>3 DEF Inv, Users
  <2> QED BY <2>1, <2>2, <2>4 DEF Users
<1>12. FreedOnce'
  BY <1>2, <1>3, <1>4, <1>6 DEF FreedOnce
<1>13. Sleepers'
  <2>1. \A q \in Procs : pc[q].at \notin {"rsleep", "wsleep", "read", "write"}
    BY <1>1, <1>7 DEF Locked
  <2>2. \A q \in Procs : pc'[q].at \notin {"rsleep", "wsleep"}
    BY <1>3, <1>6, <1>7 DEF Locked
  <2>3. CASE e = "w"
    <3>1. \A q \in Procs : pc'[q].at # "nread" /\ (pc'[q].at = "nwrite" => pc[q].at = "nwrite")
      BY <1>3, <1>5, <2>3 DEF Woken
    <3> QED BY <1>4, <2>1, <2>2, <2>3, <3>1, Zenon DEF Inv, Sleepers
  <2>4. CASE e = "r"
    <3>1. \A q \in Procs : pc'[q].at # "nwrite" /\ (pc'[q].at = "nread" => pc[q].at = "nread")
      BY <1>3, <1>5, <2>4 DEF Woken
    <3>2. \A q \in Procs : pc[q].at # "nread"
      BY <1>2, <2>4 DEF Inv, Users, Reader
    <3> QED BY <2>2, <3>1, <3>2 DEF Sleepers
  <2> QED BY <2>3, <2>4
<1> QED BY <1>8, <1>9, <1>11, <1>12, <1>13 DEF Inv

\* The memory is freed, once.
LEMMA kfreeKeeps ==
  ASSUME Inv, NEW p \in Procs, kfree(p) PROVE Inv'
<1>1. /\ pc[p].at = "kfree" /\ freed' = freed + 1 /\ pc' = [pc EXCEPT ![p] = Idle]
      /\ UNCHANGED <<pipe, lock, ends, killed, sent, got>>
  BY DEF kfree, At
<1>2. Alone(p, "idle")
  BY <1>1, IdleIs, Zenon DEF Inv
<1>3. UNCHANGED <<nread, nwrite, data, readopen, writeopen>>
  BY <1>1 DEF pipe
<1>4. freed = 0 /\ ~readopen /\ ~writeopen /\ \A q \in Procs : pc[q].at = "kfree" => q = p
  BY <1>1 DEF Inv, FreedOnce
<1>5. TypeOK' /\ Ring'
  BY <1>1, <1>2, <1>3, <1>4 DEF Inv, TypeOK, Ring, Alone
<1>6. Mutex' /\ FreedOnce' /\ Sleepers'
  BY <1>1, <1>2, <1>3, <1>4 DEF Inv, Mutex, FreedOnce, Sleepers, Alone, Locked
<1>7. Users'
  BY <1>1, <1>2, <1>3 DEF Inv, Users, Closing, Open, Alone, Writer, Reader, Closer
<1> QED BY <1>5, <1>6, <1>7 DEF Inv

\* A killed process leaves its sleep.
LEMMA kkillKeeps ==
  ASSUME Inv, NEW p \in Killable, kkill(p) PROVE Inv'
<1>1. /\ p \in Procs /\ killed' = killed \cup {p} /\ UNCHANGED <<pipe, lock, freed, ends, sent, got>>
      /\ pc' = [pc EXCEPT ![p].at = IF @ = "nread" THEN "rwake" ELSE IF @ = "nwrite" THEN "wacq" ELSE @]
  BY PipeAssumption DEF kkill
<1>2. PICK at \in Places : /\ at = (IF pc[p].at = "nread" THEN "rwake" ELSE IF pc[p].at = "nwrite" THEN "wacq" ELSE pc[p].at)
                          /\ Goto(p, at)
  <2>1. pc[p].at \in Places
    BY <1>1 DEF Inv, TypeOK, PcType
  <2> QED BY <1>1, <2>1, Zenon DEF Goto, Places
<1>3. Alone(p, at) /\ pc'[p].n = pc[p].n
  BY <1>1, <1>2, GotoIs DEF Inv
<1>4. UNCHANGED <<nread, nwrite, data, readopen, writeopen>>
  BY <1>1 DEF pipe
<1>5. Mutex'
  BY <1>1, <1>2, <1>3 DEF Inv, Mutex, Alone, Locked
<1>6. Sleepers'
  <2> SUFFICES ASSUME NEW q \in Procs
               PROVE  /\ pc'[q].at = "rsleep" => Len(got) = sent /\ writeopen
                      /\ pc'[q].at = "wsleep" => sent = Len(got) + PIPESIZE /\ readopen
                      /\ pc'[q].at = "nread" => writeopen /\ killed' # {}
                      /\ pc'[q].at = "nwrite" =>
                           readopen /\ (sent = Len(got) + PIPESIZE \/ \E o \in Procs : pc'[o].at = "read")
    BY <1>1, <1>4 DEF Sleepers
  <2>1. \A o \in Procs : pc[o].at = "read" => pc'[o].at = "read"
    BY <1>2, <1>3 DEF Alone
  <2>2. \A x \in {"rsleep", "wsleep", "nread", "nwrite"} : pc'[q].at = x => pc[q].at = x
    BY <1>2, <1>3 DEF Alone
  <2> QED BY <1>1, <2>1, <2>2 DEF Inv, Sleepers
<1>7. Within
  BY <1>1, <1>2, <1>3 DEF Inv, Users, Alone, Writer, Reader, Closer, Within
<1> QED BY <1>1, <1>3, <1>5, <1>6, <1>7, CalmKeeps DEF Inv, TypeOK, Alone

-----------------------------------------------------------------------------
(* The theorems.                                                           *)

\* Every step of every process keeps the invariant.
LEMMA StepKeeps ==
  ASSUME Inv, [Next]_vars PROVE Inv'
<1>1. ASSUME NEW p \in Procs, Acquire(p) \/ Step(p) PROVE Inv'
  BY <1>1, AcquireKeeps, SleepKeeps, WriteClosedKeeps, WriteFullKeeps, WriteByteKeeps, WriteEndKeeps,
     ReadKilledKeeps, ReadWaitKeeps, ReadStartKeeps, ReadByteKeeps, ReadEndKeeps, pipecloseKeeps,
     kfreeKeeps DEF Step
<1>2. ASSUME NEW p \in Procs, NEW n \in Sizes, pipewrite(p, n) \/ piperead(p, n) PROVE Inv'
  BY <1>2, pipewriteKeeps, pipereadKeeps
<1>3. CASE UNCHANGED vars
  BY <1>3, SMTT(30) DEF vars, Inv, TypeOK, Mutex, Users, Closing, Open, FreedOnce, Ring, Sleepers
<1> QED BY <1>1, <1>2, <1>3, filecloseKeeps, kkillKeeps DEF Next

\* The invariant holds at every step of every call.
LEMMA Invariance == Spec => []Inv
<1>1. Inv /\ [Next]_vars => Inv'
  BY StepKeeps
<1> QED BY <1>1, InitInv, PTL DEF Spec

\* For any number of processes, ring and calls: the bytes come out of the pipe
\* in order, none lost, doubled or overwritten while the counters wrap, and
\* pipeclose frees the pipe once, when no process can use it any more.
THEOREM StreamStaysIntact == Spec => []StreamIntact
<1>1. ASSUME Inv PROVE StreamIntact
  <2> DEFINE c == Len(got)
  <2>1. c \in Nat /\ sent \in Nat /\ c <= sent /\ sent <= c + PIPESIZE /\ nread = c % WORD /\ nwrite = sent % WORD
    BY <1>1 DEF Inv, TypeOK, Ring
  <2>2. freed <= 1 /\ (freed = 1 => \A p \in Procs : ends[p] = {} /\ At(p, "idle"))
    <3>1. freed <= 1
      BY <1>1 DEF Inv, TypeOK, FreedOnce
    <3>2. ASSUME freed = 1, NEW p \in Procs PROVE ends[p] = {} /\ pc[p].at = "idle"
      <4>1. ~readopen /\ ~writeopen /\ pc[p].at # "kfree"
        BY <1>1, <3>2, SMTT(30) DEF Inv, FreedOnce
      <4>2. ends[p] = {}
        BY <1>1, <4>1 DEF Inv, Users, Open
      <4>3. pc[p].at \notin Writer /\ pc[p].at \notin Reader
        BY <1>1, <4>2 DEF Inv, Users
      <4>4. pc[p].at \notin Closer
        BY <1>1, <4>1 DEF Inv, Users, Closing, Open
      <4>5. pc[p].at \in Places
        BY <1>1 DEF Inv, TypeOK, PcType
      <4> QED BY <4>1, <4>2, <4>3, <4>4, <4>5, ZenonT(30) DEF Places, Writer, Reader, Closer
    <3> QED BY <3>1, <3>2 DEF At
  <2>3. \A k \in 1..Len(got) : got[k] = k
    BY <1>1 DEF Inv, Ring
  <2>4. (nwrite - nread) % WORD = sent - c
    <3>1. sent < c + WORD
      BY <2>1, PipeFacts
    <3>2. ((sent % WORD) - (c % WORD)) % WORD = sent - c
      BY <2>1, <3>1, PipeFacts, ModDiff, Zenon
    <3> QED BY <2>1, <3>2
  <2>5. ASSUME NEW k \in 1..(sent - c) PROVE data[(nread + k - 1) % PIPESIZE] = c + k
    <3>1. PICK y \in Nat : y = k - 1
      BY <2>1
    <3>2. ((c % WORD) + y) % PIPESIZE = (c + y) % PIPESIZE
      <4>1. \A x, z \in Nat : ((x % WORD) + z) % PIPESIZE = (x + z) % PIPESIZE
        BY PipeFacts, ModMod, Zenon
      <4> QED BY <2>1, <4>1
    <3>3. nread \in Nat /\ nread + k - 1 = nread + y /\ c + y = (c + k) - 1 /\ c + k \in (c + 1)..sent
      BY <1>1, <2>1, <3>1 DEF Inv, TypeOK
    <3>4. data[((c + k) - 1) % PIPESIZE] = c + k
      BY <1>1, <3>3 DEF Inv, Ring
    <3> QED BY <2>1, <3>2, <3>3, <3>4, SMTT(20)
  <2> QED BY <2>2, <2>3, <2>4, <2>5 DEF StreamIntact
<1> QED BY <1>1, Invariance, PTL

\* For any number of processes: no room, no close and, unless a writer is
\* killed, no byte is missed by a process that sleeps in piperead or pipewrite.
THEOREM NoWakeupIsLost == Spec => []NoLostWakeup
<1>1. ASSUME Inv PROVE NoLostWakeup
  <2> SUFFICES ASSUME lock = NULL
               PROVE  /\ \A p \in Procs : pc[p].at = "nread" => (Empty \/ killed # {}) /\ writeopen
                      /\ \A p \in Procs : pc[p].at = "nwrite" => Full /\ readopen
    BY DEF NoLostWakeup, At
  <2>1. \A q \in Procs : pc[q].at \notin Locked
    BY <1>1, Holder
  <2>2. (Empty <=> Len(got) = sent) /\ (Full <=> sent = Len(got) + PIPESIZE)
    BY <1>1, Tests, SMTT(20) DEF Inv
  <2> QED BY <1>1, <2>1, <2>2 DEF Inv, Sleepers, Locked
<1> QED BY <1>1, Invariance, PTL

\* piperead reaches its copy loop only past its loop of waits.
LEMMA OnlyReadStart ==
  ASSUME TypeOK, Next, NEW p \in Procs, pc[p].at # "read", pc'[p].at = "read"
  PROVE  ReadStart(p)
<1> DEFINE Other == \A q \in Procs : pc'[q].at = "read" => pc[q].at = "read"
<1>1. \A q \in Procs, at \in Places \ {"read"} : Goto(q, at) => Other
  BY GotoIs DEF Alone
<1>2. \A q \in Procs : pc' = [pc EXCEPT ![q] = Idle] => Other
  BY IdleIs, Zenon DEF Alone
<1>3. \A q \in Procs, at \in Places \ {"read"} :
        WakeReaders(q, at) \/ WakeWriters(q, at) => Other
  <2>1. {"rwake", "wacq"} \subseteq Places
    BY DEF Places
  <2> QED BY <2>1, WakeIs DEF WakeReaders, WakeWriters, Woken
<1>4. \A q \in Procs : pc' = [pc EXCEPT ![q].i = @ + 1] => Other
  BY CountIs
<1>5. {"write", "wait", "close", "nwrite", "nread", "wsleep", "idle", "rsleep", "kfree", "wacq", "rwake"}
        \subseteq Places \ {"read"}
  BY DEF Places
<1> HIDE DEF Other
<1>6. ASSUME NEW q \in Procs, Acquire(q) \/ Sleep(q) PROVE Other
  BY <1>1, <1>5, <1>6 DEF Acquire, AfterSleep, Sleep
<1>7. ASSUME NEW q \in Procs, WriteClosed(q) \/ ReadKilled(q) \/ kfree(q) PROVE Other
  BY <1>2, <1>7 DEF WriteClosed, ReadKilled, kfree
<1>8. ASSUME NEW q \in Procs, WriteFull(q) \/ WriteEnd(q) \/ ReadEnd(q) PROVE Other
  BY <1>3, <1>5, <1>8, ZenonT(30) DEF WriteFull, WriteEnd, ReadEnd
<1>9. ASSUME NEW q \in Procs, pipeclose(q) PROVE Other
  BY <1>3, <1>5, <1>9 DEF pipeclose, CloseWrite, Unused
<1>10. ASSUME NEW q \in Procs, WriteByte(q) \/ ReadByte(q) PROVE Other
  BY <1>4, <1>10 DEF WriteByte, ReadByte
<1>11. ASSUME NEW q \in Procs, ReadWait(q) PROVE Other
  BY <1>1, <1>5, <1>11 DEF ReadWait
<1>12. ASSUME NEW q \in Procs, ReadStart(q) PROVE q = p
  <2>1. Alone(q, "read")
    BY <1>12, GotoIs DEF ReadStart, Places
  <2> QED BY <2>1 DEF Alone
<1>13. ASSUME NEW q \in Procs, NEW n \in Sizes, pipewrite(q, n) \/ piperead(q, n) PROVE Other
  <2>1. CASE pipewrite(q, n)
    BY <2>1 DEF pipewrite, TypeOK, Other
  <2>2. CASE piperead(q, n)
    BY <2>2 DEF piperead, TypeOK, Other
  <2> QED BY <1>13, <2>1, <2>2
<1>14. ASSUME NEW q \in Procs, NEW e \in {"r", "w"}, fileclose(q, e) PROVE Other
  BY <1>14 DEF fileclose, TypeOK, Other
<1>15. ASSUME NEW q \in Killable, kkill(q) PROVE Other
  BY <1>15, PipeAssumption DEF kkill, TypeOK, PcType, Other
<1>16. ~Other
  BY DEF Other
<1> QED BY <1>6, <1>7, <1>8, <1>9, <1>10, <1>11, <1>12, <1>13, <1>14, <1>15, <1>16, Zenon DEF Next, Step

\* A read of no bytes is the end of the stream: piperead copies from an empty
\* pipe only when the write end is closed and every byte has been read.
THEOREM EndOfFile == Spec => EofMeansEnd
<1> DEFINE Eof == \A p \in Procs :
             ~At(p, "read") /\ pc'[p].at = "read" /\ Empty => ~writeopen /\ Len(got) = sent
<1>1. ASSUME Inv, [Next]_vars PROVE [Eof]_vars
  <2> SUFFICES ASSUME NEW p \in Procs, pc[p].at # "read", pc'[p].at = "read", Empty, Next
               PROVE  ~writeopen /\ Len(got) = sent
    BY <1>1 DEF At
  <2>1. Len(got) = sent
    BY <1>1, Tests DEF Inv
  <2>2. ~writeopen
    BY <1>1, OnlyReadStart DEF Inv, ReadStart
  <2> QED BY <2>1, <2>2
<1> QED BY <1>1, Invariance, PTL DEF Spec, EofMeansEnd
=============================================================================
