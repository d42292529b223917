----------------------------- MODULE ProcProofs -----------------------------
(***************************************************************************)
(* Proofs that a process never runs on two CPUs, that its slot is never    *)
(* freed under it, and that no child and no wakeup of a parent is lost,    *)
(* for any number of processes and CPUs.                                   *)
(***************************************************************************)
EXTENDS Proc, TLAPS

States == {"UNUSED", "USED", "SLEEPING", "RUNNABLE", "RUNNING", "ZOMBIE"}
Labels == {"user", "fork", "forkrun", "exit", "reparent", "wakeup", "zombie", "swtch",
           "gone", "wait", "scan", "sleep", "sleeping", "chan"}
Places == [at : Labels, i : Nat, j : Nat]

\* Where a process holds its own lock from one step to the next.
Locked == {"sleeping", "chan", "swtch"}

\* Where a process has a slot that allocproc gave it.
Forking == {"fork", "forkrun"}

TypeOK ==
  /\ state \in [Procs -> States] /\ lock \in [Procs -> BOOLEAN]
  /\ cpu \in [CPUs -> Procs \cup {None}] /\ pc \in [Procs -> Places]

\* The lock of a process is held from the moment it prepares to sleep or exit
\* until it has left its CPU, so that nobody who takes the lock finds SLEEPING
\* or ZOMBIE on a process that still runs.
Fits(p) ==
  /\ OnCpu(p) => \/ state[p] = "RUNNING" /\ pc[p].at # "swtch"
                 \/ state[p] \in {"ZOMBIE", "SLEEPING"} /\ pc[p].at = "swtch"
  /\ ~OnCpu(p) => state[p] # "RUNNING" /\ pc[p].at \notin Locked
  /\ lock[p] <=> pc[p].at \in Locked
  /\ pc[p].at \in Forking => /\ state[p] \in {"RUNNING", "RUNNABLE"}
                             /\ pc[p].i \in Procs /\ state[pc[p].i] = "USED"

\* No two CPUs run one process and no two processes fork into one slot.
Apart ==
  /\ \A c, d \in CPUs : cpu[c] = cpu[d] /\ cpu[c] # None => c = d
  /\ \A p, q \in Procs : /\ pc[p].at \in Forking /\ pc[q].at \in Forking
                         /\ pc[p].i = pc[q].i
                         => p = q

Separate == TypeOK /\ Apart /\ \A p \in Procs : Fits(p)

-----------------------------------------------------------------------------
\* At boot only init exists, and it waits to be scheduled (userinit).
LEMMA SeparateInit ==
  ASSUME ProcAssumption, Init
  PROVE  Separate
<1>1. 0 \notin Procs /\ 1 \in Procs
  BY DEF ProcAssumption, Procs
<1>2. \A p \in Procs : ~OnCpu(p)
  BY <1>1, Zenon DEF Init, OnCpu, None
<1>3. TypeOK
  <2>1. state \in [Procs -> States] /\ cpu \in [CPUs -> Procs \cup {None}]
    BY Zenon DEF Init, States
  <2>2. lock \in [Procs -> BOOLEAN]
    BY Zenon DEF Init
  <2>3. pc \in [Procs -> Places]
    <3>1. User \in Places
      BY Zenon DEF User, Places, Labels
    <3> QED BY <3>1, Zenon DEF Init
  <2> QED BY <2>1, <2>2, <2>3, Zenon DEF TypeOK
<1>4. Apart
  BY Zenon DEF Init, Apart, User, Forking
<1>5. ASSUME NEW p \in Procs PROVE Fits(p)
  <2>1. pc[p].at = "user" /\ ~lock[p] /\ state[p] # "RUNNING"
    BY Zenon DEF Init, User
  <2> QED BY <1>2, <2>1, Zenon DEF Fits, Forking, Locked
<1> QED BY <1>3, <1>4, <1>5, Zenon DEF Separate

\* What Goto does to the one program counter it changes.
LEMMA GotoPlace ==
  ASSUME TypeOK, NEW p \in Procs, NEW at \in Labels, NEW i \in Nat, NEW j \in Nat,
         Goto(p, at, i, j)
  PROVE  /\ pc' \in [Procs -> Places]
         /\ pc'[p].at = at /\ pc'[p].i = i /\ pc'[p].j = j
         /\ \A q \in Procs : q # p => pc'[q] = pc[q]
BY Zenon DEF TypeOK, Goto, Places

\* A process that holds neither its lock nor a slot may go to any place where
\* it does neither: most of kexit and kwait.
LEMMA Moves ==
  ASSUME Separate, NEW p \in Procs, OnCpu(p), pc[p].at \notin Locked,
         NEW at \in Labels \ (Locked \cup Forking), NEW i \in Nat, NEW j \in Nat,
         Goto(p, at, i, j), UNCHANGED <<state, lock, cpu>>
  PROVE  Separate'
<1> USE DEF Separate
<1>1. /\ pc' \in [Procs -> Places]
      /\ pc'[p].at = at
      /\ \A q \in Procs : q # p => pc'[q] = pc[q]
  BY GotoPlace, Zenon
<1>2. \A q \in Procs : OnCpu(q)' <=> OnCpu(q)
  BY Zenon DEF OnCpu
<1>3. TypeOK'
  BY <1>1, Zenon DEF TypeOK
<1>4. Apart'
  BY <1>1, Zenon DEF Apart
<1>5. ASSUME NEW q \in Procs PROVE Fits(q)'
  <2>1. CASE q = p
    BY <1>1, <1>2, <2>1, Zenon DEF Fits, Locked
  <2>2. CASE q # p
    BY <1>1, <1>2, <2>2 DEF Fits
  <2> QED BY <2>1, <2>2, Zenon
<1> QED BY <1>3, <1>4, <1>5, Zenon

\* A step that changes the state of one process which nobody runs, for one
\* that is neither RUNNING nor on hold for a fork, and nothing else: wakeup
\* and kkill.
LEMMA Wakes ==
  ASSUME Separate, NEW q \in Procs, ~lock[q], state[q] = "SLEEPING",
         state' = [state EXCEPT ![q] = "RUNNABLE"], UNCHANGED <<lock, cpu>>,
         pc' \in [Procs -> Places],
         \A r \in Procs : pc'[r].at = pc[r].at /\ pc'[r].i = pc[r].i
  PROVE  Separate'
<1> USE DEF Separate
<1>1. state' \in [Procs -> States] /\ state'[q] = "RUNNABLE"
      /\ \A r \in Procs : r # q => state'[r] = state[r]
  BY Zenon DEF TypeOK, States
<1>2. \A r \in Procs : OnCpu(r)' <=> OnCpu(r)
  BY Zenon DEF OnCpu
<1>3. ~OnCpu(q) /\ pc[q].at \notin Locked /\ pc[q].at \notin Forking
  BY Zenon DEF Fits, Locked
<1>4. TypeOK'
  BY <1>1, Zenon DEF TypeOK
<1>5. Apart'
  BY Zenon DEF Apart
<1>6. ASSUME NEW r \in Procs PROVE Fits(r)'
  <2>1. CASE r = q
    BY <1>1, <1>2, <1>3, <2>1, Zenon DEF Fits
  <2>2. CASE r # q
    <3>1. pc[r].at \in Forking => pc[r].i # q
      BY Zenon DEF Fits
    <3> QED BY <1>1, <1>2, <2>2, <3>1 DEF Fits
  <2> QED BY <2>1, <2>2, Zenon
<1> QED BY <1>4, <1>5, <1>6, Zenon

\* The scheduler runs p on a free CPU: p was on none, since it is RUNNABLE.
LEMMA DispatchStep ==
  ASSUME ProcAssumption, Separate, NEW c \in CPUs, NEW p \in Procs, Dispatch(c, p)
  PROVE  Separate'
<1> USE DEF Separate
<1>1. /\ cpu[c] = None /\ ~lock[p] /\ state[p] = "RUNNABLE" /\ None \notin Procs
      /\ state' = [state EXCEPT ![p] = "RUNNING"] /\ cpu' = [cpu EXCEPT ![c] = p]
      /\ UNCHANGED <<lock, pc>>
  BY DEF Dispatch, None, Procs
<1>2. ~OnCpu(p) /\ pc[p].at \notin Locked
  BY <1>1, Zenon DEF Fits
<1>3. TypeOK'
  BY <1>1, Zenon DEF TypeOK, States
<1>4. /\ state'[p] = "RUNNING"
      /\ \A q \in Procs : q # p => state'[q] = state[q]
      /\ cpu'[c] = p /\ \A d \in CPUs : d # c => cpu'[d] = cpu[d]
  BY <1>1, Zenon DEF TypeOK
<1>5. \A q \in Procs : OnCpu(q)' <=> OnCpu(q) \/ q = p
  BY <1>1, <1>4, Zenon DEF OnCpu
<1>6. Apart'
  BY <1>1, <1>2, <1>4 DEF Apart, OnCpu
<1>7. ASSUME NEW q \in Procs PROVE Fits(q)'
  <2>1. CASE q = p
    BY <1>1, <1>2, <1>4, <1>5, <2>1 DEF Fits, Locked
  <2>2. CASE q # p
    <3>1. pc[q].at \in Forking => pc[q].i # p
      BY <1>1, Zenon DEF Fits
    <3> QED BY <1>1, <1>4, <1>5, <2>2, <3>1 DEF Fits
  <2> QED BY <2>1, <2>2, Zenon
<1> QED BY <1>3, <1>6, <1>7, Zenon

\* A process that leaves its CPU, in a state and at a place that need none.
LEMMA Leaves ==
  ASSUME ProcAssumption, Separate, NEW p \in Procs, LeaveCpu(p),
         state' \in [Procs -> States], state'[p] \notin {"RUNNING", "USED"},
         state[p] # "USED",
         \A q \in Procs : q # p => state'[q] = state[q],
         lock' \in [Procs -> BOOLEAN], ~lock'[p],
         \A q \in Procs : q # p => lock'[q] = lock[q],
         pc' \in [Procs -> Places], pc'[p].at \notin Locked,
         \A q \in Procs : q # p => pc'[q] = pc[q],
         pc'[p].at \in Forking => pc'[p] = pc[p] /\ state'[p] = "RUNNABLE"
  PROVE  Separate'
<1> USE DEF Separate
<1>1. None \notin Procs
  BY DEF None, Procs
<1>2. \A d \in CPUs : cpu'[d] = IF cpu[d] = p THEN None ELSE cpu[d]
  BY Zenon DEF LeaveCpu
<1>3. cpu' \in [CPUs -> Procs \cup {None}]
  BY Zenon DEF LeaveCpu, TypeOK
<1>4. ~OnCpu(p)' /\ \A q \in Procs : q # p => (OnCpu(q)' <=> OnCpu(q))
  BY ONLY <1>1, <1>2 DEF OnCpu
<1>5. TypeOK'
  BY <1>3, Zenon DEF TypeOK
<1>6. Apart'
  BY <1>2 DEF Apart
<1>7. ASSUME NEW q \in Procs PROVE Fits(q)'
  <2>1. CASE q = p
    <3>1. pc[p].at \in Forking => pc[p].i # p
      BY Zenon DEF Fits
    <3> QED BY <1>4, <2>1, <3>1 DEF Fits
  <2>2. CASE q # p
    <3>1. pc[q].at \in Forking => pc[q].i # p
      BY Zenon DEF Fits
    <3> QED BY <1>4, <2>2, <3>1 DEF Fits
  <2> QED BY <2>1, <2>2, Zenon
<1> QED BY <1>5, <1>6, <1>7, Zenon

\* The steps that change nothing but where p is.
LEMMA MoveSteps ==
  ASSUME Separate, NEW p \in Procs,
         \/ TrapKilled(p) \/ ExitStart(p) \/ ExitLock(p) \/ reparent(p) \/ WakeupEnd(p)
         \/ WaitStart(p) \/ WaitLock(p) \/ WaitScan(p) \/ WaitBadAddr(p) \/ WaitCheck(p)
  PROVE  Separate'
<1>1. pc[p].i \in Nat /\ pc[p].j \in Nat
  BY Zenon DEF Separate, TypeOK, Places
<1>2. /\ OnCpu(p) /\ pc[p].at \notin Locked /\ UNCHANGED <<state, lock, cpu>>
      /\ \E at \in Labels \ (Locked \cup Forking), i, j \in Nat : Goto(p, at, i, j)
  <2> USE <1>1 DEF At, Locked, Forking, Labels, Return
  <2>1. CASE TrapKilled(p)
    BY <2>1, Zenon DEF TrapKilled
  <2>2. CASE ExitStart(p)
    BY <2>2, Zenon DEF ExitStart
  <2>3. CASE ExitLock(p)
    BY <2>3, Zenon DEF ExitLock
  <2>4. CASE reparent(p)
    BY <2>4 DEF reparent
  <2>5. CASE WakeupEnd(p)
    BY <2>5 DEF WakeupEnd
  <2>6. CASE WaitStart(p)
    BY <2>6, Zenon DEF WaitStart
  <2>7. CASE WaitLock(p)
    BY <2>7, Zenon DEF WaitLock
  <2>8. CASE WaitScan(p)
    BY <2>8 DEF WaitScan
  <2>9. CASE WaitBadAddr(p)
    BY <2>9, Zenon DEF WaitBadAddr
  <2>10. CASE WaitCheck(p)
    BY <2>10, Zenon DEF WaitCheck
  <2> QED BY <2>1, <2>2, <2>3, <2>4, <2>5, <2>6, <2>7, <2>8, <2>9, <2>10, Zenon
<1> QED BY <1>2, Moves, Zenon

\* yield and sched: p leaves its CPU, RUNNABLE, SLEEPING or ZOMBIE.
LEMMA LeaveSteps ==
  ASSUME ProcAssumption, Separate, NEW p \in Procs, yield(p) \/ Swtch(p)
  PROVE  Separate'
<1> USE DEF Separate
<1>1. CASE yield(p)
  <2>1. /\ OnCpu(p) /\ ~lock[p] /\ pc[p].at \notin Locked /\ state[p] # "USED"
    BY <1>1, Zenon DEF yield, Fits, Locked
  <2>2. /\ state' \in [Procs -> States] /\ state'[p] = "RUNNABLE"
        /\ \A q \in Procs : q # p => state'[q] = state[q]
    BY <1>1, Zenon DEF yield, TypeOK, States
  <2>3. LeaveCpu(p) /\ UNCHANGED <<lock, pc>>
    BY <1>1, Zenon DEF yield
  <2> QED BY <2>1, <2>2, <2>3, Leaves, Zenon DEF TypeOK
<1>2. CASE Swtch(p)
  <2>1. state[p] \in {"ZOMBIE", "SLEEPING"}
    BY <1>2, Zenon DEF Swtch, At, Fits
  <2>2. /\ lock' \in [Procs -> BOOLEAN] /\ ~lock'[p]
        /\ \A q \in Procs : q # p => lock'[q] = lock[q]
    BY <1>2, Zenon DEF Swtch, TypeOK
  <2>3. /\ pc' \in [Procs -> Places] /\ pc'[p].at \in {"gone", "wait"}
        /\ \A q \in Procs : q # p => pc'[q] = pc[q]
    BY <1>2 DEF Swtch, TypeOK, Places, Labels
  <2>4. LeaveCpu(p) /\ UNCHANGED state
    BY <1>2, Zenon DEF Swtch
  <2>5. pc'[p].at \notin Locked /\ pc'[p].at \notin Forking
    BY <2>3, Zenon DEF Locked, Forking
  <2> QED BY <2>1, <2>2, <2>3, <2>4, <2>5, Leaves, Zenon DEF TypeOK
<1> QED BY <1>1, <1>2, Zenon

\* wakeup and kkill take the lock of the process they change.
LEMMA WakeSteps ==
  ASSUME Separate, NEW p \in Procs, wakeup(p) \/ \E q \in Procs : kkill(p, q)
  PROVE  Separate'
<1> USE DEF Separate
<1>1. CASE wakeup(p)
  <2> DEFINE q == pc[p].j
  <2>1. /\ OnCpu(p) /\ pc[p].at = "wakeup" /\ q \in Procs /\ pc[p].i \in Nat /\ q + 1 \in Nat
        /\ Goto(p, "wakeup", pc[p].i, q + 1) /\ UNCHANGED <<lock, cpu>>
    BY <1>1, SMTT(30) DEF wakeup, At, TypeOK, Places, Procs
  <2>2. CASE q # p /\ state[q] = "SLEEPING" /\ chan[q] = WakeChan(p)
    <3>1. ~lock[q] /\ state' = [state EXCEPT ![q] = "RUNNABLE"]
      BY <1>1, <2>2, Zenon DEF wakeup
    <3>2. /\ pc' \in [Procs -> Places]
          /\ \A r \in Procs : pc'[r].at = pc[r].at /\ pc'[r].i = pc[r].i
      BY <2>1, GotoPlace DEF Labels
    <3> QED BY <2>1, <2>2, <3>1, <3>2, Wakes, Zenon
  <2>3. CASE ~(q # p /\ state[q] = "SLEEPING" /\ chan[q] = WakeChan(p))
    <3>1. UNCHANGED state
      BY <1>1, <2>3, Zenon DEF wakeup
    <3>2. "wakeup" \in Labels \ (Locked \cup Forking) /\ pc[p].at \notin Locked
      BY <2>1, Zenon DEF Labels, Locked, Forking
    <3> QED BY <2>1, <3>1, <3>2, Moves, Zenon
  <2> QED BY <2>2, <2>3, Zenon
<1>2. ASSUME NEW q \in Procs, kkill(p, q) PROVE Separate'
  <2>1. /\ ~lock[q] /\ UNCHANGED <<lock, cpu, pc>>
        /\ state' = [state EXCEPT ![q] = IF @ = "SLEEPING" THEN "RUNNABLE" ELSE @]
    BY <1>2, Zenon DEF kkill
  <2>2. CASE state[q] = "SLEEPING"
    BY <2>1, <2>2, Wakes, Zenon DEF TypeOK
  <2>3. CASE state[q] # "SLEEPING"
    <3>1. state' = state
      BY <2>1, <2>3, Zenon DEF TypeOK
    <3> QED BY <2>1, <3>1 DEF TypeOK, Apart, Fits, OnCpu
  <2> QED BY <2>2, <2>3, Zenon
<1> QED BY <1>1, <1>2, Zenon

\* kfork takes an UNUSED slot, which nobody runs or forks into, and gives up
\* the slot it took by making it RUNNABLE.
LEMMA ForkSteps ==
  ASSUME Separate, NEW p \in Procs,
         (\E np \in Procs : ForkAlloc(p, np)) \/ ForkParent(p) \/ ForkRun(p)
  PROVE  Separate'
<1> USE DEF Separate
<1>1. ASSUME NEW np \in Procs, ForkAlloc(p, np) PROVE Separate'
  <2>1. /\ OnCpu(p) /\ pc[p].at = "user" /\ state[np] = "UNUSED"
        /\ state' = [state EXCEPT ![np] = "USED"]
        /\ Goto(p, "fork", np, 0) /\ UNCHANGED <<lock, cpu>>
    BY <1>1, Zenon DEF ForkAlloc, At
  <2>2. /\ pc' \in [Procs -> Places] /\ pc'[p].at = "fork" /\ pc'[p].i = np
        /\ \A q \in Procs : q # p => pc'[q] = pc[q]
    BY <2>1, GotoPlace DEF Labels, Procs
  <2>3. /\ state' \in [Procs -> States] /\ state'[np] = "USED"
        /\ \A q \in Procs : q # np => state'[q] = state[q]
    BY <2>1, Zenon DEF TypeOK, States
  <2>4. \A q \in Procs : OnCpu(q)' <=> OnCpu(q)
    BY <2>1, Zenon DEF OnCpu
  <2>5. state[p] = "RUNNING" /\ ~lock[p]
    BY <2>1, Zenon DEF Fits, Locked
  <2>6. \A q \in Procs : pc[q].at \in Forking => pc[q].i # np
    BY <2>1, Zenon DEF Fits
  <2>7. TypeOK'
    BY <2>1, <2>2, <2>3, Zenon DEF TypeOK
  <2>8. Apart'
    BY <2>1, <2>2, <2>6 DEF Apart
  <2>9. ASSUME NEW q \in Procs PROVE Fits(q)'
    <3>1. CASE q = p
      BY <2>1, <2>2, <2>3, <2>4, <2>5, <3>1, Zenon DEF Fits, Locked, Forking
    <3>2. CASE q = np
      BY <2>1, <2>2, <2>3, <2>4, <2>5, <3>2, Zenon DEF Fits
    <3>3. CASE q # p /\ q # np
      BY <2>1, <2>2, <2>3, <2>4, <2>6, <3>3 DEF Fits
    <3> QED BY <3>1, <3>2, <3>3, Zenon
  <2> QED BY <2>7, <2>8, <2>9, Zenon
<1>2. CASE ForkParent(p)
  <2>1. /\ pc[p].at = "fork" /\ pc[p].i \in Nat /\ Goto(p, "forkrun", pc[p].i, 0)
        /\ UNCHANGED <<state, lock, cpu>>
    BY <1>2, Zenon DEF ForkParent, At, TypeOK, Places
  <2>2. /\ pc' \in [Procs -> Places] /\ pc'[p].at = "forkrun" /\ pc'[p].i = pc[p].i
        /\ \A q \in Procs : q # p => pc'[q] = pc[q]
    BY <2>1, GotoPlace DEF Labels
  <2>3. \A q \in Procs : OnCpu(q)' <=> OnCpu(q)
    BY <2>1, Zenon DEF OnCpu
  <2>4. TypeOK'
    BY <2>1, <2>2, Zenon DEF TypeOK
  <2>5. Apart'
    BY <2>1, <2>2 DEF Apart, Forking
  <2>6. ASSUME NEW q \in Procs PROVE Fits(q)'
    <3>1. CASE q = p
      BY <2>1, <2>2, <2>3, <3>1, Zenon DEF Fits, Locked, Forking
    <3>2. CASE q # p
      BY <2>1, <2>2, <2>3, <3>2 DEF Fits
    <3> QED BY <3>1, <3>2, Zenon
  <2> QED BY <2>4, <2>5, <2>6, Zenon
<1>3. CASE ForkRun(p)
  <2> DEFINE np == pc[p].i
  <2>1. /\ OnCpu(p) /\ pc[p].at = "forkrun" /\ ~lock[np]
        /\ state' = [state EXCEPT ![np] = "RUNNABLE"]
        /\ pc' = [pc EXCEPT ![p] = User, ![np] = User] /\ UNCHANGED <<lock, cpu>>
    BY <1>3, Zenon DEF ForkRun, At
  <2>2. np \in Procs /\ state[np] = "USED" /\ state[p] = "RUNNING" /\ ~lock[p]
    BY <2>1, Zenon DEF Fits, Forking, Locked
  <2>3. User \in Places /\ User.at = "user"
    BY Zenon DEF User, Places, Labels
  <2> HIDE DEF np
  <2>4. /\ pc' \in [Procs -> Places] /\ pc'[p].at = "user" /\ pc'[np].at = "user"
        /\ \A q \in Procs : q # p /\ q # np => pc'[q] = pc[q]
    BY <2>1, <2>2, <2>3, Zenon DEF TypeOK
  <2>5. /\ state' \in [Procs -> States] /\ state'[np] = "RUNNABLE"
        /\ \A q \in Procs : q # np => state'[q] = state[q]
    BY <2>1, <2>2, Zenon DEF TypeOK, States
  <2>6. \A q \in Procs : OnCpu(q)' <=> OnCpu(q)
    BY <2>1, Zenon DEF OnCpu
  <2>7. ~OnCpu(np)
    BY <2>2, Zenon DEF Fits
  <2>8. \A q \in Procs : q # p /\ pc[q].at \in Forking => pc[q].i # np
    BY <2>1, Zenon DEF Apart, Forking, np
  <2>9. TypeOK'
    BY <2>1, <2>4, <2>5, Zenon DEF TypeOK
  <2>10. Apart'
    BY <2>1, <2>4, Zenon DEF Apart, Forking
  <2>11. ASSUME NEW q \in Procs PROVE Fits(q)'
    <3>1. CASE q = p
      BY <2>1, <2>2, <2>4, <2>5, <2>6, <3>1, Zenon DEF Fits, Locked, Forking
    <3>2. CASE q = np
      BY <2>1, <2>2, <2>4, <2>5, <2>6, <2>7, <3>2, Zenon DEF Fits, Locked, Forking
    <3>3. CASE q # p /\ q # np
      BY <2>1, <2>4, <2>5, <2>6, <2>8, <3>3 DEF Fits
    <3> QED BY <3>1, <3>2, <3>3, Zenon
  <2> QED BY <2>9, <2>10, <2>11, Zenon
<1> QED BY <1>1, <1>2, <1>3, Zenon

\* sleep and kexit: p takes its own lock, and only then changes its state.
LEMMA SleepSteps ==
  ASSUME Separate, NEW p \in Procs,
         ExitZombie(p) \/ SleepLock(p) \/ SleepRelease(p) \/ SleepState(p)
  PROVE  Separate'
<1> USE DEF Separate
<1>1. /\ OnCpu(p) /\ state[p] = "RUNNING" /\ pc[p].at \notin Forking /\ UNCHANGED cpu
  BY Zenon DEF ExitZombie, SleepLock, SleepRelease, SleepState, At, Fits, Forking
<1>2. \E at \in Locked :
         /\ Goto(p, at, 0, 0)
         /\ at = "swtch" => state'[p] \in {"ZOMBIE", "SLEEPING"}
         /\ at # "swtch" => state'[p] = "RUNNING"
  BY <1>1, Zenon DEF ExitZombie, SleepLock, SleepRelease, SleepState, Locked, TypeOK
<1>3. PICK at \in Locked :
         /\ Goto(p, at, 0, 0)
         /\ at = "swtch" => state'[p] \in {"ZOMBIE", "SLEEPING"}
         /\ at # "swtch" => state'[p] = "RUNNING"
  BY <1>2, Zenon
<1>4. /\ pc' \in [Procs -> Places] /\ pc'[p].at = at
      /\ \A q \in Procs : q # p => pc'[q] = pc[q]
  BY <1>3, GotoPlace DEF Labels, Locked
<1>5. /\ state' \in [Procs -> States]
      /\ \A q \in Procs : q # p => state'[q] = state[q]
  BY Zenon DEF ExitZombie, SleepLock, SleepRelease, SleepState, TypeOK, States
<1>6. /\ lock' \in [Procs -> BOOLEAN] /\ lock'[p]
      /\ \A q \in Procs : q # p => lock'[q] = lock[q]
  BY ZenonT(30) DEF ExitZombie, SleepLock, SleepRelease, SleepState, TypeOK, At, Fits, Locked
<1>7. \A q \in Procs : OnCpu(q)' <=> OnCpu(q)
  BY <1>1, Zenon DEF OnCpu
<1>8. TypeOK'
  BY <1>1, <1>4, <1>5, <1>6, Zenon DEF TypeOK
<1>9. Apart'
  BY <1>1, <1>4, Zenon DEF Apart, Forking, Locked
<1>10. ASSUME NEW q \in Procs PROVE Fits(q)'
  <2>1. CASE q = p
    BY <1>1, <1>3, <1>4, <1>6, <1>7, <2>1, Zenon DEF Fits, Locked, Forking
  <2>2. CASE q # p
    <3>1. pc[q].at \in Forking => pc[q].i # p
      BY <1>1, Zenon DEF Fits
    <3> QED BY <1>4, <1>5, <1>6, <1>7, <2>2, <3>1 DEF Fits
  <2> QED BY <2>1, <2>2, Zenon
<1> QED BY <1>8, <1>9, <1>10, Zenon

\* kwait takes the lock of the zombie it frees, so the zombie is on no CPU.
LEMMA ReapStep ==
  ASSUME Separate, NEW p \in Procs, WaitReap(p)
  PROVE  Separate'
<1> USE DEF Separate
<1> DEFINE i == pc[p].i
<1>1. /\ OnCpu(p) /\ pc[p].at = "scan" /\ i \in Procs /\ ~lock[i] /\ state[i] = "ZOMBIE"
      /\ state' = [state EXCEPT ![i] = "UNUSED"]
      /\ pc' = [pc EXCEPT ![p] = User, ![i] = User] /\ UNCHANGED <<lock, cpu>>
  BY Zenon DEF WaitReap, At, freeproc
<1> HIDE DEF i
<1>2. User \in Places /\ User.at = "user"
  BY Zenon DEF User, Places, Labels
<1>3. ~OnCpu(i) /\ state[p] = "RUNNING" /\ ~lock[p]
  BY <1>1, Zenon DEF Fits, Locked
<1>4. /\ pc' \in [Procs -> Places] /\ pc'[p].at = "user" /\ pc'[i].at = "user"
      /\ \A q \in Procs : q # p /\ q # i => pc'[q] = pc[q]
  BY <1>1, <1>2, Zenon DEF TypeOK
<1>5. /\ state' \in [Procs -> States] /\ state'[i] = "UNUSED"
      /\ \A q \in Procs : q # i => state'[q] = state[q]
  BY <1>1, Zenon DEF TypeOK, States
<1>6. \A q \in Procs : OnCpu(q)' <=> OnCpu(q)
  BY <1>1, Zenon DEF OnCpu
<1>7. \A q \in Procs : pc[q].at \in Forking => pc[q].i # i
  BY <1>1, Zenon DEF Fits
<1>8. TypeOK'
  BY <1>1, <1>4, <1>5, Zenon DEF TypeOK
<1>9. Apart'
  BY <1>1, <1>4, ZenonT(30) DEF Apart, Forking
<1>10. ASSUME NEW q \in Procs PROVE Fits(q)'
  <2>1. CASE q = p
    BY <1>1, <1>3, <1>4, <1>5, <1>6, <2>1, Zenon DEF Fits, Locked, Forking
  <2>2. CASE q = i
    BY <1>1, <1>3, <1>4, <1>5, <1>6, <2>2, Zenon DEF Fits, Locked, Forking
  <2>3. CASE q # p /\ q # i
    BY <1>1, <1>4, <1>5, <1>6, <1>7, <2>3 DEF Fits
  <2> QED BY <2>1, <2>2, <2>3, Zenon
<1> QED BY <1>8, <1>9, <1>10, Zenon

-----------------------------------------------------------------------------
\* Every step keeps the processes separate.
LEMMA SeparateStep ==
  ASSUME ProcAssumption, Separate, [Next]_vars
  PROVE  Separate'
<1>1. ASSUME NEW c \in CPUs, NEW p \in Procs, Dispatch(c, p) PROVE Separate'
  BY <1>1, DispatchStep, Zenon
<1>2. ASSUME NEW p \in Procs, yield(p) PROVE Separate'
  BY <1>2, LeaveSteps, Zenon
<1>3. ASSUME NEW p \in Procs, Kernel(p) PROVE Separate'
  BY <1>3, MoveSteps, LeaveSteps, WakeSteps, ForkSteps, SleepSteps, ReapStep, Zenon DEF Kernel
<1>4. ASSUME NEW p \in Procs, SysCall(p) PROVE Separate'
  BY <1>4, MoveSteps, WakeSteps, ForkSteps, Zenon DEF SysCall
<1>5. ASSUME UNCHANGED vars PROVE Separate'
  BY <1>5, Zenon DEF vars, Separate, TypeOK, Apart, Fits, OnCpu
<1> QED BY <1>1, <1>2, <1>3, <1>4, <1>5, Zenon DEF Next

\* A process runs on at most one CPU, and its state says so: kwait cannot free
\* the slot and kernel stack of a child still in kexit, wakeup and kkill cannot
\* make RUNNABLE a process that has not yet left its CPU in sleep, and the
\* scheduler of another CPU cannot pick up either.
THEOREM OneCpuPerProcess ==
  ASSUME ProcAssumption
  PROVE  Spec => []RunsOnOneCpu
<1>1. Init => Separate
  BY SeparateInit, Zenon
<1>2. Separate /\ [Next]_vars => Separate'
  BY SeparateStep, Zenon
<1>3. Separate => RunsOnOneCpu
  <2>1. ASSUME Separate, NEW p \in Procs, NEW c \in CPUs, NEW d \in CPUs, cpu[c] = p, cpu[d] = p PROVE c = d
    BY ONLY <2>1 DEF Separate, Apart, Procs, None
  <2> QED BY <2>1, ZenonT(30) DEF RunsOnOneCpu, Separate, Fits, Locked
<1> QED BY <1>1, <1>2, <1>3, PTL DEF Spec

-----------------------------------------------------------------------------
(* Parents and children.                                                   *)

\* Where a process holds wait_lock, and where it is exiting.
Holding == {"reparent", "wakeup", "zombie", "scan", "sleep", "sleeping"}
Exiting == {"exit", "reparent", "wakeup", "zombie", "gone"}

Alive(p) == state[p] \in {"RUNNABLE", "RUNNING", "SLEEPING"}

\* Asleep in kwait, or past the point where kwait decides to sleep.
Drowsy(p) == state[p] = "SLEEPING" \/ pc[p].at \in {"sleep", "sleeping", "chan"}

\* The state of a process says where it can be, and so does wait_lock.
Stage(p) ==
  /\ wait_lock = p <=> pc[p].at \in Holding
  /\ pc[p].at \in Holding => OnCpu(p)
  /\ state[p] \in {"UNUSED", "USED"} => pc[p].at = "user"
  /\ state[p] = "RUNNABLE" => pc[p].at \in {"user", "fork", "forkrun", "exit", "wait"}
  /\ state[p] = "SLEEPING" => pc[p].at \in {"swtch", "wait"} /\ chan[p] = p
  /\ state[p] = "ZOMBIE" => pc[p].at \in {"swtch", "gone"}
  /\ pc[p].at \in Exiting => p # initproc

\* A parent is alive, and nobody is their own parent.
Parented(q) == parent[q] # None => parent[q] # q /\ Alive(parent[q])

\* A process has a parent from before it first runs.
Forked(q) ==
  /\ parent[q] = None => q = initproc \/ state[q] \in {"UNUSED", "USED"}
  /\ state[q] = "UNUSED" => parent[q] = None
  /\ pc[q].at = "fork" => parent[pc[q].i] = None
  /\ pc[q].at = "forkrun" => parent[pc[q].i] = q

Kin(q) == Parented(q) /\ Forked(q)

\* What the loops of reparent, wakeup and kwait have done.
Work(p) ==
  /\ pc[p].at \in {"reparent", "wakeup"} => pc[p].i \in 1..NPROC + 1
  /\ pc[p].at = "reparent" => \A k \in Procs : k < pc[p].i => parent[k] # p
  /\ pc[p].at = "wakeup" => /\ \A k \in Procs : k <= pc[p].i => parent[k] # p
                            /\ \A q \in Procs : q = WakeChan(p) /\ q < pc[p].j => ~Drowsy(q)
  /\ pc[p].at = "zombie" => ~Drowsy(parent[p]) /\ \A k \in Procs : parent[k] # p
  /\ pc[p].at = "scan" => /\ \A k \in Procs : k < pc[p].i /\ parent[k] = p => state[k] # "ZOMBIE"
                          /\ pc[p].j # 0 => \E k \in Procs : parent[k] = p

\* A process goes to sleep with a child, and with an exited one only while a
\* wakeup is on its way.
Rest(p) ==
  Drowsy(p) => /\ \E q \in Procs : parent[q] = p
               /\ (\E q \in Procs : parent[q] = p /\ state[q] = "ZOMBIE") =>
                    /\ wait_lock # None /\ pc[wait_lock].at = "wakeup"
                    /\ WakeChan(wait_lock) = p /\ pc[wait_lock].j <= p

KinType ==
  /\ parent \in [Procs -> Procs \cup {None}] /\ chan \in [Procs -> Procs \cup {None}]
  /\ wait_lock \in Procs \cup {None}
  /\ Alive(initproc) /\ parent[initproc] = None

Family == KinType /\ \A p \in Procs : Stage(p) /\ Kin(p) /\ Work(p) /\ Rest(p)

\* At boot there is nobody but init.
LEMMA FamilyInit ==
  ASSUME ProcAssumption, Init
  PROVE  Family
<1>1. 0 \notin Procs /\ 1 \in Procs
  BY DEF ProcAssumption, Procs
<1>2. KinType
  BY <1>1, Zenon DEF Init, KinType, Alive, initproc
<1>3. ASSUME NEW p \in Procs PROVE Stage(p) /\ Kin(p) /\ Work(p) /\ Rest(p)
  <2>1. /\ pc[p].at = "user" /\ parent[p] = None /\ wait_lock # p
        /\ state[p] = IF p = initproc THEN "RUNNABLE" ELSE "UNUSED"
    BY <1>1, Zenon DEF Init, User, None
  <2> QED BY <2>1, Zenon DEF Stage, Kin, Parented, Forked, Work, Rest, Drowsy, Holding, Exiting
<1> QED BY <1>2, <1>3, Zenon DEF Family

\* A step that neither takes nor uses wait_lock, ends no process and puts none to
\* sleep leaves the loops and the sleepers as they are.
Calm ==
  /\ UNCHANGED <<parent, wait_lock>>
  /\ \A q \in Procs : /\ Alive(q) => Alive(q)'
                      /\ state'[q] = "ZOMBIE" => state[q] = "ZOMBIE"
                      /\ Drowsy(q)' => Drowsy(q)
                      /\ pc[q].at \in Holding \/ pc'[q].at \in Holding => pc'[q] = pc[q]

\* A calm step keeps what Family says of the loops, the sleepers and the parents.
LEMMA CalmKeeps ==
  ASSUME ProcAssumption, Family, Calm, NEW p \in Procs
  PROVE  /\ Work(p)' /\ Rest(p)' /\ Parented(p)'
         /\ parent' \in [Procs -> Procs \cup {None}] /\ wait_lock' \in Procs \cup {None}
         /\ Alive(initproc)' /\ parent'[initproc] = None
<1> USE DEF Family, Calm
<1>1. 0 \notin Procs /\ 1 \in Procs
  BY DEF ProcAssumption, Procs
<1>2. /\ parent' \in [Procs -> Procs \cup {None}] /\ wait_lock' \in Procs \cup {None}
      /\ Alive(initproc)' /\ parent'[initproc] = None
  BY <1>1, Zenon DEF KinType, initproc
<1>3. Parented(p)'
  BY DEF Kin, Parented, KinType
<1>4. \A q \in Procs : pc[q].at = "wakeup" => WakeChan(q)' = WakeChan(q)
  BY Zenon DEF WakeChan, Holding
<1>5. Work(p)'
  <2>1. CASE pc'[p].at \notin Holding
    BY <2>1, Zenon DEF Work, Holding
  <2>2. CASE pc'[p].at \in Holding
    <3>1. pc'[p] = pc[p] /\ Work(p)
      BY <2>2, Zenon
    <3>2. pc[p].at = "zombie" => parent[p] \in Procs
      BY <2>2, <3>1 DEF KinType, Kin, Forked, Stage, Exiting
    <3> QED BY <1>4, <3>1, <3>2 DEF Work
  <2> QED BY <2>1, <2>2, Zenon
<1>6. Rest(p)'
  <2> SUFFICES ASSUME Drowsy(p)' PROVE Rest(p)'
    BY Zenon DEF Rest
  <2>1. Drowsy(p) /\ Rest(p)
    BY Zenon
  <2>2. \E q \in Procs : parent'[q] = p
    BY <2>1, Zenon DEF Rest
  <2>3. ASSUME NEW q \in Procs, parent'[q] = p, state'[q] = "ZOMBIE"
        PROVE  /\ wait_lock' # None /\ pc'[wait_lock'].at = "wakeup"
               /\ WakeChan(wait_lock)' = p /\ pc'[wait_lock'].j <= p
    <3>1. /\ wait_lock # None /\ pc[wait_lock].at = "wakeup"
          /\ WakeChan(wait_lock) = p /\ pc[wait_lock].j <= p
      BY <2>1, <2>3, Zenon DEF Rest
    <3>2. wait_lock \in Procs
      BY <3>1, Zenon DEF KinType
    <3>3. pc'[wait_lock] = pc[wait_lock]
      BY <3>1, <3>2, Zenon DEF Holding
    <3> QED BY <1>4, <3>1, <3>2, <3>3, Zenon
  <2> QED BY <2>2, <2>3, Zenon DEF Rest
<1> QED BY <1>2, <1>3, <1>5, <1>6, Zenon
\* What remains to be shown of a calm step.
LEMMA CalmFamily ==
  ASSUME ProcAssumption, Family, Calm, chan' \in [Procs -> Procs \cup {None}],
         \A q \in Procs : Stage(q)' /\ Forked(q)'
  PROVE  Family'
BY CalmKeeps DEF Family, KinType, Kin, ProcAssumption, Procs

-----------------------------------------------------------------------------
\* usertrap, kexit and kwait begin.
LEMMA BeginKin ==
  ASSUME ProcAssumption, Separate, Family, NEW p \in Procs, TrapKilled(p) \/ ExitStart(p) \/ WaitStart(p)
  PROVE  Family'
<1>1. PICK at \in {"exit", "wait"} : Goto(p, at, 0, 0) /\ (at = "exit" => p # initproc)
  BY Zenon DEF TrapKilled, ExitStart, WaitStart
<1>2. pc[p].at = "user" /\ OnCpu(p) /\ UNCHANGED <<state, parent, chan, wait_lock, cpu>>
  BY Zenon DEF TrapKilled, ExitStart, WaitStart, At
<1>3. /\ pc'[p].at = at /\ \A q \in Procs : q # p => pc'[q] = pc[q]
  BY <1>1, GotoPlace DEF Separate, Labels
<1>4. state[p] = "RUNNING" /\ \A q \in Procs : OnCpu(q)' <=> OnCpu(q)
  BY <1>2, Zenon DEF Separate, Fits, OnCpu
<1>5. Calm
  BY <1>2, <1>3, Zenon DEF Calm, Alive, Drowsy, Holding
<1>6. ASSUME NEW q \in Procs PROVE Stage(q)' /\ Forked(q)'
  <2>1. Stage(q) /\ Forked(q)
    BY Zenon DEF Family, Kin
  <2>2. CASE q = p
    BY <1>1, <1>2, <1>3, <1>4, <2>1, <2>2, Zenon DEF Stage, Forked, Holding, Exiting
  <2>3. CASE q # p
    BY <1>2, <1>3, <1>4, <2>1, <2>3, Zenon DEF Stage, Forked
  <2> QED BY <2>2, <2>3, Zenon
<1> QED BY <1>2, <1>5, <1>6, CalmFamily, Zenon DEF Family, KinType

\* The scheduler runs p.
LEMMA DispatchKin ==
  ASSUME ProcAssumption, Separate, Family, NEW c \in CPUs, NEW p \in Procs, Dispatch(c, p)
  PROVE  Family'
<1>1. /\ cpu[c] = None /\ state[p] = "RUNNABLE" /\ None \notin Procs
      /\ cpu' = [cpu EXCEPT ![c] = p] /\ UNCHANGED <<parent, wait_lock, pc>>
  BY DEF Dispatch, None, Procs
<1>2. /\ state'[p] = "RUNNING" /\ \A q \in Procs : q # p => state'[q] = state[q]
  BY Zenon DEF Dispatch, Separate, TypeOK
<1>3. /\ chan' \in [Procs -> Procs \cup {None}] /\ \A q \in Procs : q # p => chan'[q] = chan[q]
  BY Zenon DEF Dispatch, Family, KinType
<1>4. \A q \in Procs : OnCpu(q)' <=> OnCpu(q) \/ q = p
  BY <1>1, Zenon DEF OnCpu, Separate, TypeOK
<1>5. Calm
  BY <1>1, <1>2, Zenon DEF Calm, Alive, Drowsy
<1>6. ASSUME NEW q \in Procs PROVE Stage(q)' /\ Forked(q)'
  <2>1. Stage(q) /\ Forked(q)
    BY Zenon DEF Family, Kin
  <2>2. CASE q = p
    BY <1>1, <1>2, <1>4, <2>1, <2>2, Zenon DEF Stage, Forked
  <2>3. CASE q # p
    BY <1>1, <1>2, <1>3, <1>4, <2>1, <2>3, Zenon DEF Stage, Forked
  <2> QED BY <2>2, <2>3, Zenon
<1> QED BY <1>3, <1>5, <1>6, CalmFamily, Zenon

\* A timer interrupt.
LEMMA YieldKin ==
  ASSUME ProcAssumption, Separate, Family, NEW p \in Procs, yield(p)
  PROVE  Family'
<1>1. /\ OnCpu(p) /\ pc[p].at \in {"user", "fork", "forkrun", "exit", "wait"} /\ None \notin Procs
      /\ LeaveCpu(p) /\ UNCHANGED <<parent, chan, wait_lock, pc>>
  BY DEF yield, None, Procs
<1>2. /\ state'[p] = "RUNNABLE" /\ \A q \in Procs : q # p => state'[q] = state[q]
  BY Zenon DEF yield, Separate, TypeOK
<1>3. state[p] = "RUNNING"
  BY <1>1, Zenon DEF Separate, Fits
<1>4. \A q \in Procs : q # p => (OnCpu(q)' <=> OnCpu(q))
  BY <1>1, Zenon DEF OnCpu, LeaveCpu
<1>5. Calm
  BY <1>1, <1>2, <1>3, Zenon DEF Calm, Alive, Drowsy
<1>6. ASSUME NEW q \in Procs PROVE Stage(q)' /\ Forked(q)'
  <2>1. Stage(q) /\ Forked(q)
    BY Zenon DEF Family, Kin
  <2>2. CASE q = p
    BY <1>1, <1>2, <1>3, <2>1, <2>2, Zenon DEF Stage, Forked, Holding
  <2>3. CASE q # p
    BY <1>1, <1>2, <1>4, <2>1, <2>3, Zenon DEF Stage, Forked
  <2> QED BY <2>2, <2>3, Zenon
<1> QED BY <1>1, <1>5, <1>6, CalmFamily, Zenon DEF Family, KinType

\* kkill wakes its victim.
LEMMA KillKin ==
  ASSUME ProcAssumption, Separate, Family, NEW p \in Procs, NEW v \in Procs, kkill(p, v)
  PROVE  Family'
<1>1. UNCHANGED <<parent, chan, wait_lock, pc, cpu>> /\ ~lock[v]
  BY Zenon DEF kkill
<1>2. /\ state'[v] = IF state[v] = "SLEEPING" THEN "RUNNABLE" ELSE state[v]
      /\ \A q \in Procs : q # v => state'[q] = state[q]
  BY Zenon DEF kkill, Separate, TypeOK
<1>3. pc[v].at \notin Locked /\ \A q \in Procs : OnCpu(q)' <=> OnCpu(q)
  BY <1>1, Zenon DEF OnCpu, Separate, Fits
<1>4. Calm
  BY <1>1, <1>2, Zenon DEF Calm, Alive, Drowsy
<1>5. ASSUME NEW q \in Procs PROVE Stage(q)' /\ Forked(q)'
  <2>1. Stage(q) /\ Forked(q)
    BY Zenon DEF Family, Kin
  <2> QED BY <1>1, <1>2, <1>3, <2>1, Zenon DEF Stage, Forked, Locked
<1> QED BY <1>1, <1>4, <1>5, CalmFamily, Zenon DEF Family, KinType

\* kfork takes a slot.
LEMMA ForkAllocKin ==
  ASSUME ProcAssumption, Separate, Family, NEW p \in Procs, NEW np \in Procs, ForkAlloc(p, np)
  PROVE  Family'
<1>1. /\ OnCpu(p) /\ pc[p].at = "user" /\ state[np] = "UNUSED" /\ Goto(p, "fork", np, 0)
      /\ UNCHANGED <<parent, chan, wait_lock, cpu>>
  BY Zenon DEF ForkAlloc, At
<1>2. /\ state'[np] = "USED" /\ \A q \in Procs : q # np => state'[q] = state[q]
  BY Zenon DEF ForkAlloc, Separate, TypeOK
<1>3. /\ pc'[p].at = "fork" /\ pc'[p].i = np /\ \A q \in Procs : q # p => pc'[q] = pc[q]
  <2>1. np \in Nat
    BY DEF Procs
  <2> QED BY <1>1, <2>1, GotoPlace, ZenonT(30) DEF Separate, Labels
<1>4. state[p] = "RUNNING" /\ p # np /\ \A q \in Procs : OnCpu(q)' <=> OnCpu(q)
  BY <1>1, Zenon DEF OnCpu, Separate, Fits
<1>5. Calm
  BY <1>1, <1>2, <1>3, Zenon DEF Calm, Alive, Drowsy, Holding
<1>6. ASSUME NEW q \in Procs PROVE Stage(q)' /\ Forked(q)'
  <2>1. Stage(q) /\ Forked(q) /\ Forked(np)
    BY Zenon DEF Family, Kin
  <2>2. CASE q = p
    BY <1>1, <1>2, <1>3, <1>4, <2>1, <2>2, Zenon DEF Stage, Forked, Holding, Exiting
  <2>3. CASE q # p
    BY ONLY <1>1, <1>2, <1>3, <1>4, <2>1, <2>3 DEF Stage, Forked
  <2> QED BY <2>2, <2>3, Zenon
<1> QED BY <1>1, <1>5, <1>6, CalmFamily, Zenon DEF Family, KinType

\* kfork makes the child RUNNABLE.
LEMMA ForkRunKin ==
  ASSUME ProcAssumption, Separate, Family, NEW p \in Procs, ForkRun(p)
  PROVE  Family'
<1> DEFINE np == pc[p].i
<1>1. /\ OnCpu(p) /\ pc[p].at = "forkrun" /\ pc' = [pc EXCEPT ![p] = User, ![np] = User]
      /\ UNCHANGED <<parent, chan, wait_lock, cpu>> /\ state' = [state EXCEPT ![np] = "RUNNABLE"]
  BY Zenon DEF ForkRun, At
<1>2. np \in Procs /\ state[np] = "USED" /\ state[p] = "RUNNING"
  BY <1>1, Zenon DEF Separate, Fits, Forking
<1>3. parent[np] = p /\ pc[np].at = "user"
  BY <1>1, <1>2, Zenon DEF Family, Kin, Forked, Stage
<1> HIDE DEF np
<1>4. /\ state'[np] = "RUNNABLE" /\ \A q \in Procs : q # np => state'[q] = state[q]
  BY <1>1, <1>2, Zenon DEF Separate, TypeOK
<1>5. /\ pc'[p].at = "user" /\ pc'[np].at = "user" /\ \A q \in Procs : q # p /\ q # np => pc'[q] = pc[q]
  BY <1>1, <1>2, Zenon DEF Separate, TypeOK, User
<1>6. \A q \in Procs : OnCpu(q)' <=> OnCpu(q)
  BY <1>1, Zenon DEF OnCpu
<1>7. Calm
  BY <1>1, <1>2, <1>3, <1>4, <1>5, Zenon DEF Calm, Alive, Drowsy, Holding
<1>8. ASSUME NEW q \in Procs PROVE Stage(q)' /\ Forked(q)'
  <2>1. Stage(q) /\ Forked(q) /\ p # None
    BY DEF Family, Kin, Procs, None
  <2>2. CASE q = p
    BY <1>1, <1>2, <1>4, <1>5, <1>6, <2>1, <2>2, Zenon DEF Stage, Forked, Holding, Exiting
  <2>3. CASE q = np
    BY <1>1, <1>2, <1>3, <1>4, <1>5, <1>6, <2>1, <2>3, Zenon DEF Stage, Forked, Holding, Exiting
  <2>4. CASE q # p /\ q # np
    BY <1>1, <1>4, <1>5, <1>6, <2>1, <2>4, Zenon DEF Stage, Forked
  <2> QED BY <2>2, <2>3, <2>4, Zenon
<1> QED BY <1>1, <1>7, <1>8, CalmFamily, Zenon DEF Family, KinType

\* A process that sleeps or has exited leaves its CPU.
LEMMA SwtchKin ==
  ASSUME ProcAssumption, Separate, Family, NEW p \in Procs, Swtch(p)
  PROVE  Family'
<1>1. /\ OnCpu(p) /\ pc[p].at = "swtch" /\ LeaveCpu(p) /\ UNCHANGED <<state, parent, chan, wait_lock>>
      /\ None \notin Procs
  BY DEF Swtch, At, None, Procs
<1>2. /\ pc'[p].at = IF state[p] = "ZOMBIE" THEN "gone" ELSE "wait"
      /\ \A q \in Procs : q # p => pc'[q] = pc[q]
  BY Zenon DEF Swtch, Separate, TypeOK, Places
<1>3. state[p] \in {"ZOMBIE", "SLEEPING"}
  BY <1>1, Zenon DEF Separate, Fits
<1>4. \A q \in Procs : q # p => (OnCpu(q)' <=> OnCpu(q))
  BY <1>1, Zenon DEF OnCpu, LeaveCpu
<1>5. Calm
  BY <1>1, <1>2, <1>3, Zenon DEF Calm, Alive, Drowsy, Holding
<1>6. p = initproc => state[p] # "ZOMBIE"
  BY Zenon DEF Family, KinType, Alive
<1>7. ASSUME NEW q \in Procs PROVE Stage(q)' /\ Forked(q)'
  <2>1. Stage(q) /\ Forked(q)
    BY Zenon DEF Family, Kin
  <2>2. CASE q = p
    BY <1>1, <1>2, <1>3, <1>6, <2>1, <2>2, Zenon DEF Stage, Forked, Holding, Exiting
  <2>3. CASE q # p
    BY <1>1, <1>2, <1>4, <2>1, <2>3, Zenon DEF Stage, Forked
  <2> QED BY <2>2, <2>3, Zenon
<1> QED BY <1>1, <1>5, <1>7, CalmFamily, Zenon DEF Family, KinType

\* sleep makes the process SLEEPING.
LEMMA SleepStateKin ==
  ASSUME ProcAssumption, Separate, Family, NEW p \in Procs, SleepState(p)
  PROVE  Family'
<1>1. /\ OnCpu(p) /\ pc[p].at = "chan" /\ Goto(p, "swtch", 0, 0) /\ UNCHANGED <<parent, wait_lock, cpu>>
  BY Zenon DEF SleepState, At
<1>2. /\ pc'[p].at = "swtch" /\ \A q \in Procs : q # p => pc'[q] = pc[q]
  BY <1>1, GotoPlace, Zenon DEF Separate, Labels
<1>3. /\ state'[p] = "SLEEPING" /\ \A q \in Procs : q # p => state'[q] = state[q]
      /\ state[p] = "RUNNING"
  BY <1>1, Zenon DEF SleepState, Separate, TypeOK, Fits
<1>4. /\ chan' \in [Procs -> Procs \cup {None}] /\ chan'[p] = p
      /\ \A q \in Procs : q # p => chan'[q] = chan[q]
  BY Zenon DEF SleepState, Family, KinType
<1>5. \A q \in Procs : OnCpu(q)' <=> OnCpu(q)
  BY <1>1, Zenon DEF OnCpu
<1>6. Calm
  BY <1>1, <1>2, <1>3, Zenon DEF Calm, Alive, Drowsy, Holding
<1>7. ASSUME NEW q \in Procs PROVE Stage(q)' /\ Forked(q)'
  <2>1. Stage(q) /\ Forked(q)
    BY Zenon DEF Family, Kin
  <2>2. CASE q = p
    BY <1>1, <1>2, <1>3, <1>4, <1>5, <2>1, <2>2, Zenon DEF Stage, Forked, Holding, Exiting
  <2>3. CASE q # p
    BY <1>1, <1>2, <1>3, <1>4, <1>5, <2>1, <2>3, Zenon DEF Stage, Forked
  <2> QED BY <2>2, <2>3, Zenon
<1> QED BY <1>4, <1>6, <1>7, CalmFamily, Zenon

-----------------------------------------------------------------------------
\* Only one process is where wait_lock is held.
LEMMA Holder ==
  ASSUME ProcAssumption, Family
  PROVE  /\ None \notin Procs /\ initproc \in Procs
         /\ \A q \in Procs : pc[q].at \in Holding <=> q = wait_lock
         /\ \A q \in Procs : pc[q].at \in Exiting => q # initproc
         /\ \A q \in Procs : pc[q].at \in {"reparent", "wakeup", "zombie"} => OnCpu(q)
BY DEF Family, Stage, ProcAssumption, Procs, None, initproc, Holding

\* kfork names the parent of the new process.
LEMMA ForkParentKin ==
  ASSUME ProcAssumption, Separate, Family, NEW p \in Procs, ForkParent(p)
  PROVE  Family'
<1> DEFINE np == pc[p].i
<1>1. /\ OnCpu(p) /\ pc[p].at = "fork" /\ wait_lock = None /\ Goto(p, "forkrun", np, 0)
      /\ parent' = [parent EXCEPT ![np] = p] /\ UNCHANGED <<state, chan, wait_lock, cpu>>
  BY Zenon DEF ForkParent, At
<1>2. np \in Procs /\ np \in Nat /\ state[np] = "USED" /\ state[p] = "RUNNING"
  BY <1>1 DEF Separate, Fits, Forking, Procs
<1>3. parent[np] = None /\ np # p /\ np # initproc
  BY <1>1, <1>2, Zenon DEF Family, Kin, Forked, KinType, Alive
<1>4. \A q \in Procs : q # p /\ pc[q].at \in Forking => pc[q].i # np
  BY <1>1, Zenon DEF Separate, Apart, Forking
<1> HIDE DEF np
<1>5. /\ pc'[p].at = "forkrun" /\ pc'[p].i = np /\ \A q \in Procs : q # p => pc'[q] = pc[q]
  BY <1>1, <1>2, GotoPlace DEF Separate, Labels
<1>6. /\ parent' \in [Procs -> Procs \cup {None}] /\ parent'[np] = p
      /\ \A q \in Procs : q # np => parent'[q] = parent[q]
  BY <1>1, <1>2, Zenon DEF Family, KinType
<1>7. /\ \A q \in Procs : OnCpu(q)' <=> OnCpu(q)
      /\ \A q \in Procs : pc[q].at \notin Holding /\ pc'[q].at \notin Holding
  BY <1>1, <1>5, Holder, Zenon DEF OnCpu, Holding
<1>8. KinType'
  BY <1>1, <1>3, <1>6 DEF Family, KinType, Alive
<1>9. ASSUME NEW q \in Procs PROVE Stage(q)' /\ Kin(q)' /\ Work(q)' /\ Rest(q)'
  <2>1. Stage(q) /\ Parented(q) /\ Forked(q) /\ Rest(q)
    BY Zenon DEF Family, Kin
  <2>2. Stage(q)'
    BY <1>1, <1>2, <1>5, <1>7, <2>1, Zenon DEF Stage, Exiting
  <2>3. Parented(q)'
    BY <1>1, <1>2, <1>3, <1>6, <2>1, Zenon DEF Parented, Alive
  <2>4. Forked(q)'
    <3>1. CASE q = p
      BY <1>1, <1>2, <1>3, <1>5, <1>6, <2>1, <3>1, Zenon DEF Forked
    <3>2. CASE q # p
      <4>1. pc[q].at \in Forking => pc[q].i \in Procs /\ pc[q].i # np
        BY <1>4, <3>2, Zenon DEF Separate, Fits
      <4> QED BY ONLY <1>1, <1>2, <1>3, <1>5, <1>6, <2>1, <3>2, <4>1, Holder, ZenonT(30) DEF Forked, Forking
    <3> QED BY <3>1, <3>2, Zenon
  <2>5. Work(q)'
    BY <1>7, Zenon DEF Work, Holding
  <2>6. Rest(q)'
    <3>1. Drowsy(q)' => Drowsy(q)
      BY <1>1, <1>5, <1>7, Zenon DEF Drowsy, Holding
    <3>2. Drowsy(q) => \E k \in Procs : parent[k] = q
      BY <2>1, Zenon DEF Rest
    <3>3. \A k \in Procs : parent[k] = q => parent'[k] = q
      BY <1>3, <1>6, Holder, Zenon
    <3>4. Drowsy(q) => ~\E k \in Procs : parent[k] = q /\ state[k] = "ZOMBIE"
      BY <1>1, <2>1, Zenon DEF Rest
    <3>5. \A k \in Procs : parent'[k] = q /\ state'[k] = "ZOMBIE" => parent[k] = q /\ state[k] = "ZOMBIE"
      BY <1>1, <1>2, <1>6, Zenon
    <3> QED BY <3>1, <3>2, <3>3, <3>4, <3>5, Zenon DEF Rest
  <2> QED BY <2>2, <2>3, <2>4, <2>5, <2>6, Zenon DEF Kin
<1> QED BY <1>8, <1>9, Zenon DEF Family

\* A step by which a process takes, keeps or releases wait_lock, and moves.
LEMMA OwnStep ==
  ASSUME ProcAssumption, TypeOK, Family, NEW p \in Procs,
         wait_lock \in {None, p}, wait_lock' \in {None, p}, UNCHANGED <<state, parent, chan, cpu>>,
         \A q \in Procs : q # p => pc'[q] = pc[q],
         pc[p].at = "wakeup" => \A q \in Procs : q < pc[p].j,
         Stage(p)', Forked(p)', Work(p)', Rest(p)'
  PROVE  Family'
<1> USE Holder
<1>1. KinType'
  BY Zenon DEF Family, KinType, Alive
<1>2. \A q \in Procs : OnCpu(q)' <=> OnCpu(q)
  BY Zenon DEF OnCpu
<1>3. ASSUME NEW q \in Procs PROVE Parented(q)'
  BY Zenon DEF Family, Kin, Parented, Alive
<1>4. ASSUME NEW q \in Procs, q # p PROVE Stage(q)' /\ Forked(q)' /\ Work(q)' /\ Rest(q)'
  <2>1. Stage(q) /\ Forked(q) /\ Rest(q)
    BY Zenon DEF Family, Kin
  <2>2. pc'[q] = pc[q] /\ pc[q].at \notin Holding
    BY <1>4, Zenon
  <2>3. Stage(q)' /\ Forked(q)'
    BY <1>2, <1>4, <2>1, <2>2 DEF Stage, Forked
  <2>4. Work(q)'
    BY <2>2, Zenon DEF Work, Holding
  <2>5. Rest(q)'
    <3>1. Drowsy(q)' <=> Drowsy(q)
      BY <2>2, Zenon DEF Drowsy
    <3>2. ~(wait_lock # None /\ pc[wait_lock].at = "wakeup" /\ pc[wait_lock].j <= q)
      <4>1. q \in Nat /\ pc[p].j \in Nat
        BY DEF Procs, TypeOK, Places
      <4> QED BY <4>1
    <3>3. Drowsy(q) => ~\E k \in Procs : parent[k] = q /\ state[k] = "ZOMBIE"
      BY <2>1, <3>2, Zenon DEF Rest
    <3> QED BY <2>1, <3>1, <3>3, Zenon DEF Rest
  <2> QED BY <2>3, <2>4, <2>5, Zenon
<1> QED BY <1>1, <1>3, <1>4, Zenon DEF Family, Kin

\* kexit and kwait take wait_lock.
LEMMA LockKin ==
  ASSUME ProcAssumption, Separate, Family, NEW p \in Procs, ExitLock(p) \/ WaitLock(p)
  PROVE  Family'
<1>1. PICK at \in {"reparent", "scan"} : Goto(p, at, 1, 0) /\ (at = "reparent" => p # initproc)
  BY Holder, Zenon DEF ExitLock, WaitLock, At, Exiting
<1>2. /\ OnCpu(p) /\ pc[p].at \in {"exit", "wait"} /\ wait_lock = None /\ wait_lock' = p
      /\ UNCHANGED <<state, parent, chan, cpu>>
  BY Zenon DEF ExitLock, WaitLock, At
<1>3. /\ pc'[p].at = at /\ pc'[p].i = 1 /\ pc'[p].j = 0 /\ \A q \in Procs : q # p => pc'[q] = pc[q]
  BY <1>1, GotoPlace DEF Separate, Labels
<1>4. state[p] = "RUNNING" /\ (OnCpu(p)' <=> OnCpu(p))
  BY <1>2, Zenon DEF Separate, Fits, OnCpu
<1>5. Stage(p)' /\ Forked(p)' /\ Rest(p)'
  <2>1. Forked(p) /\ None \notin Procs
    BY Holder, Zenon DEF Family, Kin
  <2> QED BY <1>1, <1>2, <1>3, <1>4, <2>1, Zenon DEF Stage, Forked, Rest, Drowsy, Holding, Exiting
<1>6. Work(p)'
  BY <1>3 DEF Work, Procs, ProcAssumption
<1> QED BY <1>2, <1>3, <1>5, <1>6, OwnStep, Zenon DEF Separate

\* kwait goes through the table, gives up, or decides to sleep.
LEMMA ScanKin ==
  ASSUME ProcAssumption, Separate, Family, NEW p \in Procs, WaitScan(p) \/ WaitBadAddr(p) \/ WaitCheck(p)
  PROVE  Family'
<1>1. /\ OnCpu(p) /\ pc[p].at = "scan" /\ UNCHANGED <<state, parent, chan, cpu>> /\ pc[p].i \in Nat /\ pc[p].j \in Nat
  BY Zenon DEF WaitScan, WaitBadAddr, WaitCheck, At, Separate, TypeOK, Places
<1>2. state[p] = "RUNNING" /\ (OnCpu(p)' <=> OnCpu(p)) /\ wait_lock = p /\ None \notin Procs
  BY <1>1, Holder, Zenon DEF Separate, Fits, OnCpu, Holding
<1>3. Stage(p) /\ Forked(p) /\ Work(p)
  BY Zenon DEF Family, Kin
<1>4. CASE Return(p) /\ wait_lock' = None
  <2>1. /\ pc'[p].at = "user" /\ \A q \in Procs : q # p => pc'[q] = pc[q]
    BY <1>4, GotoPlace DEF Return, Separate, Labels
  <2>2. Stage(p)' /\ Forked(p)' /\ Work(p)' /\ Rest(p)'
    BY <1>1, <1>2, <1>3, <1>4, <2>1, Zenon DEF Stage, Forked, Work, Rest, Drowsy, Holding, Exiting
  <2> QED BY <1>1, <1>2, <1>4, <2>1, <2>2, OwnStep, Zenon DEF Separate
<1>5. CASE WaitScan(p)
  <2>1. PICK h \in Nat : /\ Goto(p, "scan", pc[p].i + 1, h)
                         /\ h # 0 => pc[p].j # 0 \/ parent[pc[p].i] = p
                         /\ parent[pc[p].i] = p => state[pc[p].i] # "ZOMBIE"
    BY <1>1, <1>5, Zenon DEF WaitScan
  <2>2. wait_lock' = wait_lock /\ pc[p].i \in Procs
    BY <1>5, Zenon DEF WaitScan
  <2>3. /\ pc'[p].at = "scan" /\ pc'[p].i = pc[p].i + 1 /\ pc'[p].j = h
        /\ \A q \in Procs : q # p => pc'[q] = pc[q]
    BY <1>1, <2>1, GotoPlace DEF Separate, Labels
  <2>4. Stage(p)' /\ Forked(p)' /\ Rest(p)'
    BY <1>1, <1>2, <1>3, <2>2, <2>3, Zenon DEF Stage, Forked, Rest, Drowsy, Holding, Exiting
  <2>5. Work(p)'
    <3>1. \A k \in Procs : k < pc'[p].i /\ parent[k] = p => state[k] # "ZOMBIE"
      BY ONLY <1>1, <1>3, <2>1, <2>2, <2>3 DEF Work, Procs
    <3>2. h # 0 => \E k \in Procs : parent[k] = p
      BY <1>1, <1>3, <2>1, <2>2, Zenon DEF Work
    <3> QED BY <1>1, <2>3, <3>1, <3>2, Zenon DEF Work
  <2> QED BY <1>1, <1>2, <2>2, <2>3, <2>4, <2>5, OwnStep, Zenon DEF Separate
<1>6. CASE Goto(p, "sleep", 0, 0) /\ UNCHANGED wait_lock /\ pc[p].i > NPROC /\ pc[p].j # 0
  <2>1. /\ pc'[p].at = "sleep" /\ \A q \in Procs : q # p => pc'[q] = pc[q]
    BY <1>6, GotoPlace, Zenon DEF Separate, Labels
  <2>2. Stage(p)' /\ Forked(p)' /\ Work(p)'
    BY <1>1, <1>2, <1>3, <1>6, <2>1, Zenon DEF Stage, Forked, Work, Holding, Exiting
  <2>3. \A k \in Procs : parent[k] = p => state[k] # "ZOMBIE"
    BY <1>1, <1>3, <1>6 DEF Work, Procs, ProcAssumption
  <2>4. \E k \in Procs : parent[k] = p
    BY <1>1, <1>3, <1>6, Zenon DEF Work
  <2>5. Rest(p)'
    BY <1>1, <2>3, <2>4, Zenon DEF Rest
  <2> QED BY <1>1, <1>2, <1>6, <2>1, <2>2, <2>5, OwnStep, Zenon DEF Separate
<1> QED BY <1>4, <1>5, <1>6, Zenon DEF WaitBadAddr, WaitCheck

\* sleep takes p->lock, and then releases wait_lock.
LEMMA SleepKin ==
  ASSUME ProcAssumption, Separate, Family, NEW p \in Procs, SleepLock(p) \/ SleepRelease(p)
  PROVE  Family'
<1>1. /\ OnCpu(p) /\ pc[p].at \in {"sleep", "sleeping"} /\ UNCHANGED <<state, parent, chan, cpu>>
  BY Zenon DEF SleepLock, SleepRelease, At
<1>2. state[p] = "RUNNING" /\ (OnCpu(p)' <=> OnCpu(p)) /\ wait_lock = p /\ None \notin Procs
  BY <1>1, Holder, Zenon DEF Separate, Fits, OnCpu, Holding
<1>3. PICK at \in {"sleeping", "chan"} : Goto(p, at, 0, 0) /\ wait_lock' = IF at = "chan" THEN None ELSE p
  BY <1>2, Zenon DEF SleepLock, SleepRelease
<1>4. /\ pc'[p].at = at /\ \A q \in Procs : q # p => pc'[q] = pc[q]
  BY <1>3, GotoPlace DEF Separate, Labels
<1>5. Stage(p) /\ Forked(p) /\ Rest(p)
  BY Zenon DEF Family, Kin
<1>6. Stage(p)' /\ Forked(p)' /\ Work(p)'
  BY <1>1, <1>2, <1>3, <1>4, <1>5, Zenon DEF Stage, Forked, Work, Holding, Exiting
<1>7. Rest(p)'
  <2>1. (\E k \in Procs : parent[k] = p) /\ ~\E k \in Procs : parent[k] = p /\ state[k] = "ZOMBIE"
    BY <1>1, <1>2, <1>5, Zenon DEF Rest, Drowsy
  <2> QED BY <1>1, <2>1, Zenon DEF Rest
<1> QED BY <1>1, <1>2, <1>3, <1>4, <1>6, <1>7, OwnStep, Zenon DEF Separate

\* A wakeup is over.
LEMMA WakeupEndKin ==
  ASSUME ProcAssumption, Separate, Family, NEW p \in Procs, WakeupEnd(p)
  PROVE  Family'
<1>1. /\ OnCpu(p) /\ pc[p].at = "wakeup" /\ UNCHANGED <<state, parent, chan, wait_lock, cpu>>
      /\ pc[p].i \in Nat /\ \A q \in Procs : q < pc[p].j
  BY DEF WakeupEnd, At, Separate, TypeOK, Places, Procs, ProcAssumption
<1>2. state[p] = "RUNNING" /\ (OnCpu(p)' <=> OnCpu(p)) /\ wait_lock = p /\ None \notin Procs /\ p # initproc
  BY <1>1, Holder, Zenon DEF Separate, Fits, OnCpu, Holding, Exiting
<1>3. Stage(p) /\ Forked(p) /\ Work(p) /\ parent[p] \in Procs
  BY <1>2, Zenon DEF Family, Kin, KinType, Forked
<1>4. CASE pc[p].i \in Procs
  <2>1. /\ pc'[p].at = "reparent" /\ pc'[p].i = pc[p].i + 1 /\ \A q \in Procs : q # p => pc'[q] = pc[q]
    BY <1>1, <1>4, GotoPlace DEF WakeupEnd, Separate, Labels
  <2>2. Stage(p)' /\ Forked(p)' /\ Rest(p)'
    BY <1>1, <1>2, <1>3, <2>1, Zenon DEF Stage, Forked, Rest, Drowsy, Holding, Exiting
  <2>3. Work(p)'
    BY <1>1, <1>3, <1>4, <2>1 DEF Work, Procs
  <2> QED BY <1>1, <1>2, <2>1, <2>2, <2>3, OwnStep, Zenon DEF Separate
<1>5. CASE pc[p].i \notin Procs
  <2>1. /\ pc'[p].at = "zombie" /\ \A q \in Procs : q # p => pc'[q] = pc[q]
    BY <1>1, <1>5, GotoPlace, Zenon DEF WakeupEnd, Separate, Labels
  <2>2. Stage(p)' /\ Forked(p)' /\ Rest(p)'
    BY <1>1, <1>2, <1>3, <2>1, Zenon DEF Stage, Forked, Rest, Drowsy, Holding, Exiting
  <2>3. \A k \in Procs : parent[k] # p
    BY <1>1, <1>3, <1>5 DEF Work, Procs, ProcAssumption
  <2>4. ~Drowsy(parent[p])
    BY <1>1, <1>3, <1>5, Zenon DEF Work, WakeChan
  <2>5. ~Drowsy(parent[p])'
    BY <1>1, <1>3, <2>1, <2>3, <2>4, Zenon DEF Drowsy
  <2>6. Work(p)'
    BY <1>1, <2>1, <2>3, <2>5, Zenon DEF Work
  <2> QED BY <1>1, <1>2, <2>1, <2>2, <2>6, OwnStep, Zenon DEF Separate
<1> QED BY <1>4, <1>5, Zenon

\* kexit hands its children to init.
LEMMA ReparentKin ==
  ASSUME ProcAssumption, Separate, Family, NEW p \in Procs, reparent(p)
  PROVE  Family'
<1> DEFINE i == pc[p].i
<1>1. /\ OnCpu(p) /\ pc[p].at = "reparent" /\ UNCHANGED <<state, chan, wait_lock, cpu>> /\ i \in Nat
  BY Zenon DEF reparent, At, Separate, TypeOK, Places
<1>2. /\ state[p] = "RUNNING" /\ (\A q \in Procs : OnCpu(q)' <=> OnCpu(q)) /\ wait_lock = p
      /\ None \notin Procs /\ p # initproc
  BY <1>1, Holder, Zenon DEF Separate, Fits, OnCpu, Holding, Exiting
<1>3. Stage(p) /\ Forked(p) /\ Work(p) /\ i \in 1..NPROC + 1
  BY <1>1, Zenon DEF Family, Kin, Work
<1>4. CASE i \in Procs /\ parent[i] # p
  <2>1. /\ pc'[p].at = "reparent" /\ pc'[p].i = i + 1 /\ \A q \in Procs : q # p => pc'[q] = pc[q]
    BY <1>1, <1>4, GotoPlace DEF reparent, Separate, Labels
  <2>2. UNCHANGED parent
    BY <1>4, Zenon DEF reparent
  <2>3. Stage(p)' /\ Forked(p)' /\ Rest(p)'
    BY <1>1, <1>2, <1>3, <2>1, <2>2, Zenon DEF Stage, Forked, Rest, Drowsy, Holding, Exiting
  <2>4. Work(p)'
    BY <1>1, <1>3, <1>4, <2>1, <2>2 DEF Work, Procs
  <2> QED BY <1>1, <1>2, <2>1, <2>2, <2>3, <2>4, OwnStep, ZenonT(30) DEF Separate
<1>5. ASSUME ~(i \in Procs /\ parent[i] # p)
      PROVE  /\ pc'[p].at = "wakeup" /\ pc'[p].i = i /\ pc'[p].j = 1 /\ \A q \in Procs : q # p => pc'[q] = pc[q]
             /\ parent' = IF i \in Procs THEN [parent EXCEPT ![i] = initproc] ELSE parent
  <2>1. Goto(p, "wakeup", i, 1) /\ parent' = IF i \in Procs THEN [parent EXCEPT ![i] = initproc] ELSE parent
    BY <1>5, Zenon DEF reparent
  <2> QED BY <1>1, <2>1, GotoPlace DEF Separate, Labels
<1>6. CASE i \notin Procs
  <2>1. UNCHANGED parent
    BY <1>5, <1>6, Zenon
  <2>2. Stage(p)' /\ Forked(p)' /\ Rest(p)'
    BY <1>1, <1>2, <1>3, <1>5, <1>6, <2>1, Zenon DEF Stage, Forked, Rest, Drowsy, Holding, Exiting
  <2>3. Work(p)'
    BY ONLY <1>1, <1>3, <1>5, <1>6, <2>1 DEF Work, Procs, ProcAssumption
  <2> QED BY <1>1, <1>2, <1>5, <1>6, <2>1, <2>2, <2>3, OwnStep, Zenon DEF Separate
<1>7. CASE i \in Procs /\ parent[i] = p
  <2>1. /\ parent' \in [Procs -> Procs \cup {None}] /\ parent'[i] = initproc
        /\ \A q \in Procs : q # i => parent'[q] = parent[q]
    BY <1>5, <1>7, Holder, SMTT(30) DEF Family, KinType
  <2>2. i # initproc /\ state[i] # "UNUSED"
    BY <1>2, <1>7, SMTT(30) DEF Family, KinType, Kin, Forked
  <2>3. KinType'
    BY <1>1, <2>1, <2>2, Holder, Zenon DEF Family, KinType, Alive
  <2> HIDE DEF i
  <2>4. ASSUME NEW q \in Procs PROVE Stage(q)'
    BY <1>1, <1>2, <1>5, <1>7, SMTT(30) DEF Family, Stage, Holding, Exiting
  <2>5. ASSUME NEW q \in Procs PROVE Parented(q)'
    BY <1>1, <2>1, <2>2, Holder, Zenon DEF Family, KinType, Kin, Parented, Alive
  <2>6. ASSUME NEW q \in Procs PROVE Forked(q)'
    <3>1. Forked(q) /\ (pc[q].at \in Forking => pc[q].i \in Procs)
      BY Zenon DEF Family, Kin, Separate, Fits
    <3>2. pc[q].at \in Forking => q # p /\ pc[q].i # i
      BY <1>1, <1>2, <1>7, <3>1, Zenon DEF Forked, Forking
    <3>3. pc'[q].at \in Forking => pc'[q] = pc[q]
      BY <1>5, <1>7, Zenon DEF Forking
    <3>4. /\ pc'[q].at = "fork" => parent'[pc'[q].i] = None
          /\ pc'[q].at = "forkrun" => parent'[pc'[q].i] = q
      BY <2>1, <3>1, <3>2, <3>3, Zenon DEF Forked, Forking
    <3>5. /\ parent'[q] = None => q = initproc \/ state'[q] \in {"UNUSED", "USED"}
          /\ state'[q] = "UNUSED" => parent'[q] = None
      BY <1>1, <2>1, <2>2, <3>1, Holder, ZenonT(30) DEF Forked
    <3> QED BY <3>4, <3>5, Zenon DEF Forked
  <2>7. ASSUME NEW q \in Procs PROVE Work(q)'
    <3>1. CASE q = p
      <4>1. \A k \in Procs : k <= i => parent'[k] # p
        BY ONLY <1>1, <1>2, <1>3, <1>7, <2>1 DEF Work, Procs, i
      <4>2. \A k \in Procs : ~(k < 1)
        BY DEF Procs
      <4> QED BY <1>3, <1>5, <1>7, <3>1, <4>1, <4>2, Zenon DEF Work
    <3>2. CASE q # p
      <4>1. pc'[q].at \notin Holding
        BY <1>2, <1>5, <1>7, <3>2, Holder, Zenon
      <4> QED BY <4>1, Zenon DEF Work, Holding
    <3> QED BY <3>1, <3>2, Zenon
  <2>8. ASSUME NEW q \in Procs PROVE Rest(q)'
    <3> SUFFICES ASSUME Drowsy(q)' PROVE Rest(q)'
      BY Zenon DEF Rest
    <3>1. q # p /\ Drowsy(q) /\ Rest(q)
      BY <1>1, <1>2, <1>5, <1>7, Zenon DEF Drowsy, Family
    <3>2. (\E k \in Procs : parent[k] = q) /\ ~\E k \in Procs : parent[k] = q /\ state[k] = "ZOMBIE"
      BY <1>1, <1>2, <3>1, Zenon DEF Rest
    <3>3. \A k \in Procs : parent[k] = q => parent'[k] = q
      BY <1>7, <2>1, <3>1, Zenon
    <3>4. CASE q = initproc
      <4>1. WakeChan(p)' = q /\ 1 <= q
        BY ONLY <1>5, <1>7, <3>4 DEF WakeChan, initproc
      <4> QED BY <1>1, <1>2, <1>5, <1>7, <3>2, <3>3, <4>1, Zenon DEF Rest
    <3>5. CASE q # initproc
      <4>1. \A k \in Procs : parent'[k] = q => parent[k] = q
        BY <2>1, <3>5, Zenon
      <4> QED BY <1>1, <3>2, <3>3, <4>1, Zenon DEF Rest
    <3> QED BY <3>4, <3>5, Zenon
  <2> QED BY <2>3, <2>4, <2>5, <2>6, <2>7, <2>8, ZenonT(30) DEF Family, Kin
<1> QED BY <1>4, <1>6, <1>7, Zenon

\* One iteration of wakeup.
LEMMA WakeupKin ==
  ASSUME ProcAssumption, Separate, Family, NEW p \in Procs, wakeup(p)
  PROVE  Family'
<1>0. PICK v : v = pc[p].j
  BY Zenon
<1>1. /\ OnCpu(p) /\ pc[p].at = "wakeup" /\ v \in Procs /\ UNCHANGED <<parent, chan, wait_lock, cpu>>
      /\ pc[p].i \in Nat /\ v \in Nat /\ v + 1 \in Nat /\ (v # p => ~lock[v])
      /\ Goto(p, "wakeup", pc[p].i, v + 1)
  BY <1>0 DEF wakeup, At, Separate, TypeOK, Places
<1>2. /\ state[p] = "RUNNING" /\ (\A q \in Procs : OnCpu(q)' <=> OnCpu(q)) /\ wait_lock = p
      /\ None \notin Procs /\ p # initproc
  BY <1>1, Holder, Zenon DEF Separate, Fits, OnCpu, Holding, Exiting
<1>3. /\ pc'[p].at = "wakeup" /\ pc'[p].i = pc[p].i /\ pc'[p].j = v + 1
      /\ \A q \in Procs : q # p => pc'[q] = pc[q]
  BY <1>1, GotoPlace DEF Separate, Labels
<1>4. /\ state'[v] = IF v # p /\ state[v] = "SLEEPING" /\ chan[v] = WakeChan(p) THEN "RUNNABLE" ELSE state[v]
      /\ \A q \in Procs : q # v => state'[q] = state[q]
  BY <1>0, <1>1, Zenon DEF wakeup, Separate, TypeOK
<1>5. WakeChan(p)' = WakeChan(p) /\ WakeChan(p) # p
  BY <1>1, <1>2, <1>3, Zenon DEF WakeChan, Family, Kin, Parented, Forked
<1>6. \A q \in Procs : (Alive(q)' <=> Alive(q)) /\ (Drowsy(q)' => Drowsy(q)) /\ (state'[q] = "ZOMBIE" => state[q] = "ZOMBIE")
  BY <1>1, <1>2, <1>3, <1>4, Zenon DEF Alive, Drowsy
<1>7. v = WakeChan(p) => ~Drowsy(v)'
  <2> SUFFICES ASSUME v = WakeChan(p) PROVE ~Drowsy(v)'
    BY Zenon
  <2>1. v # p /\ ~lock[v] /\ pc[v].at \notin Locked /\ pc[v].at \notin Holding
    BY <1>1, <1>2, <1>5, Holder, Zenon DEF Separate, Fits
  <2>2. state[v] = "SLEEPING" => chan[v] = v
    BY <1>1, Zenon DEF Family, Stage
  <2> QED BY <1>1, <1>3, <1>4, <2>1, <2>2, Zenon DEF Drowsy, Locked, Holding
<1>8. KinType'
  BY <1>1, <1>6, Holder, Zenon DEF Family, KinType
<1>9. ASSUME NEW q \in Procs PROVE Stage(q)' /\ Kin(q)'
  <2>1. Stage(q) /\ Parented(q) /\ Forked(q)
    BY Zenon DEF Family, Kin
  <2>2. v # p => pc[v].at \notin Locked
    BY <1>1, Zenon DEF Separate, Fits
  <2>3. Stage(q)'
    <3>1. CASE q = p
      BY <1>1, <1>2, <1>3, <1>4, <2>1, <3>1, Zenon DEF Stage
    <3>2. CASE q # p
      BY <1>1, <1>2, <1>3, <1>4, <2>1, <2>2, <3>2, Zenon DEF Stage, Locked
    <3> QED BY <3>1, <3>2, Zenon
  <2>4. Parented(q)'
    BY <1>1, <1>6, <2>1, Zenon DEF Parented, Family, KinType
  <2>5. Forked(q)'
    BY <1>1, <1>3, <1>4, <2>1, Zenon DEF Forked
  <2> QED BY <2>3, <2>4, <2>5, Zenon DEF Kin
<1>10. ASSUME NEW q \in Procs PROVE Work(q)'
  <2>1. CASE q = p
    <3>1. Work(p)
      BY Zenon DEF Family
    <3>2. \A k \in Procs : k = WakeChan(p) /\ k < v + 1 => ~Drowsy(k)'
      <4> SUFFICES ASSUME NEW k \in Procs, k = WakeChan(p), k < v + 1 PROVE ~Drowsy(k)'
        BY Zenon
      <4>1. CASE k = v
        BY <1>7, <4>1, Zenon
      <4>2. CASE k # v
        <5>1. k < v
          BY <1>1, <4>2 DEF Procs
        <5> QED BY <1>0, <1>1, <1>6, <3>1, <5>1, Zenon DEF Work
      <4> QED BY <4>1, <4>2, Zenon
    <3> QED BY <1>1, <1>3, <1>5, <2>1, <3>1, <3>2, Zenon DEF Work
  <2>2. CASE q # p
    <3>1. pc'[q].at \notin Holding
      BY <1>2, <1>3, <2>2, Holder, Zenon
    <3> QED BY <3>1, Zenon DEF Work, Holding
  <2> QED BY <2>1, <2>2, Zenon
<1>11. ASSUME NEW q \in Procs PROVE Rest(q)'
  <2> SUFFICES ASSUME Drowsy(q)' PROVE Rest(q)'
    BY Zenon DEF Rest
  <2>1. Drowsy(q) /\ Rest(q)
    BY <1>6, Zenon DEF Family
  <2>2. ASSUME NEW k \in Procs, parent'[k] = q, state'[k] = "ZOMBIE"
        PROVE  WakeChan(p) = q /\ v + 1 <= q
    <3>1. WakeChan(p) = q /\ v <= q
      BY <1>0, <1>1, <1>2, <1>6, <2>1, <2>2, Zenon DEF Rest
    <3>2. v # q
      BY <1>7, <3>1, Zenon
    <3> QED BY ONLY <1>1, <3>1, <3>2 DEF Procs
  <2> QED BY <1>1, <1>2, <1>3, <1>5, <2>1, <2>2, Zenon DEF Rest
<1> QED BY <1>8, <1>9, <1>10, <1>11, Zenon DEF Family

\* kexit ends.
LEMMA ExitZombieKin ==
  ASSUME ProcAssumption, Separate, Family, NEW p \in Procs, ExitZombie(p)
  PROVE  Family'
<1>1. /\ OnCpu(p) /\ pc[p].at = "zombie" /\ UNCHANGED <<parent, chan, cpu>> /\ wait_lock' = None
      /\ Goto(p, "swtch", 0, 0)
  BY Zenon DEF ExitZombie, At
<1>2. /\ state[p] = "RUNNING" /\ (\A q \in Procs : OnCpu(q)' <=> OnCpu(q)) /\ wait_lock = p
      /\ None \notin Procs /\ p # initproc
  BY <1>1, Holder, Zenon DEF Separate, Fits, OnCpu, Holding, Exiting
<1>3. /\ pc'[p].at = "swtch" /\ \A q \in Procs : q # p => pc'[q] = pc[q]
  BY <1>1, GotoPlace, Zenon DEF Separate, Labels
<1>4. /\ state'[p] = "ZOMBIE" /\ \A q \in Procs : q # p => state'[q] = state[q]
  BY Zenon DEF ExitZombie, Separate, TypeOK
<1>5. ~Drowsy(parent[p]) /\ \A k \in Procs : parent[k] # p
  BY <1>1, Zenon DEF Family, Work
<1>6. KinType'
  BY <1>1, <1>2, <1>4, Holder, Zenon DEF Family, KinType, Alive
<1>7. ASSUME NEW q \in Procs PROVE Stage(q)' /\ Kin(q)' /\ Work(q)' /\ Rest(q)'
  <2>1. Stage(q) /\ Parented(q) /\ Forked(q) /\ Rest(q)
    BY Zenon DEF Family, Kin
  <2>2. pc'[q].at \notin Holding
    BY <1>2, <1>3, Holder, Zenon DEF Holding
  <2>3. Stage(q)'
    BY <1>1, <1>2, <1>3, <1>4, <2>1, <2>2, Zenon DEF Stage, Exiting
  <2>4. Parented(q)'
    BY <1>1, <1>4, <1>5, <2>1, Zenon DEF Parented, Alive, Family, KinType
  <2>5. Forked(q)'
    BY <1>1, <1>2, <1>3, <1>4, <2>1, Zenon DEF Forked
  <2>6. Work(q)'
    BY <2>2, Zenon DEF Work, Holding
  <2>7. Rest(q)'
    <3> SUFFICES ASSUME Drowsy(q)' PROVE Rest(q)'
      BY Zenon DEF Rest
    <3>1. q # p /\ Drowsy(q)
      BY <1>3, <1>4, Zenon DEF Drowsy
    <3>2. (\E k \in Procs : parent[k] = q) /\ ~\E k \in Procs : parent[k] = q /\ state[k] = "ZOMBIE"
      BY <1>1, <1>2, <2>1, <3>1, Zenon DEF Rest
    <3>3. parent[p] # q
      BY <1>5, <3>1, Zenon
    <3>4. ~\E k \in Procs : parent'[k] = q /\ state'[k] = "ZOMBIE"
      BY <1>1, <1>4, <3>2, <3>3, Zenon
    <3> QED BY <1>1, <3>2, <3>4, Zenon DEF Rest
  <2> QED BY <2>3, <2>4, <2>5, <2>6, <2>7, Zenon DEF Kin
<1> QED BY <1>6, <1>7, Zenon DEF Family

\* kwait frees a child that has exited.
LEMMA ReapKin ==
  ASSUME ProcAssumption, Separate, Family, NEW p \in Procs, WaitReap(p)
  PROVE  Family'
<1>0. PICK i : i = pc[p].i
  BY Zenon
<1>1. /\ OnCpu(p) /\ pc[p].at = "scan" /\ i \in Procs /\ parent[i] = p /\ ~lock[i] /\ state[i] = "ZOMBIE"
      /\ state' = [state EXCEPT ![i] = "UNUSED"] /\ parent' = [parent EXCEPT ![i] = None]
      /\ chan' = [chan EXCEPT ![i] = None] /\ pc' = [pc EXCEPT ![p] = User, ![i] = User]
      /\ wait_lock' = None /\ UNCHANGED cpu
  BY <1>0, Zenon DEF WaitReap, At, freeproc
<1>2. /\ state[p] = "RUNNING" /\ (\A q \in Procs : OnCpu(q)' <=> OnCpu(q)) /\ wait_lock = p
      /\ None \notin Procs /\ ~OnCpu(i)
  BY <1>1, Holder DEF Separate, Fits, OnCpu, Holding, Locked
<1>3. /\ pc'[p].at = "user" /\ pc'[i].at = "user" /\ \A q \in Procs : q # p /\ q # i => pc'[q] = pc[q]
  BY <1>1, Zenon DEF Separate, TypeOK, User
<1>4. /\ state'[i] = "UNUSED" /\ \A q \in Procs : q # i => state'[q] = state[q]
  BY <1>1, Zenon DEF Separate, TypeOK
<1>5. /\ parent' \in [Procs -> Procs \cup {None}] /\ parent'[i] = None
      /\ \A q \in Procs : q # i => parent'[q] = parent[q]
  BY <1>1, Zenon DEF Family, KinType
<1>6. /\ chan' \in [Procs -> Procs \cup {None}] /\ \A q \in Procs : q # i => chan'[q] = chan[q]
  BY <1>1, Zenon DEF Family, KinType
<1>7. i # initproc /\ i # p /\ \A q \in Procs : parent[q] # i
  BY <1>1, <1>2, Zenon DEF Family, Kin, Parented, KinType, Alive
<1>8. KinType'
  BY <1>1, <1>4, <1>5, <1>6, <1>7, Holder, Zenon DEF Family, KinType, Alive
<1>9. ASSUME NEW q \in Procs PROVE Stage(q)' /\ Kin(q)' /\ Work(q)' /\ Rest(q)'
  <2>1. Stage(q) /\ Parented(q) /\ Forked(q) /\ Rest(q)
    BY Zenon DEF Family, Kin
  <2>2. pc'[q].at \notin Holding
    BY <1>2, <1>3, Holder, Zenon DEF Holding
  <2>3. Stage(q)'
    BY <1>1, <1>2, <1>3, <1>4, <1>6, <2>1, <2>2, ZenonT(30) DEF Stage, Exiting
  <2>4. Parented(q)'
    BY ONLY <1>4, <1>5, <1>7, <2>1 DEF Parented, Alive, Family, KinType
  <2>5. Forked(q)'
    <3>1. pc[q].at \in Forking => pc[q].i \in Procs /\ pc[q].i # i
      BY <1>1, Zenon DEF Separate, Fits
    <3> QED BY <1>3, <1>4, <1>5, <1>7, <2>1, <3>1, Zenon DEF Forked, Forking
  <2>6. Work(q)'
    BY <2>2, Zenon DEF Work, Holding
  <2>7. Rest(q)'
    <3> SUFFICES ASSUME Drowsy(q)' PROVE Rest(q)'
      BY Zenon DEF Rest
    <3>1. q # p /\ Drowsy(q)
      BY <1>2, <1>3, <1>4, <1>7, Zenon DEF Drowsy
    <3>2. (\E k \in Procs : parent[k] = q) /\ ~\E k \in Procs : parent[k] = q /\ state[k] = "ZOMBIE"
      BY <1>1, <1>2, <2>1, <3>1, Zenon DEF Rest
    <3>3. \A k \in Procs : parent'[k] = q <=> parent[k] = q
      BY <1>1, <1>2, <1>5, <3>1, Zenon
    <3>4. ~\E k \in Procs : parent'[k] = q /\ state'[k] = "ZOMBIE"
      BY <1>4, <3>2, <3>3, Zenon
    <3> QED BY <3>2, <3>3, <3>4, Zenon DEF Rest
  <2> QED BY <2>3, <2>4, <2>5, <2>6, <2>7, Zenon DEF Kin
<1> QED BY <1>8, <1>9, Zenon DEF Family

\* Every step keeps the family together.
LEMMA FamilyStep ==
  ASSUME ProcAssumption, Separate, Family, [Next]_vars
  PROVE  Family'
<1>1. ASSUME NEW c \in CPUs, NEW p \in Procs, Dispatch(c, p) PROVE Family'
  BY <1>1, DispatchKin, Zenon
<1>2. ASSUME NEW p \in Procs, yield(p) PROVE Family'
  BY <1>2, YieldKin, Zenon
<1>3. ASSUME NEW p \in Procs, Kernel(p) PROVE Family'
  BY <1>3, BeginKin, ForkParentKin, ForkRunKin, LockKin, ReparentKin, WakeupKin, WakeupEndKin,
     ExitZombieKin, SwtchKin, ScanKin, ReapKin, SleepKin, SleepStateKin, Zenon DEF Kernel
<1>4. ASSUME NEW p \in Procs, SysCall(p) PROVE Family'
  BY <1>4, ForkAllocKin, BeginKin, ScanKin, KillKin, ZenonT(30) DEF SysCall
<1>5. ASSUME UNCHANGED vars PROVE Family'
  BY <1>5, SMTT(30) DEF vars, Family, KinType, Stage, Kin, Parented, Forked, Work, Rest, Alive, Drowsy, OnCpu, WakeChan
<1> QED BY <1>1, <1>2, <1>3, <1>4, <1>5, Zenon DEF Next

\* Whatever the processes do and in whichever order, a process that has exited
\* or may still run has a parent that can wait for it, and no parent sleeps in
\* kwait past the exit of a child without a wakeup on its way.
THEOREM ChildrenAreWaitedFor ==
  ASSUME ProcAssumption
  PROVE  Spec => []NoLostChild
<1>1. Init => Separate /\ Family
  BY SeparateInit, FamilyInit, Zenon
<1>2. Separate /\ Family /\ [Next]_vars => (Separate /\ Family)'
  BY SeparateStep, FamilyStep, Zenon
<1>3. Separate /\ Family => NoLostChild
  <2> SUFFICES ASSUME Separate, Family PROVE NoLostChild
    BY Zenon
  <2>1. ASSUME NEW q \in Procs \ {initproc}, state[q] \notin {"UNUSED", "USED"}
        PROVE  parent[q] # None /\ state[parent[q]] \notin {"UNUSED", "USED", "ZOMBIE"}
    BY <2>1, Zenon DEF Family, Kin, Parented, Forked, Alive
  <2>2. ASSUME NEW p \in Procs, state[p] = "SLEEPING"
        PROVE  /\ \E q \in Procs : parent[q] = p
               /\ (\E q \in Procs : parent[q] = p /\ state[q] = "ZOMBIE") =>
                    wait_lock # None /\ At(wait_lock, "wakeup") /\ WakeChan(wait_lock) = p
    <3>1. Rest(p) /\ Drowsy(p)
      BY <2>2, Zenon DEF Family, Drowsy
    <3>2. wait_lock # None => wait_lock \in Procs
      BY Zenon DEF Family, KinType
    <3>3. wait_lock # None /\ pc[wait_lock].at = "wakeup" => OnCpu(wait_lock)
      BY <3>2, Holder, Zenon
    <3> QED BY <3>1, <3>2, <3>3, Zenon DEF Rest, At
  <2> QED BY <2>1, <2>2, Zenon DEF NoLostChild
<1> QED BY <1>1, <1>2, <1>3, PTL DEF Spec
=============================================================================
