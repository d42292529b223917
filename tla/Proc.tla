-------------------------------- MODULE Proc --------------------------------
(***************************************************************************)
(* Processes in kernel/proc.c: the scheduler, fork, exit, wait, kill, and  *)
(* sleep/wakeup as used by wait.                                           *)
(*                                                                         *)
(* A step is the code between two lock operations.  lock[p] is p->lock     *)
(* when it is held from one step to the next (by p itself, or for p by the *)
(* scheduler it switches to); a critical section of p->lock that fits in a *)
(* step needs it to be free.  The user program a process runs is           *)
(* arbitrary, except that init never exits and nobody kills it (kexit      *)
(* would panic).  Process ids are left out: kkill names its victim.        *)
(***************************************************************************)
EXTENDS Integers

CONSTANTS
  NPROC,   \* size of the process table; process 1 is initproc
  CPUs

ASSUME ProcAssumption == NPROC \in Nat \ {0, 1} /\ CPUs # {}

Procs == 1..NPROC
initproc == 1
None == 0

VARIABLES
  state, parent, killed, chan,   \* fields of struct proc
  lock,                          \* p->lock held across steps
  wait_lock,                     \* process holding wait_lock, or None
  cpu,                           \* c->proc of each CPU, or None
  pc                             \* where in the kernel each process is

vars == <<state, parent, killed, chan, lock, wait_lock, cpu, pc>>

User == [at |-> "user", i |-> 0, j |-> 0]

Init ==
  /\ state = [p \in Procs |-> IF p = initproc THEN "RUNNABLE" ELSE "UNUSED"]
  /\ parent = [p \in Procs |-> None]
  /\ killed = [p \in Procs |-> FALSE]
  /\ chan = [p \in Procs |-> None]
  /\ lock = [p \in Procs |-> FALSE]
  /\ wait_lock = None
  /\ cpu = [c \in CPUs |-> None]
  /\ pc = [p \in Procs |-> User]

OnCpu(p) == \E c \in CPUs : cpu[c] = p
At(p, at) == OnCpu(p) /\ pc[p].at = at
Goto(p, at, i, j) == pc' = [pc EXCEPT ![p] = [at |-> at, i |-> i, j |-> j]]
Return(p) == Goto(p, "user", 0, 0)
LeaveCpu(p) == cpu' = [c \in CPUs |-> IF cpu[c] = p THEN None ELSE cpu[c]]

-----------------------------------------------------------------------------
(* Scheduling.                                                             *)

\* scheduler picks p, which releases p->lock as soon as it runs (forkret, or
\* the end of sched in yield and sleep).
Dispatch(c, p) ==
  /\ cpu[c] = None /\ ~lock[p] /\ state[p] = "RUNNABLE"
  /\ state' = [state EXCEPT ![p] = "RUNNING"]
  /\ chan' = [chan EXCEPT ![p] = None]
  /\ cpu' = [cpu EXCEPT ![c] = p]
  /\ UNCHANGED <<parent, killed, lock, wait_lock, pc>>

\* A timer interrupt.  None arrives while the process holds a spinlock.
yield(p) ==
  /\ OnCpu(p) /\ pc[p].at \in {"user", "fork", "forkrun", "exit", "wait"}
  /\ ~lock[p]
  /\ state' = [state EXCEPT ![p] = "RUNNABLE"]
  /\ LeaveCpu(p)
  /\ UNCHANGED <<parent, killed, chan, lock, wait_lock, pc>>

\* usertrap finds the process killed.
TrapKilled(p) ==
  /\ At(p, "user") /\ ~lock[p] /\ killed[p] /\ p # initproc
  /\ Goto(p, "exit", 0, 0)
  /\ UNCHANGED <<state, parent, killed, chan, lock, wait_lock, cpu>>

-----------------------------------------------------------------------------
(* kfork                                                                   *)

\* allocproc takes an UNUSED slot; what it holds np->lock for is private.
ForkAlloc(p, np) ==
  /\ At(p, "user") /\ ~killed[p]
  /\ state[np] = "UNUSED" /\ ~lock[np]
  /\ state' = [state EXCEPT ![np] = "USED"]
  /\ Goto(p, "fork", np, 0)
  /\ UNCHANGED <<parent, killed, chan, lock, wait_lock, cpu>>

ForkParent(p) ==
  /\ At(p, "fork") /\ wait_lock = None
  /\ parent' = [parent EXCEPT ![pc[p].i] = p]
  /\ Goto(p, "forkrun", pc[p].i, 0)
  /\ UNCHANGED <<state, killed, chan, lock, wait_lock, cpu>>

ForkRun(p) ==
  LET np == pc[p].i IN
  /\ At(p, "forkrun") /\ ~lock[np]
  /\ state' = [state EXCEPT ![np] = "RUNNABLE"]
  /\ pc' = [pc EXCEPT ![p] = User, ![np] = User]
  /\ UNCHANGED <<parent, killed, chan, lock, wait_lock, cpu>>

-----------------------------------------------------------------------------
(* kexit                                                                   *)

\* Before this the process closes its files, which touches nothing here.
ExitStart(p) ==
  /\ At(p, "user") /\ p # initproc
  /\ Goto(p, "exit", 0, 0)
  /\ UNCHANGED <<state, parent, killed, chan, lock, wait_lock, cpu>>

\* Fault: the children are not handed to init.
ExitLock_NoReparent(p) ==
  /\ At(p, "exit") /\ wait_lock = None
  /\ wait_lock' = p
  /\ Goto(p, "reparent", NPROC + 1, 0)
  /\ UNCHANGED <<state, parent, killed, chan, lock, cpu>>

ExitLock(p) ==
  /\ At(p, "exit") /\ wait_lock = None
  /\ wait_lock' = p
  /\ Goto(p, "reparent", 1, 0)
  /\ UNCHANGED <<state, parent, killed, chan, lock, cpu>>

\* reparent, one slot of the table; a child is followed by wakeup(initproc).
\* After the last slot comes wakeup(p->parent).
reparent(p) ==
  LET i == pc[p].i IN
  /\ At(p, "reparent")
  /\ IF i \in Procs /\ parent[i] # p
     THEN Goto(p, "reparent", i + 1, 0) /\ UNCHANGED parent
     ELSE /\ parent' = IF i \in Procs THEN [parent EXCEPT ![i] = initproc] ELSE parent
          /\ Goto(p, "wakeup", i, 1)
  /\ UNCHANGED <<state, killed, chan, lock, wait_lock, cpu>>

\* What wakeup is called on.
WakeChan(p) == IF pc[p].i \in Procs THEN initproc ELSE parent[p]

\* One iteration of wakeup.
wakeup(p) ==
  LET q == pc[p].j IN
  /\ At(p, "wakeup") /\ q \in Procs
  /\ q # p => ~lock[q]
  /\ state' = IF q # p /\ state[q] = "SLEEPING" /\ chan[q] = WakeChan(p)
              THEN [state EXCEPT ![q] = "RUNNABLE"] ELSE state
  /\ Goto(p, "wakeup", pc[p].i, q + 1)
  /\ UNCHANGED <<parent, killed, chan, lock, wait_lock, cpu>>

WakeupEnd(p) ==
  /\ At(p, "wakeup") /\ pc[p].j > NPROC
  /\ IF pc[p].i \in Procs
     THEN Goto(p, "reparent", pc[p].i + 1, 0)
     ELSE Goto(p, "zombie", 0, 0)
  /\ UNCHANGED <<state, parent, killed, chan, lock, wait_lock, cpu>>

\* p->lock is taken before wait_lock is released, and kept.
ExitZombie(p) ==
  /\ At(p, "zombie") /\ ~lock[p]
  /\ lock' = [lock EXCEPT ![p] = TRUE]
  /\ state' = [state EXCEPT ![p] = "ZOMBIE"]
  /\ wait_lock' = None
  /\ Goto(p, "swtch", 0, 0)
  /\ UNCHANGED <<parent, killed, chan, cpu>>

\* sched: the process leaves its kernel stack and the scheduler releases
\* p->lock.
Swtch(p) ==
  /\ At(p, "swtch")
  /\ lock' = [lock EXCEPT ![p] = FALSE]
  /\ LeaveCpu(p)
  /\ pc' = [pc EXCEPT ![p] = [@ EXCEPT !.at = IF state[p] = "ZOMBIE" THEN "gone" ELSE "wait"]]
  /\ UNCHANGED <<state, parent, killed, chan, wait_lock>>

-----------------------------------------------------------------------------
(* kwait                                                                   *)

WaitStart(p) ==
  /\ At(p, "user") /\ ~killed[p]
  /\ Goto(p, "wait", 0, 0)
  /\ UNCHANGED <<state, parent, killed, chan, lock, wait_lock, cpu>>

WaitLock(p) ==
  /\ At(p, "wait") /\ wait_lock = None
  /\ wait_lock' = p
  /\ Goto(p, "scan", 1, 0)
  /\ UNCHANGED <<state, parent, killed, chan, lock, cpu>>

\* The next slot holds no child, or one that has not exited (j is havekids).
WaitScan(p) ==
  LET i == pc[p].i IN
  /\ At(p, "scan") /\ i \in Procs
  /\ \/ parent[i] # p /\ Goto(p, "scan", i + 1, pc[p].j)
     \/ /\ parent[i] = p /\ ~lock[i] /\ state[i] # "ZOMBIE"
        /\ Goto(p, "scan", i + 1, 1)
  /\ UNCHANGED <<state, parent, killed, chan, lock, wait_lock, cpu>>

freeproc(q) ==
  /\ state' = [state EXCEPT ![q] = "UNUSED"]
  /\ parent' = [parent EXCEPT ![q] = None]
  /\ killed' = [killed EXCEPT ![q] = FALSE]
  /\ chan' = [chan EXCEPT ![q] = None]

\* Fault: the child's lock is not taken.
WaitReap_NoLock(p) ==
  LET i == pc[p].i IN
  /\ At(p, "scan") /\ i \in Procs
  /\ parent[i] = p /\ state[i] = "ZOMBIE"
  /\ freeproc(i)
  /\ wait_lock' = None
  /\ Return(p)
  /\ UNCHANGED <<lock, cpu>>

WaitReap(p) ==
  LET i == pc[p].i IN
  /\ At(p, "scan") /\ i \in Procs
  /\ parent[i] = p /\ ~lock[i] /\ state[i] = "ZOMBIE"
  /\ freeproc(i)
  /\ wait_lock' = None
  /\ pc' = [pc EXCEPT ![p] = User, ![i] = User]
  /\ UNCHANGED <<lock, cpu>>

\* copyout of the exit status fails: the child stays a zombie.
WaitBadAddr(p) ==
  LET i == pc[p].i IN
  /\ At(p, "scan") /\ i \in Procs /\ p # initproc
  /\ parent[i] = p /\ ~lock[i] /\ state[i] = "ZOMBIE"
  /\ wait_lock' = None
  /\ Return(p)
  /\ UNCHANGED <<state, parent, killed, chan, lock, cpu>>

\* No children, or killed(p); otherwise on to sleep.
WaitCheck(p) ==
  /\ At(p, "scan") /\ pc[p].i > NPROC /\ ~lock[p]
  /\ IF pc[p].j = 0 \/ killed[p]
     THEN wait_lock' = None /\ Return(p)
     ELSE Goto(p, "sleep", 0, 0) /\ UNCHANGED wait_lock
  /\ UNCHANGED <<state, parent, killed, chan, lock, cpu>>

\* Fault: wait_lock is released before p->lock is taken.
SleepLock_Late(p) ==
  /\ At(p, "sleep")
  /\ IF wait_lock = p
     THEN wait_lock' = None /\ UNCHANGED <<lock, pc>>
     ELSE /\ ~lock[p] /\ lock' = [lock EXCEPT ![p] = TRUE]
          /\ Goto(p, "chan", 0, 0)
          /\ UNCHANGED wait_lock
  /\ UNCHANGED <<state, parent, killed, chan, cpu>>

\* sleep(p, &wait_lock): p->lock is taken before wait_lock is released.
SleepLock(p) ==
  /\ At(p, "sleep") /\ ~lock[p]
  /\ lock' = [lock EXCEPT ![p] = TRUE]
  /\ Goto(p, "sleeping", 0, 0)
  /\ UNCHANGED <<state, parent, killed, chan, wait_lock, cpu>>

SleepRelease(p) ==
  /\ At(p, "sleeping") /\ wait_lock = p
  /\ wait_lock' = None
  /\ Goto(p, "chan", 0, 0)
  /\ UNCHANGED <<state, parent, killed, chan, lock, cpu>>

SleepState(p) ==
  /\ At(p, "chan")
  /\ chan' = [chan EXCEPT ![p] = p]
  /\ state' = [state EXCEPT ![p] = "SLEEPING"]
  /\ Goto(p, "swtch", 0, 0)
  /\ UNCHANGED <<parent, killed, lock, wait_lock, cpu>>

-----------------------------------------------------------------------------
\* kkill, called by p, finds process q.  The pid of an UNUSED slot is 0, so
\* kill(0) finds the first such slot and marks the process to come as killed.
kkill(p, q) ==
  /\ At(p, "user") /\ ~killed[p] /\ q # initproc /\ ~lock[q]
  /\ state[q] = "UNUSED" =>
       \A r \in Procs : r < q => state[r] # "UNUSED"
  /\ killed' = [killed EXCEPT ![q] = TRUE]
  /\ state' = [state EXCEPT ![q] = IF @ = "SLEEPING" THEN "RUNNABLE" ELSE @]
  /\ UNCHANGED <<parent, chan, lock, wait_lock, cpu, pc>>

Kernel(p) ==
  \/ TrapKilled(p) \/ ForkParent(p) \/ ForkRun(p)
  \/ ExitLock(p) \/ reparent(p) \/ wakeup(p) \/ WakeupEnd(p)
  \/ ExitZombie(p) \/ Swtch(p)
  \/ WaitLock(p) \/ WaitScan(p) \/ WaitReap(p) \/ WaitCheck(p)
  \/ SleepLock(p) \/ SleepRelease(p) \/ SleepState(p)

SysCall(p) ==
  \/ \E np \in Procs : ForkAlloc(p, np)
  \/ ExitStart(p) \/ WaitStart(p) \/ WaitBadAddr(p)
  \/ \E q \in Procs : kkill(p, q)

Next ==
  \/ \E c \in CPUs, p \in Procs : Dispatch(c, p)
  \/ \E p \in Procs : yield(p) \/ Kernel(p) \/ SysCall(p)

Spec == Init /\ [][Next]_vars

-----------------------------------------------------------------------------
(* Properties.                                                             *)

\* A process runs on one CPU, exactly while it is RUNNING or on its way to the
\* scheduler with its lock held; so the slot and the kernel stack of a child
\* that is still in kexit or swtch are never freed by its parent's kwait.
RunsOnOneCpu ==
  \A p \in Procs :
    /\ \A c, d \in CPUs : cpu[c] = p /\ cpu[d] = p => c = d
    /\ state[p] = "RUNNING" => OnCpu(p)
    /\ OnCpu(p) => \/ state[p] = "RUNNING"
                   \/ lock[p] /\ state[p] \in {"ZOMBIE", "SLEEPING"}

\* No child is lost.  A process that runs, sleeps or has exited has a parent
\* that can still wait for it: parents that exit hand their children to init,
\* also those that exit at the same time on another CPU (reparent in kexit).
\* And no wakeup is lost between kexit and kwait: a parent asleep in kwait has
\* a child, and none that has exited, except while the exiting process or the
\* one giving it the child is about to wake it.
NoLostChild ==
  /\ \A q \in Procs \ {initproc} : state[q] \notin {"UNUSED", "USED"} =>
       parent[q] # None /\ state[parent[q]] \notin {"UNUSED", "USED", "ZOMBIE"}
  /\ \A p \in Procs : state[p] = "SLEEPING" =>
       /\ \E q \in Procs : parent[q] = p
       /\ (\E q \in Procs : parent[q] = p /\ state[q] = "ZOMBIE") =>
            wait_lock # None /\ At(wait_lock, "wakeup") /\ WakeChan(wait_lock) = p
=============================================================================
