-------------------------------- MODULE Trap --------------------------------
(***************************************************************************)
(* Interrupts, spinlocks and context switches (kernel/trap.c, spinlock.c,  *)
(* scheduler, sched, sleep and wakeup of proc.c, sys_pause of sysproc.c).  *)
(*                                                                         *)
(* The interrupt flag, noff and intena belong to a CPU; the kernel threads *)
(* that depend on them move from CPU to CPU.  code[t] is what the kernel   *)
(* thread t still has to do, one instruction per access to a lock, to the  *)
(* flags or to shared data; a thread's code is empty in user space.  An    *)
(* interrupt puts its handler in front of the code of the thread it finds. *)
(* The only interrupt is the timer's.  wfi has no effect.                  *)
(***************************************************************************)
EXTENDS Integers, Sequences, FiniteSets, SequencesExt

CONSTANTS
  Procs,   \* processes; each has a kernel thread
  CPUs,    \* each has a scheduler thread of the same name
  Cpu0,    \* the CPU that counts ticks
  Waits,   \* arguments of pause()
  WORD,    \* ticks is modulo WORD (2^32 in C)
  NULL

ASSUME TrapAssumption ==
  /\ Cpu0 \in CPUs /\ Procs \cap CPUs = {} /\ NULL \notin CPUs \cup Procs
  /\ Waits \subseteq 1..(WORD - 1)

Locks == Procs \cup {"tickslock"}   \* p->lock of every process, and tickslock

VARIABLES
  sie, noff, intena,   \* of each CPU: interrupts on, and struct cpu
  thread,              \* of each CPU: the kernel thread it runs
  code,                \* of each thread
  lk,                  \* of each lock: the CPU that holds it, or NULL
  state,               \* p->state
  saved,               \* of each process: the local intena of sched
  ticks, ticks0,       \* the counter, and sys_pause's first look at it
  found,               \* of each CPU: the local found of scheduler
  panicked

cpuvars == <<sie, noff, intena>>
vars == <<sie, noff, intena, thread, code, lk, state, saved, ticks, ticks0, found, panicked>>

-----------------------------------------------------------------------------
(* The code of the kernel's functions.                                     *)

I(op, arg) == <<[op |-> op, arg |-> arg]>>

acquire(l) == I("push_off", NULL) \o I("swap", l)
release(l) == I("release", l)

\* Concatenate F(p) over the process table.
EachProc(F(_)) == FlattenSeq([i \in 1..Cardinality(Procs) |-> F(SetToSeq(Procs)[i])])

\* Fault: the flag of another thread's critical section is kept.
sched_Forgets == I("swtch", NULL)

sched == I("swtch", NULL) \o I("restore", NULL)

killed(p) == acquire(p) \o release(p)

yield(p) == acquire(p) \o I("state", "RUNNABLE") \o sched \o release(p)

\* Fault: tickslock is kept.
sleep_Keeps(p) == acquire(p) \o I("state", "SLEEPING") \o sched \o release(p)

\* sleep(&ticks, &tickslock)
sleep(p) ==
  acquire(p) \o release("tickslock") \o I("state", "SLEEPING") \o sched
    \o release(p) \o acquire("tickslock")

\* wakeup(&ticks) by the thread t, which may be no process
wakeup(t) ==
  LET One(q) == IF q = t THEN <<>> ELSE acquire(q) \o I("wake", q) \o release(q)
  IN EachProc(One)

clockintr(c, t) ==
  IF c = Cpu0
  THEN acquire("tickslock") \o I("tick", NULL) \o wakeup(t) \o release("tickslock")
  ELSE <<>>

scan == LET One(p) == acquire(p) \o I("dispatch", p) \o release(p) IN EachProc(One)

\* Fault: interrupts stay on during the search.
scheduler_StaysOn == I("intr_on", NULL) \o scan

\* One round of the scheduler over the table.
scheduler == I("intr_on", NULL) \o I("intr_off", NULL) \o scan

\* forkret, and prepare_return
forkret(p) == release(p) \o I("intr_off", NULL) \o I("sret", "fork")

\* usertrap for a timer interrupt and for sys_pause
usertimer(c, p) ==
  clockintr(c, p) \o killed(p) \o yield(p) \o I("intr_off", NULL) \o I("sret", "timer")

userpause(p, n) ==
  killed(p) \o I("intr_on", NULL) \o acquire("tickslock") \o I("ticks0", NULL)
    \o I("while", n) \o release("tickslock") \o killed(p)
    \o I("intr_off", NULL) \o I("sret", "syscall")

kerneltrap(c, t) ==
  clockintr(c, t) \o (IF t \in Procs THEN yield(t) ELSE <<>>) \o I("kret", NULL)

-----------------------------------------------------------------------------
Init ==
  /\ sie = [c \in CPUs |-> FALSE] /\ noff = [c \in CPUs |-> 0]
  /\ intena = [c \in CPUs |-> FALSE]
  /\ thread = [c \in CPUs |-> c]
  /\ code = [t \in Procs \cup CPUs |-> IF t \in CPUs THEN scheduler ELSE forkret(t)]
  /\ lk = [l \in Locks |-> NULL]
  /\ state = [p \in Procs |-> "RUNNABLE"] /\ saved = [p \in Procs |-> FALSE]
  /\ ticks = 0 /\ ticks0 = [p \in Procs |-> 0]
  /\ found = [c \in CPUs |-> FALSE] /\ panicked = FALSE

InUser(c) == code[thread[c]] = <<>>
Next1(c) == Head(code[thread[c]])
At(c, op) == ~panicked /\ ~InUser(c) /\ Next1(c).op = op

\* The thread goes on with more, then with what followed this instruction.
Continue(c, more) == code' = [code EXCEPT ![thread[c]] = more \o Tail(@)]
Done(c) == Continue(c, <<>>)

\* Either the check holds and the step is taken, or the kernel panics.
Unless(bad, step) ==
  \/ bad /\ panicked' = TRUE /\ UNCHANGED <<cpuvars, thread, code, lk, state, saved, ticks, ticks0, found>>
  \/ ~bad /\ step /\ UNCHANGED panicked

-----------------------------------------------------------------------------
(* Instructions.                                                           *)

push_off(c) ==
  /\ At(c, "push_off")
  /\ sie' = [sie EXCEPT ![c] = FALSE]
  /\ intena' = [intena EXCEPT ![c] = IF noff[c] = 0 THEN sie[c] ELSE @]
  /\ noff' = [noff EXCEPT ![c] = @ + 1]
  /\ Done(c)
  /\ UNCHANGED <<thread, lk, state, saved, ticks, ticks0, found, panicked>>

\* The atomic swap of acquire succeeds, or the CPU holds the lock already.
Swap(c) ==
  LET l == Next1(c).arg IN
  /\ At(c, "swap") /\ lk[l] \in {NULL, c}
  /\ Unless(lk[l] = c,
       /\ lk' = [lk EXCEPT ![l] = c] /\ Done(c)
       /\ UNCHANGED <<cpuvars, thread, state, saved, ticks, ticks0, found>>)

\* Fault: interrupts come back on at the first of nested releases.
pop_off_Early(c) ==
  /\ noff' = [noff EXCEPT ![c] = @ - 1]
  /\ sie' = [sie EXCEPT ![c] = intena[c]]

pop_off(c) ==
  /\ noff' = [noff EXCEPT ![c] = @ - 1]
  /\ sie' = [sie EXCEPT ![c] = noff[c] = 1 /\ intena[c]]

\* release, with pop_off
Release(c) ==
  LET l == Next1(c).arg IN
  /\ At(c, "release")
  /\ Unless(lk[l] # c \/ sie[c] \/ noff[c] < 1,
       /\ lk' = [lk EXCEPT ![l] = NULL]
       /\ pop_off(c) /\ Done(c)
       /\ UNCHANGED <<intena, thread, state, saved, ticks, ticks0, found>>)

\* intr_on, intr_off, and the returns from a trap, which turn interrupts on.
Flag(c) ==
  /\ ~panicked /\ ~InUser(c) /\ Next1(c).op \in {"intr_on", "intr_off", "sret", "kret"}
  /\ sie' = [sie EXCEPT ![c] = Next1(c).op # "intr_off"]
  /\ Done(c)
  /\ UNCHANGED <<noff, intena, thread, lk, state, saved, ticks, ticks0, found, panicked>>

\* sched checks and gives the CPU to its scheduler.
Swtch(c) ==
  LET p == thread[c] IN
  /\ At(c, "swtch")
  /\ Unless(lk[p] # c \/ noff[c] # 1 \/ state[p] = "RUNNING" \/ sie[c],
       /\ saved' = [saved EXCEPT ![p] = intena[c]]
       /\ thread' = [thread EXCEPT ![c] = c] /\ Done(c)
       /\ UNCHANGED <<cpuvars, lk, state, ticks, ticks0, found>>)

\* The end of sched: mycpu()->intena = intena.
Restore(c) ==
  /\ At(c, "restore")
  /\ intena' = [intena EXCEPT ![c] = saved[thread[c]]]
  /\ Done(c)
  /\ UNCHANGED <<sie, noff, thread, lk, state, saved, ticks, ticks0, found, panicked>>

Dispatch(c) ==
  LET p == Next1(c).arg IN
  /\ At(c, "dispatch")
  /\ IF state[p] = "RUNNABLE"
     THEN /\ state' = [state EXCEPT ![p] = "RUNNING"]
          /\ thread' = [thread EXCEPT ![c] = p]
          /\ found' = [found EXCEPT ![c] = TRUE]
     ELSE UNCHANGED <<state, thread, found>>
  /\ Done(c)
  /\ UNCHANGED <<cpuvars, lk, saved, ticks, ticks0, panicked>>

\* The scheduler's outer loop.
Again(c) ==
  /\ ~panicked /\ thread[c] = c /\ code[c] = <<>>
  /\ code' = [code EXCEPT ![c] = scheduler]
  /\ found' = [found EXCEPT ![c] = FALSE]
  /\ UNCHANGED <<cpuvars, thread, lk, state, saved, ticks, ticks0, panicked>>

SetState(c) ==
  /\ At(c, "state")
  /\ state' = [state EXCEPT ![thread[c]] = Next1(c).arg]
  /\ Done(c)
  /\ UNCHANGED <<cpuvars, thread, lk, saved, ticks, ticks0, found, panicked>>

Wake(c) ==
  /\ At(c, "wake")
  /\ state' = [state EXCEPT ![Next1(c).arg] = IF @ = "SLEEPING" THEN "RUNNABLE" ELSE @]
  /\ Done(c)
  /\ UNCHANGED <<cpuvars, thread, lk, saved, ticks, ticks0, found, panicked>>

Tick(c) ==
  /\ At(c, "tick")
  /\ ticks' = (ticks + 1) % WORD
  /\ Done(c)
  /\ UNCHANGED <<cpuvars, thread, lk, state, saved, ticks0, found, panicked>>

Ticks0(c) ==
  /\ At(c, "ticks0")
  /\ ticks0' = [ticks0 EXCEPT ![thread[c]] = ticks]
  /\ Done(c)
  /\ UNCHANGED <<cpuvars, thread, lk, state, saved, ticks, found, panicked>>

\* The loop of sys_pause.
While(c) ==
  LET p == thread[c]
      n == Next1(c).arg
  IN
  /\ At(c, "while")
  /\ Continue(c, IF (ticks - ticks0[p]) % WORD < n THEN killed(p) \o sleep(p) \o I("while", n) ELSE <<>>)
  /\ UNCHANGED <<cpuvars, thread, lk, state, saved, ticks, ticks0, found, panicked>>

-----------------------------------------------------------------------------
(* Traps.                                                                  *)

EnterTrap(c, handler) ==
  /\ ~panicked
  /\ sie' = [sie EXCEPT ![c] = FALSE]
  /\ code' = [code EXCEPT ![thread[c]] = handler \o @]
  /\ UNCHANGED <<noff, intena, thread, lk, state, saved, ticks, ticks0, found, panicked>>

\* A timer interrupt, in user space or in the kernel.
Timer(c) ==
  LET t == thread[c] IN
  /\ sie[c] /\ (t \in Procs \/ ~InUser(c))
  /\ EnterTrap(c, IF InUser(c) THEN usertimer(c, t) ELSE kerneltrap(c, t))

sys_pause(c, n) ==
  /\ thread[c] \in Procs /\ InUser(c)
  /\ EnterTrap(c, userpause(thread[c], n))

Step(c) ==
  \/ push_off(c) \/ Swap(c) \/ Release(c) \/ Flag(c)
  \/ Swtch(c) \/ Restore(c) \/ Dispatch(c) \/ Again(c)
  \/ SetState(c) \/ Wake(c) \/ Tick(c) \/ Ticks0(c) \/ While(c)

Next == \E c \in CPUs : Step(c) \/ Timer(c) \/ \E n \in Waits : sys_pause(c, n)

Spec == Init /\ [][Next]_vars

-----------------------------------------------------------------------------
(* Properties.                                                             *)

\* noff counts the critical sections the CPU is in, although a section is
\* entered by the scheduler and left by the thread it switches to, or the other
\* way round, and perhaps on another CPU; so interrupts are off in all of them.
\* And none of the kernel's own checks fails: a CPU never waits for a lock it
\* holds, as an interrupt handler would for ever, never releases another's
\* (acquire, release, pop_off), and no thread gives up the CPU with another
\* lock held (sched).
NoffExact ==
  /\ ~panicked
  /\ \A c \in CPUs :
       /\ noff[c] = Cardinality({l \in Locks : lk[l] = c}) + (IF At(c, "swap") THEN 1 ELSE 0)
       /\ sie[c] => noff[c] = 0

\* The instructions the thread of c has still to execute.
Pending(c) == {code[thread[c]][i].op : i \in DOMAIN code[thread[c]]}

\* Outside critical sections, the process that CPU c runs is to be
\* interruptible: in user space, and in a system call once usertrap has turned
\* interrupts on, but not in a handler.
Interruptible(c) ==
  \/ InUser(c)
  \/ /\ Last(code[thread[c]]).arg = "syscall"
     /\ "intr_off" \in Pending(c) /\ Pending(c) \cap {"intr_on", "kret"} = {}

\* The interrupt flag follows the process: outside critical sections it is what
\* the process is to have, and inside them intena, which the last pop_off puts
\* back, is; whatever other threads did on this CPU, and on whichever CPU this
\* process was, since it last ran (sched's local intena).
FlagFollowsProcess ==
  \A c \in CPUs :
    thread[c] \in Procs /\ (InUser(c) \/ Last(code[thread[c]]).arg # "fork") =>
      IF noff[c] = 0 THEN sie[c] = Interruptible(c)
      ELSE At(c, "restore") \/ intena[c] = Interruptible(c)

\* The scheduler takes no interrupt between looking for a process to run and
\* wfi, "to avoid a possible race between an interrupt and wfi": a process it
\* ran may leave interrupts on, but then it has found one and does not wait.
NoRaceWithWfi ==
  \A c \in CPUs : thread[c] = c /\ ~found[c] =>
    (sie[c] \/ "kret" \in Pending(c) => "intr_off" \in Pending(c))
=============================================================================
