-------------------------------- MODULE Uart --------------------------------
(***************************************************************************)
(* Console output (kernel/uart.c): write() system calls send through       *)
(* uartwrite, which waits for interrupts, while printf and echoing poll    *)
(* the device in uartputc_sync and take no notice of tx_lock or tx_busy.   *)
(*                                                                         *)
(* Characters are only counted.  The device, which is external, has a FIFO *)
(* of Depth characters (uartinit enables it); it interrupts when the FIFO  *)
(* becomes empty.  Reading ISR and writing THR clear the interrupt.  It    *)
(* also interrupts for received characters, which Console is about; here   *)
(* they only make uartintr run at any time.                                *)
(***************************************************************************)
EXTENDS Integers, FiniteSets

CONSTANTS
  Procs,    \* processes that call uartwrite
  Pollers,  \* CPUs that call uartputc_sync
  Depth,
  N,        \* characters of a uartwrite
  NULL

ASSUME UartAssumption ==
  /\ Depth \in Nat /\ N \in Nat /\ Depth > Cardinality(Pollers)
  /\ NULL \notin Procs /\ IsFiniteSet(Pollers)

VARIABLES
  tx_busy,
  tx_lock,   \* the process in uartwrite that holds it, or NULL
  pc,        \* of each process: [at, i]
  polled,    \* pollers that have seen the FIFO empty and not yet written
  fifo,      \* device: characters in the FIFO
  irq,       \* device: the transmit interrupt is pending
  intr,      \* uartintr has acknowledged an interrupt but not yet looked
  lost       \* characters written to a full FIFO

vars == <<tx_busy, tx_lock, pc, polled, fifo, irq, intr, lost>>

Idle == [at |-> "idle", i |-> 0]

Init ==
  /\ tx_busy = FALSE /\ tx_lock = NULL /\ pc = [p \in Procs |-> Idle]
  /\ polled = {} /\ fifo = 0 /\ irq = FALSE /\ intr = FALSE /\ lost = FALSE

At(p, at) == pc[p].at = at

\* WriteReg(THR, c)
WriteTHR ==
  /\ fifo' = IF fifo < Depth THEN fifo + 1 ELSE fifo
  /\ lost' = (lost \/ fifo = Depth)
  /\ irq' = FALSE

-----------------------------------------------------------------------------
(* uartwrite                                                               *)

Acquire(p) ==
  /\ pc[p].at \in {"idle", "woken"} /\ tx_lock = NULL
  /\ tx_lock' = p
  /\ pc' = [pc EXCEPT ![p].at = "write"]
  /\ UNCHANGED <<tx_busy, polled, fifo, irq, intr, lost>>

More(p) == pc[p].i < N

Sleep(p) ==
  /\ At(p, "write") /\ More(p) /\ tx_busy
  /\ tx_lock' = NULL
  /\ pc' = [pc EXCEPT ![p].at = "asleep"]
  /\ UNCHANGED <<tx_busy, polled, fifo, irq, intr, lost>>

\* Fault: tx_busy is not set.
Busy_Not == FALSE

Busy == TRUE

Send(p) ==
  /\ At(p, "write") /\ More(p) /\ ~tx_busy
  /\ WriteTHR
  /\ tx_busy' = Busy
  /\ pc' = [pc EXCEPT ![p].i = @ + 1]
  /\ UNCHANGED <<tx_lock, polled, intr>>

Release(p) ==
  /\ At(p, "write") /\ ~More(p)
  /\ tx_lock' = NULL /\ pc' = [pc EXCEPT ![p] = Idle]
  /\ UNCHANGED <<tx_busy, polled, fifo, irq, intr, lost>>

-----------------------------------------------------------------------------
(* uartputc_sync                                                           *)

Poll(c) ==
  /\ c \notin polled /\ fifo = 0
  /\ polled' = polled \cup {c}
  /\ UNCHANGED <<tx_busy, tx_lock, pc, fifo, irq, intr, lost>>

Put(c) ==
  /\ c \in polled
  /\ polled' = polled \ {c}
  /\ WriteTHR
  /\ UNCHANGED <<tx_busy, tx_lock, pc, intr>>

-----------------------------------------------------------------------------
(* The device, and uartintr                                                *)

Transmit ==
  /\ fifo > 0
  /\ fifo' = fifo - 1
  /\ irq' = (irq \/ fifo' = 0)
  /\ UNCHANGED <<tx_busy, tx_lock, pc, polled, intr, lost>>

IntrAck ==
  /\ irq /\ ~intr
  /\ irq' = FALSE /\ intr' = TRUE
  /\ UNCHANGED <<tx_busy, tx_lock, pc, polled, fifo, lost>>

\* The interrupt is for a received character, which the device reports first: a
\* pending transmit interrupt stays.
Receive ==
  /\ ~intr
  /\ intr' = TRUE
  /\ UNCHANGED <<tx_busy, tx_lock, pc, polled, fifo, irq, lost>>

\* Fault: tx_busy is cleared and nobody is woken.
Wake_Nobody == pc

\* wakeup(&tx_chan)
Wake == [p \in Procs |-> IF At(p, "asleep") THEN [pc[p] EXCEPT !.at = "woken"] ELSE pc[p]]

\* Under tx_lock: look at the device again, which a poller may have fed since.
uartintr ==
  /\ intr /\ tx_lock = NULL
  /\ intr' = FALSE
  /\ IF fifo = 0 THEN tx_busy' = FALSE /\ pc' = Wake ELSE UNCHANGED <<tx_busy, pc>>
  /\ UNCHANGED <<tx_lock, polled, fifo, irq, lost>>

-----------------------------------------------------------------------------
Next ==
  \/ \E p \in Procs : Acquire(p) \/ Sleep(p) \/ Send(p) \/ Release(p)
  \/ \E c \in Pollers : Poll(c) \/ Put(c)
  \/ Transmit \/ IntrAck \/ Receive \/ uartintr

\* The device sends, interrupts are delivered, and processes run and get the
\* lock, which is free again and again.
Fairness ==
  /\ WF_vars(Transmit) /\ SF_vars(IntrAck) /\ SF_vars(uartintr)
  /\ \A p \in Procs : /\ SF_vars(At(p, "woken") /\ Acquire(p))
                      /\ WF_vars(Sleep(p)) /\ WF_vars(Send(p)) /\ WF_vars(Release(p))
  /\ \A c \in Pollers : WF_vars(Put(c))

Spec == Init /\ [][Next]_vars /\ Fairness

-----------------------------------------------------------------------------
(* Properties.                                                             *)

\* No character is lost although uartwrite writes THR without looking at the
\* device and every CPU may do so after having looked: one character per CPU
\* and one of uartwrite are all that can be in the FIFO.
NoOverrun == ~lost

\* Once the pollers leave the device alone, every uartwrite comes to its end,
\* unless others keep taking its turn: a poller that clears the pending
\* interrupt, or makes the device busy again before uartintr looks, cannot
\* leave tx_busy set or a writer asleep for ever.
WritesEnd ==
  <>[](polled = {}) =>
    \A p \in Procs : []<>(At(p, "idle") \/ \E q \in Procs \ {p} : At(q, "write"))
=============================================================================
