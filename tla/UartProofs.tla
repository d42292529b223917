----------------------------- MODULE UartProofs -----------------------------
(***************************************************************************)
(* Proof that console output is never written to a full transmitter, for   *)
(* any number of processes and CPUs, any length of a write and any FIFO    *)
(* with room for one more character than there are CPUs.                   *)
(***************************************************************************)
EXTENDS Uart, FiniteSetTheorems, TLAPS

\* tx_busy as the number of characters uartwrite may have in the FIFO.
Sent == IF tx_busy THEN 1 ELSE 0

\* The characters in the FIFO and those about to follow are at most one for
\* each CPU and one for uartwrite.  A CPU that has seen the FIFO empty counts
\* before it writes: that is what makes the bound inductive.
OneEach ==
  /\ fifo \in Nat /\ polled \subseteq Pollers /\ tx_busy \in BOOLEAN
  /\ fifo + Cardinality(polled) <= Cardinality(Pollers) + Sent
  /\ lost = FALSE

-----------------------------------------------------------------------------
\* The number of CPUs between reading LSR and writing THR, as they come and go.
LEMMA PolledCount ==
  ASSUME IsFiniteSet(Pollers), polled \subseteq Pollers
  PROVE  /\ Cardinality(Pollers) \in Nat /\ Cardinality(polled) \in Nat
         /\ Cardinality(polled) <= Cardinality(Pollers)
         /\ \A c \in polled : /\ Cardinality(polled \ {c}) = Cardinality(polled) - 1
                              /\ Cardinality(polled) >= 1
<1>1. IsFiniteSet(polled)
  BY FS_Subset
<1>2. Cardinality(polled) <= Cardinality(Pollers)
  BY FS_Subset
<1>3. Cardinality(Pollers) \in Nat /\ Cardinality(polled) \in Nat
  BY <1>1, FS_CardinalityType
<1>4. ASSUME NEW c \in polled
      PROVE  Cardinality(polled \ {c}) = Cardinality(polled) - 1 /\ Cardinality(polled) >= 1
  <2>1. IsFiniteSet(polled \ {c}) /\ Cardinality(polled \ {c}) = Cardinality(polled) - 1
    BY <1>1, FS_RemoveElement
  <2>2. Cardinality(polled \ {c}) \in Nat
    BY <2>1, FS_CardinalityType
  <2> QED BY <2>1, <2>2, <1>3
<1> QED BY <1>2, <1>3, <1>4

\* Initially the FIFO is empty and nobody has looked at it (uartinit).
LEMMA OneEachInit ==
  ASSUME UartAssumption, Init
  PROVE  OneEach
<1>1. Cardinality(Pollers) \in Nat /\ Cardinality({}) = 0
  BY FS_CardinalityType, FS_EmptySet DEF UartAssumption
<1>2. fifo = 0 /\ polled = {} /\ tx_busy = FALSE /\ lost = FALSE
  BY DEF Init
<1>3. Sent = 0
  BY <1>2 DEF Sent
<1>4. fifo + Cardinality(polled) <= Cardinality(Pollers) + Sent
  BY <1>1, <1>2, <1>3
<1> QED BY <1>2, <1>4, Zenon DEF OneEach

\* A character written while fewer than Depth are in the FIFO is not lost.
LEMMA WriteFits ==
  ASSUME WriteTHR, fifo \in Nat, Depth \in Nat, fifo < Depth, lost = FALSE
  PROVE  fifo' = fifo + 1 /\ lost' = FALSE
<1>1. fifo # Depth
  OBVIOUS
<1>2. lost' = (lost \/ fifo = Depth)
  BY DEF WriteTHR
<1>3. lost' = FALSE
  BY <1>1, <1>2, Zenon
<1> QED BY <1>3 DEF WriteTHR

\* Every step of uartwrite, uartputc_sync, uartintr and the device keeps it.
LEMMA OneEachStep ==
  ASSUME UartAssumption, OneEach, [Next]_vars
  PROVE  OneEach'
<1> USE DEF OneEach, Sent
<1>0. /\ Cardinality(Pollers) \in Nat /\ Depth \in Nat /\ IsFiniteSet(Pollers)
      /\ Depth > Cardinality(Pollers)
  BY FS_CardinalityType DEF UartAssumption
<1>1. /\ Cardinality(polled) \in Nat /\ Cardinality(polled) <= Cardinality(Pollers)
      /\ \A c \in polled : /\ Cardinality(polled \ {c}) = Cardinality(polled) - 1
                           /\ Cardinality(polled) >= 1
  BY <1>0, PolledCount
<1>2. ASSUME NEW p \in Procs, Acquire(p) \/ Sleep(p) \/ Release(p) PROVE OneEach'
  BY <1>2 DEF Acquire, Sleep, Release
<1>3. ASSUME NEW p \in Procs, Send(p) PROVE OneEach'
  <2>1. ~tx_busy /\ WriteTHR /\ tx_busy' = TRUE /\ polled' = polled
    BY <1>3 DEF Send, Busy
  <2>2. fifo < Depth
    BY <2>1, <1>0, <1>1
  <2>3. fifo' = fifo + 1 /\ lost' = FALSE
    BY <2>1, <2>2, <1>0, WriteFits, Zenon
  <2> QED BY <2>1, <2>3, <1>0, <1>1
<1>4. ASSUME NEW c \in Pollers, Poll(c) PROVE OneEach'
  <2>1. polled' \subseteq Pollers /\ fifo' = 0 /\ tx_busy' = tx_busy /\ lost' = lost
    BY <1>4 DEF Poll
  <2>2. Cardinality(polled') \in Nat /\ Cardinality(polled') <= Cardinality(Pollers)
    BY <2>1, <1>0, FS_Subset, FS_CardinalityType
  <2> QED BY <2>1, <2>2, <1>0
<1>5. ASSUME NEW c \in Pollers, Put(c) PROVE OneEach'
  <2>1. c \in polled /\ polled' = polled \ {c} /\ WriteTHR /\ tx_busy' = tx_busy
    BY <1>5 DEF Put
  <2>2. Cardinality(polled') = Cardinality(polled) - 1 /\ Cardinality(polled) >= 1
    BY <2>1, <1>1
  <2>3. fifo < Depth
    BY <2>2, <1>0, <1>1
  <2>4. fifo' = fifo + 1 /\ lost' = FALSE
    BY <2>1, <2>3, <1>0, WriteFits, Zenon
  <2> QED BY <2>1, <2>2, <2>4, <1>0, <1>1
<1>6. ASSUME Transmit PROVE OneEach'
  BY <1>6, <1>0, <1>1 DEF Transmit
<1>7. ASSUME IntrAck \/ Receive PROVE OneEach'
  BY <1>7 DEF IntrAck, Receive
<1>8. ASSUME uartintr PROVE OneEach'
  <2>1. UNCHANGED <<polled, fifo, lost>>
    BY <1>8 DEF uartintr
  <2>2. CASE fifo = 0
    <3>1. tx_busy' = FALSE
      BY <1>8, <2>2 DEF uartintr
    <3>2. Sent' = 0
      BY <3>1
    <3>3. fifo' + Cardinality(polled') <= Cardinality(Pollers) + Sent'
      BY <2>1, <2>2, <3>2, <1>0, <1>1
    <3> QED BY <2>1, <3>1, <3>3, Zenon
  <2>3. CASE fifo # 0
    BY <1>8, <2>1, <2>3 DEF uartintr
  <2> QED BY <2>2, <2>3, Zenon
<1>9. ASSUME UNCHANGED vars PROVE OneEach'
  BY <1>9 DEF vars
<1> QED BY <1>2, <1>3, <1>4, <1>5, <1>6, <1>7, <1>8, <1>9, Zenon DEF Next

\* uartwrite, which does not look at the device before it writes THR, and
\* uartputc_sync, which takes no lock, together never overrun the FIFO.
THEOREM NeverOverrun ==
  ASSUME UartAssumption
  PROVE  Spec => []NoOverrun
<1>1. Init => OneEach
  BY OneEachInit
<1>2. OneEach /\ [Next]_vars => OneEach'
  BY OneEachStep
<1>3. OneEach => NoOverrun
  BY DEF OneEach, NoOverrun
<1> QED BY <1>1, <1>2, <1>3, PTL DEF Spec
=============================================================================
