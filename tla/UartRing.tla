------------------------------ MODULE UartRing ------------------------------
(***************************************************************************)
(* UartRingBuf (Core/Inc/uart_ringbuf.hpp), filled by USART2_IRQHandler    *)
(* (Core/Src/stm32f4xx_it.c) with what the modem sends and emptied by the  *)
(* main program, which nothing protects against the interrupt: a byte may  *)
(* arrive between any two accesses pop() and clear() make to the indices   *)
(* and the buffer.  The interrupt handler itself is one step, because the  *)
(* main program does not run meanwhile.                                    *)
(*                                                                         *)
(* A byte is known by the number of its arrival.                           *)
(***************************************************************************)
EXTENDS Naturals, Sequences

CONSTANTS
  SIZE,      \* the template parameter
  MaxBytes   \* bound: the bytes that arrive

ASSUME SizeAssumption == SIZE \in Nat \ {0} /\ MaxBytes \in Nat

VARIABLES
  m_buf, m_head, m_tail,
  byte,       \* the caller's variable pop() reads into
  pc,         \* the main program: "idle", inside pop() at "read" or "advance",
              \* or inside clear(), where m_tail is 0 already, at "clear"
  received,   \* how many bytes the receiver has reported; the last is in DR
  overrun,    \* has an overrun been reported since?
  last        \* history: what the last successful pop() returned, 0 if none

ring == <<m_buf, m_head, m_tail>>
vars == <<ring, byte, pc, received, overrun, last>>

Slots == 0..(SIZE - 1)

\* Mutant: without the modulus.
SuccUnbounded(i) == i + 1

\* (i + 1) % SIZE
Succ(i) == IF i = SIZE - 1 THEN 0 ELSE i + 1

Init ==
  /\ m_buf = [i \in Slots |-> 0]
  /\ m_head = 0
  /\ m_tail = 0
  /\ byte = 0
  /\ pc = "idle"
  /\ received = 0
  /\ overrun = FALSE
  /\ last = 0

-----------------------------------------------------------------------------
(* The interrupt *)

\* Mutant: no test for a full buffer.
PushOver(b) ==
  /\ m_buf' = [m_buf EXCEPT ![m_head] = b]
  /\ m_head' = Succ(m_head)
  /\ UNCHANGED m_tail

Push(b) ==
  /\ IF Succ(m_head) # m_tail
       THEN /\ m_buf' = [m_buf EXCEPT ![m_head] = b]
            /\ m_head' = Succ(m_head)
       ELSE UNCHANGED <<m_buf, m_head>>
  /\ UNCHANGED m_tail

\* RXNE: a byte is in DR.
ReceiveByte ==
  /\ received < MaxBytes
  /\ received' = received + 1
  /\ overrun' = FALSE
  /\ Push(received')
  /\ UNCHANGED <<byte, pc, last>>

\* ORE without RXNE: the receiver finished a byte while DR was being read, and
\* lost it.  DR still holds the byte before it, which the handler puts into the
\* buffer once more.
Overrun ==
  /\ received > 0 /\ ~overrun
  /\ overrun' = TRUE
  /\ Push(received)
  /\ UNCHANGED <<byte, pc, received, last>>

-----------------------------------------------------------------------------
(* The main program *)

\* pop() and empty() on an empty buffer change nothing.
PopCheck ==
  /\ pc = "idle"
  /\ m_tail # m_head
  /\ pc' = "read"
  /\ UNCHANGED <<ring, byte, received, overrun, last>>

PopRead ==
  /\ pc = "read"
  /\ byte' = m_buf[m_tail]
  /\ pc' = "advance"
  /\ UNCHANGED <<ring, received, overrun, last>>

PopAdvance ==
  /\ pc = "advance"
  /\ m_tail' = Succ(m_tail)
  /\ last' = byte
  /\ pc' = "idle"
  /\ UNCHANGED <<m_buf, m_head, byte, received, overrun>>

\* m_head = m_tail = 0 assigns m_tail first.
ClearTail ==
  /\ pc = "idle"
  /\ m_tail' = 0
  /\ pc' = "clear"
  /\ UNCHANGED <<m_buf, m_head, byte, received, overrun, last>>

\* Mutant: clear() sets m_tail only.
ClearKeepsHead ==
  /\ pc = "clear"
  /\ pc' = "idle"
  /\ UNCHANGED <<ring, byte, received, overrun, last>>

ClearHead ==
  /\ pc = "clear"
  /\ m_head' = 0
  /\ pc' = "idle"
  /\ UNCHANGED <<m_buf, m_tail, byte, received, overrun, last>>

-----------------------------------------------------------------------------
Interrupt == ReceiveByte \/ Overrun
Pop == PopCheck \/ PopRead \/ PopAdvance
Clear == ClearTail \/ ClearHead

Next == Interrupt \/ Pop \/ Clear

Spec == Init /\ [][Next]_vars

-----------------------------------------------------------------------------
(* Properties *)

TypeOK ==
  /\ m_buf \in [Slots -> 0..received]
  /\ m_head \in Slots
  /\ m_tail \in Slots
  /\ byte \in 0..received
  /\ pc \in {"idle", "read", "advance", "clear"}
  /\ received \in 0..MaxBytes
  /\ overrun \in BOOLEAN
  /\ last \in 0..received

\* uart_ringbuf.hpp:29: pop() never goes back: it returns no byte that arrived
\* before the one it returned last, whatever came between its steps or those of
\* clear(), and it never returns a slot that was never filled.
InOrder == [][ pc = "advance" => last' >= last /\ last' > 0 ]_<<last, m_tail>>

\* How many bytes the buffer holds, and the place of the i-th of them.
Count == IF m_head >= m_tail THEN m_head - m_tail ELSE m_head + SIZE - m_tail
Place(i) == IF m_tail + i - 1 >= SIZE THEN m_tail + i - 1 - SIZE ELSE m_tail + i - 1

Contents == IF pc = "clear" THEN <<>> ELSE [ i \in 1..Count |-> m_buf[Place(i)] ]

Queue == INSTANCE LossyQueue WITH
           Capacity <- SIZE - 1, queue <- Contents, flushing <- (pc = "clear")

\* Lost is only what finds SIZE - 1 bytes in the buffer or arrives inside
\* clear(); the rest comes out in order, and once.
ImplementsQueue == Queue!Spec
=============================================================================
