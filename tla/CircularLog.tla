----------------------------- MODULE CircularLog ----------------------------
(***************************************************************************)
(* CircularLogBuffer (Core/Src/circular_log.cpp): the log lines in RAM.    *)
(* write() works with interrupts off and the one thread of the firmware is *)
(* its only caller, so a call is a step.  A line is known by the number of *)
(* its writing, which is m_total; 0 is a slot nothing was written to.      *)
(***************************************************************************)
EXTENDS Naturals, Sequences

CONSTANTS
  MAX_LINES,   \* the number of slots
  MaxTotal     \* bound: the lines that are written

ASSUME LinesAssumption == MAX_LINES \in Nat \ {0} /\ MaxTotal \in Nat

VARIABLES m_buf, m_head, m_count, m_total

logVars == <<m_buf, m_head, m_count, m_total>>

Slots == 0..(MAX_LINES - 1)

LogInit ==
  /\ m_buf = [i \in Slots |-> 0]
  /\ m_head = 0
  /\ m_count = 0
  /\ m_total = 0

\* Mutant: without the modulus.
NextSlotUnbounded(i) == i + 1

\* (m_head + 1) % MAX_LINES
NextSlot(i) == IF i = MAX_LINES - 1 THEN 0 ELSE i + 1

Write ==
  /\ m_total < MaxTotal
  /\ m_total' = m_total + 1
  /\ m_buf' = [m_buf EXCEPT ![m_head] = m_total']
  /\ m_head' = NextSlot(m_head)
  /\ m_count' = IF m_count < MAX_LINES THEN m_count + 1 ELSE m_count

Clear ==
  /\ m_head' = 0
  /\ m_count' = 0
  /\ UNCHANGED <<m_buf, m_total>>

LogNext == Write \/ Clear

LogSpec == LogInit /\ [][LogNext]_logVars

-----------------------------------------------------------------------------
(* Reading *)

OldestSlot == IF m_count = MAX_LINES THEN m_head ELSE 0

\* Mutant: the oldest line is taken to be in slot 0 always.
SlotFromZero(idx) == idx

\* (OldestSlot + idx) % MAX_LINES
Slot(idx) ==
  IF OldestSlot + idx < MAX_LINES THEN OldestSlot + idx ELSE OldestSlot + idx - MAX_LINES

\* getLine() for the indices it accepts, 0 for the oldest.
GetLine(idx) == m_buf[Slot(idx)]

Listing == [i \in 1..m_count |-> GetLine(i - 1)]

-----------------------------------------------------------------------------
(* Properties *)

LogTypeOK ==
  /\ m_buf \in [Slots -> 0..MaxTotal]
  /\ m_head \in Slots
  /\ m_count \in 0..MAX_LINES
  /\ m_total \in 0..MaxTotal
  /\ m_count <= m_total
  /\ m_count < MAX_LINES => m_head = m_count

Rolling == INSTANCE RollingLog WITH
  Capacity <- MAX_LINES, lines <- Listing, written <- m_total

\* README.md:220, the log tab gets the last lines: the ring, its head and its
\* count behave as a list of the last MAX_LINES lines since the last clear,
\* although a clear leaves the old lines in their slots.
KeepsTail == Rolling!Spec
=============================================================================
