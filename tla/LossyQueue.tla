----------------------------- MODULE LossyQueue -----------------------------
(***************************************************************************)
(* What the driver of the modem may expect of its receive buffer: a queue  *)
(* of bounded length.  A byte the receiver reports is put at its end, and  *)
(* is lost only if the queue is full or being emptied; the bytes come out  *)
(* in the order they went in, and none comes out twice that did not go in  *)
(* twice (Repeat, which is the interrupt handler's doing).  A byte is      *)
(* known by the number of its arrival.                                     *)
(***************************************************************************)
EXTENDS Naturals, Sequences

CONSTANT Capacity

VARIABLES
  queue,
  received,   \* how many bytes the receiver has reported
  last,       \* the byte taken last, 0 if none
  flushing    \* is the queue being emptied?

vars == <<queue, received, last, flushing>>

Init ==
  /\ queue = <<>>
  /\ received = 0
  /\ last = 0
  /\ flushing = FALSE

Offer(b) ==
  queue' = IF flushing \/ Len(queue) = Capacity THEN queue ELSE Append(queue, b)

Arrive == received' = received + 1 /\ Offer(received') /\ UNCHANGED <<last, flushing>>

Repeat == received > 0 /\ Offer(received) /\ UNCHANGED <<received, last, flushing>>

Take ==
  /\ ~flushing
  /\ queue # <<>>
  /\ last' = Head(queue)
  /\ queue' = Tail(queue)
  /\ UNCHANGED <<received, flushing>>

Flush ==
  /\ queue' = <<>>
  /\ flushing' = TRUE
  /\ UNCHANGED <<received, last>>

EndFlush == flushing /\ flushing' = FALSE /\ UNCHANGED <<queue, received, last>>

Next == Arrive \/ Repeat \/ Take \/ Flush \/ EndFlush

Spec == Init /\ [][Next]_vars
=============================================================================
