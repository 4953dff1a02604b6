--------------------------- MODULE MCStoreForward ---------------------------
(* The fault sets the runs of StoreForward use, and the bounds of the run    *)
(* with every fault: the states beyond them are checked, and go no further.  *)
EXTENDS StoreForward, FiniteSets

AllFaults  == FaultKinds
LiveFaults == {"append", "lostAck"}

\* Damage of one kind.
OneDamage == Cardinality(damage) <= 1

\* The lines of file f that are not the record of a measurement: test sends,
\* saved chunks, pieces.
OtherLines(f) ==
  { i \in 1..Len(content[f]) :
      content[f][i].kind # "object" \/ content[f][i].ids = {} }

\* One such line on the card.
OneOtherLine ==
  \A f, g \in Files : \A i \in OtherLines(f), j \in OtherLines(g) : f = g /\ i = j
=============================================================================
