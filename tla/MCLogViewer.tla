---------------------------- MODULE MCLogViewer -----------------------------
(* A short log, batches shorter than it, and two connections.                *)
EXTENDS LogViewer, FiniteSets

AllFaults == {"lost", "cleared", "raw"}

\* State constraint: after one event the page does not reckon with, what it shows
\* is not looked at, and LinesAppear is satisfied; a second one adds nothing.
OneOddEvent == Cardinality(odd) <= 1

\* State constraint: a second raw line is no more in the way than the first.
OneRawLine == Cardinality(raw) <= 1
=============================================================================
