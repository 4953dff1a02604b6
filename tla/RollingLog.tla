----------------------------- MODULE RollingLog -----------------------------
(***************************************************************************)
(* What the log tab may expect of the log in RAM (README.md:149, 220): the *)
(* last Capacity lines written since it was cleared, oldest first.  A line *)
(* is known by its number.                                                 *)
(***************************************************************************)
EXTENDS Naturals, Sequences

CONSTANT Capacity

VARIABLES
  lines,    \* what a reader sees
  written   \* how many lines have ever been written

vars == <<lines, written>>

Init == lines = <<>> /\ written = 0

Write ==
  /\ written' = written + 1
  /\ lines' = Append(IF Len(lines) < Capacity THEN lines ELSE Tail(lines), written')

Clear == lines' = <<>> /\ UNCHANGED written

Next == Write \/ Clear

Spec == Init /\ [][Next]_vars
=============================================================================
