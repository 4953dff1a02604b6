--------------------------- MODULE MeasurementLog ---------------------------
(***************************************************************************)
(* What the store-and-forward pipeline promises to the outside, without    *)
(* files, chunks, retries or resets: measurements of each source are taken *)
(* one by one, and what the server holds of a source is at every moment a  *)
(* prefix of them.  A prefix may arrive again; it never shrinks.           *)
(*                                                                         *)
(* Some events spoil the order for good; intact says that none has         *)
(* happened.  Even then the server never loses what it holds, and it holds *)
(* nothing that was not measured.                                          *)
(***************************************************************************)
EXTENDS Naturals

CONSTANT Sources

VARIABLES
  taken,   \* taken[s]: how many measurements of s have been made
  got,     \* got[s]: the measurements of s the server holds
  intact   \* no spoiling event has happened

logVars == <<taken, got, intact>>

Init ==
  /\ taken = [s \in Sources |-> 0]
  /\ got = [s \in Sources |-> {}]
  /\ intact = TRUE

Take(s) ==
  /\ intact
  /\ taken' = [taken EXCEPT ![s] = @ + 1]
  /\ UNCHANGED <<got, intact>>

Receive(s) ==
  /\ intact
  /\ \E n \in 1..taken[s] : got' = [got EXCEPT ![s] = @ \union 1..n]
  /\ UNCHANGED <<taken, intact>>

Spoiled ==
  /\ intact' = FALSE
  /\ \A s \in Sources :
       /\ taken[s] <= taken'[s]
       /\ got[s] \subseteq got'[s]
       /\ got'[s] \subseteq 1..taken'[s]

Next == Spoiled \/ \E s \in Sources : Take(s) \/ Receive(s)

Spec == Init /\ [][Next]_logVars
=============================================================================
