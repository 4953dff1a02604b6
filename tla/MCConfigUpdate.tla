--------------------------- MODULE MCConfigUpdate ---------------------------
(* The texts and the fault sets the runs of ConfigUpdate use: one key, two    *)
(* keys in both orders, a text that fills the buffer, one that is too long,   *)
(* and intervals.                                                             *)
EXTENDS ConfigUpdate

Set(k, v) == [key |-> k, val |-> v]
SomeTexts ==
  { <<Set("head", 1)>>, <<Set("head", 0)>>, <<Set("tail", 1)>>,
    <<Set("head", 1), Set("tail", 1)>>, <<Set("tail", 0), Set("head", 0)>>,
    <<Set("tail", 1), Set("head", 0), Set("head", 1)>>,
    <<Set("head", 1), Set("tail", 0), Set("head", 1), Set("tail", 1)>> }

\* Intervals: as the web page sets them, exact ones, one without the other, and
\* a sending time that does not fit in 16 bits.
Intervals ==
  { <<Set("poll_interval_s", 10), Set("send_interval_s", 60)>>,
    <<Set("poll_interval_sec", 30), Set("send_interval_polls", 4)>>,
    <<Set("poll_interval_s", 90)>>,
    <<Set("poll_interval_s", 3600), Set("send_interval_s", 86400)>> }

\* Also a list too long for the buffer it is read into, and one that is too
\* long for the buffer it is printed into as well.
AllTexts ==
  SomeTexts \union Intervals
    \union { <<Set("tail", 2)>>, <<Set("head", 1), Set("tail", 3)>> }
LongLists == {2, 3}
HugeLists == {3}

AllFaults  == FaultKinds
SaveFaults == {"open", "crash"}
=============================================================================
