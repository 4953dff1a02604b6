----------------------------- MODULE MCMainLoop -----------------------------
(* The configurations the runs of MainLoop use.                              *)
EXTENDS MainLoop

Dev(s, c, i, w, on) ==
  [sensor |-> s, chan |-> c, interval |-> i, window |-> w, on |-> on]

OwnSlaves == [s \in Sensors |-> s]

\* One sensor averaged over two polls or three, and one polled at an interval of
\* its own; a new configuration changes the window and the interval.
TwoSensors ==
  { <<Dev("level", 1, 0, 2, TRUE), Dev("flow", 2, 2, 1, TRUE)>>,
    <<Dev("level", 1, 0, 3, TRUE), Dev("flow", 2, 0, 1, TRUE)>> }

\* One sensor that is polled every other tick.
OneSensor == { <<Dev("level", 1, 2, 1, TRUE)>> }
=============================================================================
