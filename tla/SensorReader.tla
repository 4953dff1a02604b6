---------------------------- MODULE SensorReader ----------------------------
(***************************************************************************)
(* Class SensorReader in its structured mode (Core/Src/sensor_reader.cpp,  *)
(* sensor_reader_ext.cpp): the devices of the configuration are polled one *)
(* by one, each with its own interval on the tick counter, and a device    *)
(* with an averaging window hands out one value per window.                *)
(*                                                                         *)
(* A configuration is the sequence of its devices in polling order, ports  *)
(* first.  A device has the physical sensor its address and register stand *)
(* for, its channel_idx, poll_interval_ms, avg_window_polls and `on', its  *)
(* own and its port's `enabled'.  A sample is one successful transaction;  *)
(* a value is the set of the samples it is the mean of.                    *)
(*                                                                         *)
(* The operators are actions over sensorVars; the module that extends this *)
(* one says who calls read() and what becomes of the fresh values.         *)
(***************************************************************************)
EXTENDS Integers, Sequences, FiniteSets

CONSTANTS
  Channels,     \* the channel_idx values in use, of 0..MAX_SENSOR_READINGS-1
  Sensors,      \* the physical sensors: blocks of registers of the slaves
  SlaveOf,      \* the slave address of each sensor
  Configs,      \* the configurations a user may install
  Wrap,         \* HAL_GetTick() is taken modulo Wrap (2^32 in the code)
  BusMax,       \* the longest transaction, in ticks
  Late,         \* whether a slave may answer after its timeout
  MaxSamples,   \* bound: successful transactions
  AgeMax        \* bound: ages are not counted beyond this

Device ==
  [sensor : Sensors, chan : Channels, interval : Nat, window : Nat, on : BOOLEAN]
Sample == [id : Nat, sensor : Sensors]

ASSUME ConfigsAssumption == Configs \subseteq Seq(Device)

ASSUME ReaderAssumption ==
  /\ IsFiniteSet(Channels)
  /\ Wrap \in Nat \ {0}
  /\ BusMax \in Nat
  /\ Late \in BOOLEAN
  /\ MaxSamples \in Nat
  /\ AgeMax \in Nat

VARIABLES
  cfg,        \* the configuration, Cfg().rtu_ports
  now,        \* HAL_GetTick()
  lastPoll,   \* SensorReader::m_lastPollTickMs
  fresh,      \* SensorReader::m_freshThisCycle
  slot,       \* SensorReader::m_readings: value and valid
  sum,        \* m_avgSum and m_avgSampleCount: the samples of the open window
  reader,     \* who is inside read(): "none", "loop", "test" or "preview"
  at,         \* the device pollRtuPorts is at; 1 out of it
  late,       \* the sensors that still owe an answer to an earlier request
  taken,      \* history: the number of samples so far
  age         \* history: the time the device has worked, neither asleep nor
              \* serving a browser, since the channel was read or configured

sensorVars ==
  <<cfg, now, lastPoll, fresh, slot, sum, reader, at, late, taken, age>>

-----------------------------------------------------------------------------
(* Time *)

\* Mutant: the deadline is compared with the counter, not the difference.
SinceCompared(t) == IF now >= t THEN now - t ELSE 0

\* (uint32_t)(HAL_GetTick() - t).
Since(t) == (now - t) % Wrap

\* All ages after k ticks; the channels of `read' were read when they began.
Aged(k, read) ==
  [c \in Channels |->
     LET a == (IF c \in read THEN 0 ELSE age[c]) + k
     IN  IF a > AgeMax THEN AgeMax ELSE a]

Elapse(k) ==
  /\ now' = (now + k) % Wrap
  /\ age' = Aged(k, {})

\* Time that is not working time.
Stall(k) ==
  /\ now' = (now + k) % Wrap
  /\ UNCHANGED age

-----------------------------------------------------------------------------
(* read() *)

Devices == {cfg[i] : i \in 1..Len(cfg)}

Unread == [val |-> {}, valid |-> FALSE]

\* Mutant: the flags of the last call are kept.
BeginReadKeeping(who) ==
  /\ reader = "none"
  /\ reader' = who
  /\ at' = 1
  /\ slot' = [c \in Channels |->
                IF \E d \in Devices : d.chan = c /\ ~d.on THEN Unread ELSE slot[c]]
  /\ UNCHANGED <<cfg, now, lastPoll, fresh, sum, late, taken, age>>

\* The call: no value is fresh, slots of devices switched off are emptied.
BeginRead(who) ==
  /\ reader = "none"
  /\ reader' = who
  /\ at' = 1
  /\ fresh' = [c \in Channels |-> FALSE]
  /\ slot' = [c \in Channels |->
                IF \E d \in Devices : d.chan = c /\ ~d.on THEN Unread ELSE slot[c]]
  /\ UNCHANGED <<cfg, now, lastPoll, sum, late, taken, age>>

AtDevice == reader # "none" /\ at \in 1..Len(cfg)

\* Not before its interval has passed; tick 0 stands for "never read".
NotDue(d) ==
  /\ d.interval > 0
  /\ lastPoll[d.chan] # 0
  /\ Since(lastPoll[d.chan]) < d.interval

SkipDevice ==
  /\ AtDevice
  /\ ~cfg[at].on \/ NotDue(cfg[at])
  /\ at' = at + 1
  /\ UNCHANGED <<cfg, now, lastPoll, fresh, slot, sum, reader, late, taken, age>>

\* A transaction with device d begins now and takes k ticks.
Transaction(d, k) ==
  /\ AtDevice
  /\ d = cfg[at]
  /\ d.on
  /\ ~NotDue(d)
  /\ k \in 0..BusMax
  /\ lastPoll' = [lastPoll EXCEPT ![d.chan] = now]
  /\ now' = (now + k) % Wrap
  /\ age' = Aged(k, {d.chan})
  /\ at' = at + 1
  /\ UNCHANGED <<cfg, reader>>

\* No answer in time, or one that is not accepted: an averaging window is
\* left as it is, a single value becomes invalid.
ReadFails(d) ==
  /\ \E k \in 0..BusMax : Transaction(d, k)
  /\ IF d.window <= 1
     THEN /\ slot' = [slot EXCEPT ![d.chan] = Unread]
          /\ fresh' = [fresh EXCEPT ![d.chan] = TRUE]
     ELSE UNCHANGED <<slot, fresh>>
  /\ late' \in {late} \union (IF Late THEN {late \union {d.sensor}} ELSE {})
  /\ UNCHANGED <<sum, taken>>

\* What pollRtuPorts makes of sample s for device d.
Accept(d, s) ==
  LET window == sum[d.chan] \union {s}
      full   == Cardinality(window) >= d.window
  IN  IF d.window <= 1 \/ full
      THEN /\ slot' = [slot EXCEPT ![d.chan] =
                         [val |-> IF d.window <= 1 THEN {s} ELSE window, valid |-> TRUE]]
           /\ fresh' = [fresh EXCEPT ![d.chan] = TRUE]
           /\ sum' = [sum EXCEPT ![d.chan] = IF d.window <= 1 THEN @ ELSE {}]
      ELSE /\ sum' = [sum EXCEPT ![d.chan] = window]
           /\ UNCHANGED <<slot, fresh>>

\* The answer of sensor s arrives in time.
Answered(d, s) ==
  /\ taken < MaxSamples
  /\ \E k \in 0..BusMax : Transaction(d, k)
  /\ Accept(d, [id |-> taken + 1, sensor |-> s])
  /\ taken' = taken + 1

ReadOk(d) == Answered(d, d.sensor) /\ UNCHANGED late

\* Mutant: any frame with a good checksum is an answer.
ReadLateOfAny(d) ==
  \E s \in late : Answered(d, s) /\ late' = (late \ {s}) \union {d.sensor}

\* The answer to an earlier request arrives during this one.  An answer names
\* its slave, function and length, not the register it was asked for, so one
\* of another register block of the slave is taken; the own answer is now due.
ReadLate(d) ==
  \E s \in late :
    /\ SlaveOf[s] = SlaveOf[d.sensor]
    /\ Answered(d, s)
    /\ late' = (late \ {s}) \union {d.sensor}

EndRead ==
  /\ reader # "none"
  /\ at = Len(cfg) + 1
  /\ reader' = "none"
  /\ at' = 1
  /\ UNCHANGED <<cfg, now, lastPoll, fresh, slot, sum, late, taken, age>>

Read ==
  \/ SkipDevice
  \/ \E i \in 1..Len(cfg) :
       \/ ReadFails(cfg[i])
       \/ ReadOk(cfg[i])
       \/ ReadLate(cfg[i])
  \/ EndRead

-----------------------------------------------------------------------------
(* Configuration and start *)

\* Cfg() is replaced while the reader keeps everything it has.
Configure(c) ==
  /\ reader = "none"
  /\ cfg' = c
  /\ age' = [ch \in Channels |-> 0]
  /\ UNCHANGED <<now, lastPoll, fresh, slot, sum, reader, at, late, taken>>

\* The first tick the program sees is 1: start-up takes longer than that.
ReaderInit ==
  /\ cfg \in Configs
  /\ now = 1 % Wrap
  /\ lastPoll = [c \in Channels |-> 0]
  /\ fresh = [c \in Channels |-> FALSE]
  /\ slot = [c \in Channels |-> Unread]
  /\ sum = [c \in Channels |-> {}]
  /\ reader = "none"
  /\ at = 1
  /\ late = {}
  /\ taken = 0
  /\ age = [c \in Channels |-> 0]

\* A reset: the same, but for the configuration and the histories.
ReaderReset ==
  /\ now' = 1 % Wrap
  /\ lastPoll' = [c \in Channels |-> 0]
  /\ fresh' = [c \in Channels |-> FALSE]
  /\ slot' = [c \in Channels |-> Unread]
  /\ sum' = [c \in Channels |-> {}]
  /\ reader' = "none"
  /\ at' = 1
  /\ late' = {}
  /\ age' = [c \in Channels |-> 0]
  /\ UNCHANGED <<cfg, taken>>

ReaderTypeOK ==
  /\ cfg \in Seq(Device)
  /\ now \in 0..(Wrap - 1)
  /\ lastPoll \in [Channels -> 0..(Wrap - 1)]
  /\ fresh \in [Channels -> BOOLEAN]
  /\ slot \in [Channels -> [val : SUBSET Sample, valid : BOOLEAN]]
  /\ sum \in [Channels -> SUBSET Sample]
  /\ reader \in {"none", "loop", "test", "preview"}
  /\ at \in 1..(Len(cfg) + 1)
  /\ late \subseteq Sensors
  /\ taken \in 0..MaxSamples
  /\ age \in [Channels -> 0..AgeMax]
=============================================================================
