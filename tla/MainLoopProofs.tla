--------------------------- MODULE MainLoopProofs ---------------------------
(***************************************************************************)
(* No measurement is stored twice, and none is forgotten; a value is the   *)
(* average it says it is; a browser holds the device no longer than its    *)
(* idle timeout; and no sensor waits long: for all configurations, every   *)
(* interval, window and timer, whatever a browser asks for between two     *)
(* passes and wherever the power fails.                                    *)
(***************************************************************************)
EXTENDS MainLoop, FiniteSetTheorems, TLAPS

-----------------------------------------------------------------------------
(* Remainders *)

LEMMA ModRange == \A x \in Int : x % Wrap \in 0..(Wrap - 1)
BY ReaderAssumption

LEMMA ModSplit == \A x \in Int : \E q \in Int : x = q * Wrap + (x % Wrap)
<1>1. TAKE x \in Int
<1>2. x = (x \div Wrap) * Wrap + (x % Wrap)
  BY ReaderAssumption
<1>3. x \div Wrap \in Int
  BY ReaderAssumption
<1>4. QED
  BY <1>2, <1>3

LEMMA NoMultiple ==
  \A q \in Int, r, s \in 0..(Wrap - 1) : q * Wrap + r = s => q = 0 /\ r = s
<1>1. TAKE q \in Int, r, s \in 0..(Wrap - 1)
<1>2. CASE q >= 1
  <2>1. q * Wrap >= Wrap
    BY <1>2, ReaderAssumption
  <2>2. QED
    BY <2>1, ReaderAssumption
<1>3. CASE q <= -1
  <2>1. q * Wrap <= -Wrap
    BY <1>3, ReaderAssumption
  <2>2. QED
    BY <2>1, ReaderAssumption
<1>4. CASE q = 0
  BY <1>4, ReaderAssumption
<1>5. QED
  BY <1>2, <1>3, <1>4

LEMMA ModUnique ==
  \A x, q \in Int, r \in 0..(Wrap - 1) : x = q * Wrap + r => x % Wrap = r
<1>1. TAKE x, q \in Int, r \in 0..(Wrap - 1)
<1>2. SUFFICES ASSUME x = q * Wrap + r PROVE x % Wrap = r
  OBVIOUS
<1>3. PICK p \in Int : x = p * Wrap + (x % Wrap)
  BY ModSplit
<1>4. x % Wrap \in 0..(Wrap - 1)
  BY ModRange
<1>5. (q - p) * Wrap + r = x % Wrap
  BY <1>2, <1>3, <1>4, ReaderAssumption
<1>6. QED
  BY <1>4, <1>5, NoMultiple

LEMMA ModSmall == \A x \in 0..(Wrap - 1) : x % Wrap = x
<1>1. TAKE x \in 0..(Wrap - 1)
<1>2. x = 0 * Wrap + x
  BY ReaderAssumption
<1>3. QED
  BY <1>2, ModUnique, ReaderAssumption

LEMMA ModBelow == \A x \in Nat : x % Wrap <= x
<1>1. TAKE x \in Nat
<1>2. PICK q \in Int : x = q * Wrap + (x % Wrap)
  BY ModSplit
<1>3. x % Wrap \in 0..(Wrap - 1)
  BY ModRange
<1>4. CASE q >= 0
  <2>1. q * Wrap >= 0
    BY <1>4, ReaderAssumption
  <2>2. QED
    BY <1>2, <1>3, <2>1, ReaderAssumption
<1>5. CASE q <= -1
  <2>1. q * Wrap <= -Wrap
    BY <1>5, ReaderAssumption
  <2>2. QED
    BY <1>2, <1>3, <2>1, ReaderAssumption
<1>6. QED
  BY <1>4, <1>5

\* A difference on the tick counter grows with the counter.
LEMMA ModLater ==
  ASSUME NEW n \in Int, NEW t \in Int, NEW k \in Nat
  PROVE  (((n + k) % Wrap) - t) % Wrap = (((n - t) % Wrap) + k) % Wrap
<1> DEFINE a == (n - t) % Wrap
           b == (n + k) % Wrap
           r == (a + k) % Wrap
<1>1. a \in Int /\ b \in Int /\ r \in 0..(Wrap - 1) /\ a + k \in Int
  BY ModRange, ReaderAssumption
<1>2. PICK p \in Int : n - t = p * Wrap + a
  BY ModSplit
<1>3. PICK q \in Int : n + k = q * Wrap + b
  BY ModSplit
<1>4. PICK u \in Int : a + k = u * Wrap + r
  BY <1>1, ModSplit
<1> HIDE DEF a, b, r
<1>5. b - t = (p - q + u) * Wrap + r
  <2>1. b - t = (n - t) + k - q * Wrap
    BY <1>1, <1>3, ReaderAssumption
  <2>2. b - t = p * Wrap + (a + k) - q * Wrap
    BY <1>1, <1>2, <2>1, ReaderAssumption
  <2>3. b - t = p * Wrap + u * Wrap + r - q * Wrap
    BY <1>1, <1>4, <2>2, ReaderAssumption
  <2>4. QED
    BY <1>1, <2>3, ReaderAssumption
<1>6. QED
  BY <1>1, <1>5, ModUnique DEF a, b, r

LEMMA Around ==
  ASSUME NEW l \in Nat \ {0}, NEW p \in 1..l
  PROVE  /\ (p % l) + 1 \in 1..l
         /\ p < l => (p % l) + 1 = p + 1
         /\ p = l => (p % l) + 1 = 1
<1>1. p < l => p % l = p
  OBVIOUS
<1>2. p = l => p % l = 0
  OBVIOUS
<1>3. QED
  BY <1>1, <1>2

LEMMA SinceType ==
  ASSUME ReaderTypeOK, NEW t \in 0..(Wrap - 1)
  PROVE  Since(t) \in Nat /\ Since(t) < Wrap
<1>1. now - t \in Int
  BY ReaderAssumption DEF ReaderTypeOK
<1>2. QED
  BY <1>1, ModRange, ReaderAssumption DEF Since

\* A time on the tick counter, k ticks later.
LEMMA Later ==
  ASSUME ReaderTypeOK, NEW t \in 0..(Wrap - 1), NEW k \in Nat, now' = (now + k) % Wrap
  PROVE  /\ Since(t) \in Nat /\ Since(t) < Wrap
         /\ (now' - t) % Wrap <= Since(t) + k
         /\ Since(t) + k < Wrap => (now' - t) % Wrap = Since(t) + k
<1>1. now \in Int /\ t \in Int /\ now - t \in Int
  BY ReaderAssumption DEF ReaderTypeOK
<1>2. Since(t) \in Nat /\ Since(t) < Wrap
  BY SinceType
<1>3. (now' - t) % Wrap = (Since(t) + k) % Wrap
  BY <1>1, ModLater DEF Since
<1>4. (Since(t) + k) % Wrap <= Since(t) + k
  BY <1>2, ModBelow
<1>5. Since(t) + k < Wrap => (Since(t) + k) % Wrap = Since(t) + k
  <2>1. Since(t) + k < Wrap => Since(t) + k \in 0..(Wrap - 1)
    BY <1>2, ReaderAssumption
  <2>2. QED
    BY <2>1, ModSmall
<1>6. QED
  BY <1>2, <1>3, <1>4, <1>5

LEMMA JustNow == ASSUME ReaderTypeOK PROVE Since(now) = 0
<1>1. now - now = 0 /\ 0 \in 0..(Wrap - 1)
  BY ReaderAssumption DEF ReaderTypeOK
<1>2. QED
  BY <1>1, ModSmall DEF Since

-----------------------------------------------------------------------------
(* The flow of the loop *)

Steps(p) == {Flows[p][i] : i \in 1..Len(Flows[p])}

LEMMA Places == DOMAIN Flows = {"pass", "web", "wait"}
BY DEF Flows

LEMMA LengthOfFlows == \A p \in DOMAIN Flows : Len(Flows[p]) \in Nat \ {0}
<1>1. Len(Flows["pass"]) = 10
  BY DEF Flows
<1>2. Len(Flows["web"]) = 6
  BY DEF Flows
<1>3. Len(Flows["wait"]) = 5
  BY DEF Flows
<1>4. QED
  BY <1>1, <1>2, <1>3, Places

LEMMA StepsOfPlaces ==
  /\ Steps("pass") = {"tick", "sync", "poll", "store", "send", "expire", "test",
                      "retry", "iridium", "rest"}
  /\ Steps("web") = {"head", "tick", "sync", "expire", "test", "delay"}
  /\ Steps("wait") = {"head", "tick", "expire", "test", "delay"}
<1>1. Flows["pass"] = <<"tick", "sync", "poll", "store", "send", "expire", "test",
                        "retry", "iridium", "rest">>
  BY DEF Flows
<1>2. Flows["web"] = <<"head", "tick", "sync", "expire", "test", "delay">>
  BY DEF Flows
<1>3. Flows["wait"] = <<"head", "tick", "expire", "test", "delay">>
  BY DEF Flows
<1>4. QED
  BY <1>1, <1>2, <1>3 DEF Steps

\* Where the loop is: a step of its place.
Located == place \in DOMAIN Flows /\ pc \in Steps(place)

LEMMA PositionIsHere ==
  ASSUME Located
  PROVE  Position \in 1..Len(Flows[place]) /\ Flows[place][Position] = pc
<1>1. \E i \in 1..Len(Flows[place]) : Flows[place][i] = pc
  BY DEF Located, Steps
<1>2. QED
  BY <1>1 DEF Position

\* The order of the three flows.
LEMMA Follows ==
  ASSUME Located, Step
  PROVE  /\ place' = place
         /\ pc = "tick" => pc' = IF place = "wait" THEN "expire" ELSE "sync"
         /\ pc = "sync" => pc' = IF place = "pass" THEN "poll" ELSE "expire"
         /\ pc = "poll" => place = "pass" /\ pc' = "store"
         /\ pc = "store" => place = "pass" /\ pc' = "send"
         /\ pc = "send" => place = "pass" /\ pc' = "expire"
         /\ pc = "expire" => pc' = "test"
         /\ pc = "test" => pc' = IF place = "pass" THEN "retry" ELSE "delay"
         /\ pc = "retry" => place = "pass" /\ pc' = "iridium"
         /\ pc = "iridium" => place = "pass" /\ pc' = "rest"
         /\ pc = "rest" => place = "pass" /\ pc' = "tick"
         /\ pc = "head" => place # "pass" /\ pc' = "tick"
         /\ pc = "delay" => place # "pass" /\ pc' = "head"
<1> DEFINE flow == Flows[place]
           n == (Position % Len(flow)) + 1
<1>1. Position \in 1..Len(flow) /\ flow[Position] = pc
  BY PositionIsHere
<1>2. Len(flow) \in Nat \ {0}
  BY LengthOfFlows DEF Located
<1>3. Position < Len(flow) => n = Position + 1
  BY <1>1, <1>2, Around
<1>4. Position = Len(flow) => n = 1
  BY <1>1, <1>2, Around
<1>5. pc' = flow[n] /\ place' = place
  BY DEF Step
<1>6. place \in {"pass", "web", "wait"}
  BY Places DEF Located
<1> HIDE DEF n
<1>7. CASE place = "pass"
  <2>1. flow = <<"tick", "sync", "poll", "store", "send", "expire", "test",
                 "retry", "iridium", "rest">> /\ Len(flow) = 10
    BY <1>7 DEF Flows
  <2>2. Position \in {1, 2, 3, 4, 5, 6, 7, 8, 9, 10}
    BY <1>1, <2>1
  <2> HIDE DEF flow
  <2>3. QED
    BY <1>1, <1>3, <1>4, <1>5, <1>7, <2>1, <2>2
<1>8. CASE place = "web"
  <2>1. flow = <<"head", "tick", "sync", "expire", "test", "delay">> /\ Len(flow) = 6
    BY <1>8 DEF Flows
  <2>2. Position \in {1, 2, 3, 4, 5, 6}
    BY <1>1, <2>1
  <2> HIDE DEF flow
  <2>3. QED
    BY <1>1, <1>3, <1>4, <1>5, <1>8, <2>1, <2>2
<1>9. CASE place = "wait"
  <2>1. flow = <<"head", "tick", "expire", "test", "delay">> /\ Len(flow) = 5
    BY <1>9 DEF Flows
  <2>2. Position \in {1, 2, 3, 4, 5}
    BY <1>1, <2>1
  <2> HIDE DEF flow
  <2>3. QED
    BY <1>1, <1>3, <1>4, <1>5, <1>9, <2>1, <2>2
<1>10. QED
  BY <1>6, <1>7, <1>8, <1>9

LEMMA SyncFollows ==
  ASSUME Located, pc = "sync", pc' = Flows[place][Position + 1]
  PROVE  pc' = IF place = "pass" THEN "poll" ELSE "expire"
<1>1. Position \in 1..Len(Flows[place]) /\ Flows[place][Position] = "sync"
  BY PositionIsHere
<1>2. place \in {"pass", "web"}
  BY Places, StepsOfPlaces DEF Located
<1>3. CASE place = "pass"
  <2>1. Position = 2
    BY <1>1, <1>3 DEF Flows
  <2>2. QED
    BY <1>3, <2>1 DEF Flows
<1>4. CASE place = "web"
  <2>1. Position = 3
    BY <1>1, <1>4 DEF Flows
  <2>2. QED
    BY <1>4, <2>1 DEF Flows
<1>5. QED
  BY <1>2, <1>3, <1>4

\* The next step is one of the same place, and only the poll leads to the store.
LEMMA StepGoesOn ==
  ASSUME Located, Step
  PROVE  Located' /\ (pc' = "store" => pc = "poll")
<1> DEFINE flow == Flows[place]
           n == (Position % Len(flow)) + 1
<1>1. Position \in 1..Len(flow) /\ flow[Position] = pc
  BY PositionIsHere
<1>2. Len(flow) \in Nat \ {0}
  BY LengthOfFlows DEF Located
<1>3. n \in 1..Len(flow)
  BY <1>1, <1>2, Around
<1>4. pc' = flow[n] /\ place' = place
  BY DEF Step
<1>5. Located'
  BY <1>3, <1>4 DEF Located, Steps
<1>6. pc \in Steps("pass") \union Steps("web") \union Steps("wait")
  BY Places DEF Located
<1>7. pc' = "store" => pc = "poll"
  <2>1. pc \in {"tick", "sync", "poll", "store", "send", "expire", "test", "retry",
                "iridium", "rest", "head", "delay"}
    BY <1>6, StepsOfPlaces
  <2>2. QED
    BY <2>1, Follows
<1>8. QED
  BY <1>5, <1>7

LEMMA SyncGoesOn ==
  ASSUME Located, pc = "sync", pc' = Flows[place][Position + 1], place' = place
  PROVE  Located' /\ pc' # "store"
BY SyncFollows, Places, StepsOfPlaces DEF Located

LEMMA PassOnly ==
  ASSUME Located
  PROVE  pc \in {"poll", "store", "send", "retry", "iridium", "rest"} <=>
           place = "pass" /\ pc \notin {"tick", "sync", "expire", "test"}
BY Places, StepsOfPlaces DEF Located

-----------------------------------------------------------------------------
(* The types of the sensors *)

LEMMA AgedType ==
  ASSUME ReaderTypeOK, NEW k \in Nat, NEW S
  PROVE  Aged(k, S) \in [Channels -> 0..AgeMax]
<1>1. AgeMax \in Nat
  BY ReaderAssumption
<1>2. ASSUME NEW c \in Channels
      PROVE  Aged(k, S)[c] \in 0..AgeMax
  <2>1. age[c] \in 0..AgeMax
    BY DEF ReaderTypeOK
  <2>2. QED
    BY <1>1, <2>1 DEF Aged
<1>3. QED
  BY <1>2 DEF Aged

LEMMA SameSensors ==
  ASSUME ReaderTypeOK, UNCHANGED sensorVars
  PROVE  ReaderTypeOK'
BY DEF ReaderTypeOK, sensorVars

LEMMA ElapseType ==
  ASSUME ReaderTypeOK, NEW k \in Nat, Elapse(k),
         UNCHANGED <<cfg, lastPoll, fresh, slot, sum, reader, at, late, taken>>
  PROVE  ReaderTypeOK'
<1>1. now' \in 0..(Wrap - 1)
  BY ModRange DEF Elapse, ReaderTypeOK
<1>2. age' \in [Channels -> 0..AgeMax]
  BY AgedType DEF Elapse
<1>3. QED
  BY <1>1, <1>2 DEF ReaderTypeOK

LEMMA SpendType ==
  ASSUME ReaderTypeOK, NEW k \in Nat, Spend(k),
         UNCHANGED <<cfg, lastPoll, fresh, slot, sum, reader, at, late, taken>>
  PROVE  ReaderTypeOK'
<1>1. CASE Elapse(k)
  BY <1>1, ElapseType
<1>2. CASE Stall(k)
  <2>1. now' \in 0..(Wrap - 1)
    BY <1>2, ModRange DEF Stall, ReaderTypeOK
  <2>2. QED
    BY <1>2, <2>1 DEF Stall, ReaderTypeOK
<1>3. QED
  BY <1>1, <1>2 DEF Spend

LEMMA UnreadType == Unread \in [val : SUBSET Sample, valid : BOOLEAN]
BY DEF Unread

LEMMA BeginType ==
  ASSUME ReaderTypeOK, NEW who \in {"loop", "test", "preview"}, BeginRead(who)
  PROVE  ReaderTypeOK'
<1>1. at' \in 1..(Len(cfg') + 1)
  BY DEF BeginRead, ReaderTypeOK
<1>2. slot' \in [Channels -> [val : SUBSET Sample, valid : BOOLEAN]]
  BY UnreadType DEF BeginRead, ReaderTypeOK
<1>3. fresh' \in [Channels -> BOOLEAN]
  BY DEF BeginRead
<1>4. QED
  BY <1>1, <1>2, <1>3 DEF BeginRead, ReaderTypeOK

LEMMA CfgDevices ==
  ASSUME ReaderTypeOK
  PROVE  \A i \in 1..Len(cfg) : cfg[i] \in Device
BY DEF ReaderTypeOK

\* The device the reader is at.
LEMMA AtType ==
  ASSUME ReaderTypeOK, AtDevice
  PROVE  cfg[at] \in Device /\ at + 1 \in 1..(Len(cfg) + 1)
BY DEF ReaderTypeOK, AtDevice

LEMMA TransactionType ==
  ASSUME ReaderTypeOK, NEW d, NEW k \in 0..BusMax, Transaction(d, k)
  PROVE  /\ d = cfg[at] /\ d \in Device /\ d.chan \in Channels
         /\ now' \in 0..(Wrap - 1) /\ lastPoll' \in [Channels -> 0..(Wrap - 1)]
         /\ age' \in [Channels -> 0..AgeMax] /\ at' \in 1..(Len(cfg') + 1)
         /\ cfg' = cfg /\ reader' = reader /\ at' = at + 1 /\ reader # "none" /\ at \in 1..Len(cfg)
<1>1. d = cfg[at] /\ d \in Device
  BY AtType DEF Transaction
<1>2. d.chan \in Channels
  BY <1>1 DEF Device
<1>3. k \in Nat
  BY ReaderAssumption
<1>4. now' \in 0..(Wrap - 1)
  BY <1>3, ModRange DEF Transaction, ReaderTypeOK
<1>5. lastPoll' \in [Channels -> 0..(Wrap - 1)]
  BY <1>2 DEF Transaction, ReaderTypeOK
<1>6. age' \in [Channels -> 0..AgeMax]
  BY <1>3, AgedType DEF Transaction
<1>7. at' \in 1..(Len(cfg') + 1)
  BY AtType DEF Transaction
<1>8. QED
  BY <1>1, <1>2, <1>4, <1>5, <1>6, <1>7 DEF Transaction, AtDevice

LEMMA FailType ==
  ASSUME ReaderTypeOK, NEW d, ReadFails(d)
  PROVE  ReaderTypeOK'
<1>1. PICK k \in 0..BusMax : Transaction(d, k)
  BY DEF ReadFails
<1>2. slot' \in [Channels -> [val : SUBSET Sample, valid : BOOLEAN]]
      /\ fresh' \in [Channels -> BOOLEAN]
  <2>1. CASE d.window <= 1
    <3>1. /\ slot' = [slot EXCEPT ![d.chan] = Unread]
          /\ fresh' = [fresh EXCEPT ![d.chan] = TRUE]
      BY <2>1 DEF ReadFails
    <3>2. QED
      BY <3>1, UnreadType DEF ReaderTypeOK
  <2>2. CASE ~(d.window <= 1)
    BY <2>2 DEF ReadFails, ReaderTypeOK
  <2>3. QED
    BY <2>1, <2>2
<1>3. late' \subseteq Sensors
  <2>1. d.sensor \in Sensors
    BY <1>1, TransactionType DEF Device
  <2>2. QED
    BY <2>1 DEF ReadFails, ReaderTypeOK
<1>4. QED
  BY <1>1, <1>2, <1>3, TransactionType DEF ReadFails, ReaderTypeOK

\* The three things that become of a sample: it is the value, it completes an
\* average, or it is one of the samples of the open window.
LEMMA AcceptCases ==
  ASSUME NEW d, NEW s, Accept(d, s)
  PROVE  \/ /\ d.window <= 1
            /\ slot' = [slot EXCEPT ![d.chan] = [val |-> {s}, valid |-> TRUE]]
            /\ fresh' = [fresh EXCEPT ![d.chan] = TRUE]
            /\ sum' = [sum EXCEPT ![d.chan] = @]
         \/ /\ ~(d.window <= 1) /\ Cardinality(sum[d.chan] \union {s}) >= d.window
            /\ slot' = [slot EXCEPT ![d.chan] =
                          [val |-> sum[d.chan] \union {s}, valid |-> TRUE]]
            /\ fresh' = [fresh EXCEPT ![d.chan] = TRUE]
            /\ sum' = [sum EXCEPT ![d.chan] = {}]
         \/ /\ ~(d.window <= 1) /\ ~(Cardinality(sum[d.chan] \union {s}) >= d.window)
            /\ sum' = [sum EXCEPT ![d.chan] = sum[d.chan] \union {s}]
            /\ UNCHANGED <<slot, fresh>>
<1>1. CASE d.window <= 1
  BY <1>1 DEF Accept
<1>2. CASE ~(d.window <= 1) /\ Cardinality(sum[d.chan] \union {s}) >= d.window
  BY <1>2 DEF Accept
<1>3. CASE ~(d.window <= 1) /\ ~(Cardinality(sum[d.chan] \union {s}) >= d.window)
  BY <1>3 DEF Accept
<1>4. QED
  BY <1>1, <1>2, <1>3

LEMMA AnswerType ==
  ASSUME ReaderTypeOK, NEW d, NEW s \in Sensors, Answered(d, s), late' \subseteq Sensors
  PROVE  ReaderTypeOK'
<1> DEFINE new == [id |-> taken + 1, sensor |-> s]
           window == sum[d.chan] \union {new}
<1>1. PICK k \in 0..BusMax : Transaction(d, k)
  BY DEF Answered
<1>2. d.chan \in Channels
  BY <1>1, TransactionType
<1>3. taken' \in 0..MaxSamples
  BY ReaderAssumption DEF Answered, ReaderTypeOK
<1>4. new \in Sample
  BY ReaderAssumption DEF Sample, ReaderTypeOK
<1>5. window \in SUBSET Sample /\ {new} \in SUBSET Sample
  BY <1>2, <1>4 DEF ReaderTypeOK
<1>6. /\ slot' \in [Channels -> [val : SUBSET Sample, valid : BOOLEAN]]
      /\ fresh' \in [Channels -> BOOLEAN]
      /\ sum' \in [Channels -> SUBSET Sample]
  <2>1. Accept(d, new)
    BY DEF Answered
  <2>2. /\ [val |-> window, valid |-> TRUE] \in [val : SUBSET Sample, valid : BOOLEAN]
        /\ [val |-> {new}, valid |-> TRUE] \in [val : SUBSET Sample, valid : BOOLEAN]
    BY <1>5
  <2>3. /\ slot \in [Channels -> [val : SUBSET Sample, valid : BOOLEAN]]
        /\ fresh \in [Channels -> BOOLEAN]
        /\ sum \in [Channels -> SUBSET Sample]
    BY DEF ReaderTypeOK
  <2> HIDE DEF new
  <2>4. CASE /\ slot' = [slot EXCEPT ![d.chan] = [val |-> {new}, valid |-> TRUE]]
             /\ fresh' = [fresh EXCEPT ![d.chan] = TRUE]
             /\ sum' = [sum EXCEPT ![d.chan] = @]
    BY <2>2, <2>3, <2>4
  <2>5. CASE /\ slot' = [slot EXCEPT ![d.chan] = [val |-> window, valid |-> TRUE]]
             /\ fresh' = [fresh EXCEPT ![d.chan] = TRUE]
             /\ sum' = [sum EXCEPT ![d.chan] = {}]
    BY <2>2, <2>3, <2>5
  <2>6. CASE sum' = [sum EXCEPT ![d.chan] = window] /\ UNCHANGED <<slot, fresh>>
    BY <1>5, <2>3, <2>6
  <2>7. QED
    BY <2>1, <2>4, <2>5, <2>6, AcceptCases
<1>7. QED
  BY <1>1, <1>3, <1>6, TransactionType DEF ReaderTypeOK

LEMMA ReadType ==
  ASSUME ReaderTypeOK, Read
  PROVE  ReaderTypeOK'
<1>1. CASE SkipDevice
  BY <1>1, AtType DEF SkipDevice, ReaderTypeOK
<1>2. ASSUME NEW i \in 1..Len(cfg), ReadFails(cfg[i]) PROVE ReaderTypeOK'
  BY <1>2, FailType
<1>3. ASSUME NEW i \in 1..Len(cfg), ReadOk(cfg[i]) PROVE ReaderTypeOK'
  <2>1. cfg[i] \in Device
    BY CfgDevices
  <2>2. cfg[i].sensor \in Sensors
    BY <2>1 DEF Device
  <2>3. late' \subseteq Sensors
    BY <1>3 DEF ReadOk, ReaderTypeOK
  <2>4. QED
    BY <1>3, <2>2, <2>3, AnswerType DEF ReadOk
<1>4. ASSUME NEW i \in 1..Len(cfg), ReadLate(cfg[i]) PROVE ReaderTypeOK'
  <2>1. PICK s \in late : Answered(cfg[i], s) /\ late' = (late \ {s}) \union {cfg[i].sensor}
    BY <1>4 DEF ReadLate
  <2>2. cfg[i] \in Device /\ (cfg[i] \in Device => cfg[i].sensor \in Sensors)
    BY CfgDevices DEF Device
  <2>3. late \subseteq Sensors
    BY DEF ReaderTypeOK
  <2>4. late' \subseteq Sensors /\ s \in Sensors
    BY <2>1, <2>2, <2>3
  <2>5. QED
    BY <2>1, <2>4, AnswerType
<1>5. CASE EndRead
  BY <1>5 DEF EndRead, ReaderTypeOK
<1>6. QED
  BY <1>1, <1>2, <1>3, <1>4, <1>5 DEF Read

LEMMA ResetType ==
  ASSUME ReaderTypeOK, ReaderReset
  PROVE  ReaderTypeOK'
<1>1. now' \in 0..(Wrap - 1) /\ 0 \in 0..(Wrap - 1) /\ 0 \in 0..AgeMax
  BY ModRange, ReaderAssumption DEF ReaderReset
<1>2. at' \in 1..(Len(cfg') + 1)
  BY DEF ReaderReset, ReaderTypeOK
<1>3. QED
  BY <1>1, <1>2, UnreadType DEF ReaderReset, ReaderTypeOK

LEMMA ConfigureType ==
  ASSUME ReaderTypeOK, at = 1, NEW c \in Configs, Configure(c)
  PROVE  ReaderTypeOK'
<1>1. cfg' \in Seq(Device)
  BY ConfigsAssumption DEF Configure
<1>2. age' \in [Channels -> 0..AgeMax]
  BY ReaderAssumption DEF Configure
<1>3. at' \in 1..(Len(cfg') + 1)
  BY <1>1 DEF Configure
<1>4. QED
  BY <1>1, <1>2, <1>3 DEF Configure, ReaderTypeOK

-----------------------------------------------------------------------------
(* The inductive invariant *)

\* The reader starts every call at the first device.
Outside == reader = "none" => at = 1

\* A test send is built and sent in the step of that name.
Building == testState = "building" => pc = "test"

\* No sample is in RAM that the bus has not delivered.
Known ==
  \A c \in Channels :
    Ids(sum[c]) \subseteq 1..taken /\ Ids(slot[c].val) \subseteq 1..taken

Open(c) == Ids(sum[c])
Handed(c) == IF fresh[c] THEN Ids(slot[c].val) ELSE {}

\* What is in an open window is in no record and in no other window.
OpenOnce ==
  /\ \A c \in Channels : \A i \in Open(c) : stored[i] = 0
  /\ \A c, x \in Channels : c # x => Open(c) \intersect Open(x) = {}

\* So it is with the fresh values when the next step stores them.
HandedOnce ==
  pc = "store" =>
    /\ \A c \in Channels : \A i \in Handed(c) : stored[i] = 0
    /\ \A c, x \in Channels : Handed(c) \intersect Open(x) = {}
    /\ \A c, x \in Channels : c # x => Handed(c) \intersect Handed(x) = {}

\* A sample that the bus has yet to deliver is in no record.
Future == \A i \in 1..MaxSamples : i > taken => stored[i] = 0

Once == StoredOnce /\ Future /\ OpenOnce /\ HandedOnce

IInv == TypeOK /\ Outside /\ Building /\ Known /\ Once

-----------------------------------------------------------------------------
(* Where a step leads *)

LEMMA LocatedType == TypeOK => Located
BY DEF TypeOK, Located, Steps

LEMMA NextPassLocated == ASSUME NextPass PROVE Located' /\ pc' = "tick"
BY Places, StepsOfPlaces DEF NextPass, Enter, Located

\* Every action keeps the loop at a step of its place, and the poll is the
\* only one that leads to the store.
LEMMA Moves ==
  ASSUME Located, Building, Next
  PROVE  Located' /\ (pc' = "store" => Poll \/ Reading) /\ (Reading => pc' = pc)
<1> DEFINE Goal == Located' /\ pc' # "store"
<1>1. CASE ServerTick
  <2>1. pc = "tick" /\ Step
    BY <1>1 DEF ServerTick, NoRequest, Denied, Visit, AskTest, AskPreview,
                PostConfig, Served, Asked, At, Advance
  <2>2. Goal
    BY <2>1, StepGoesOn
  <2>3. QED
    BY <2>2 DEF Reading, loopVars
<1>2. CASE Reading
  BY <1>2 DEF Reading, loopVars, Located
<1>3. CASE SyncFlag
  <2>1. Goal
    BY <1>3, SyncGoesOn DEF SyncFlag, At
  <2>2. QED
    BY <2>1 DEF Reading, loopVars
<1>4. CASE Poll
  BY <1>4, StepGoesOn DEF Poll, At, Advance, Reading, loopVars
<1>5. CASE Store
  BY <1>5, StepGoesOn DEF Store, At, Advance, Reading, loopVars
<1>6. CASE Send
  <2>1. CASE NotYetSending \/ PeriodicSkip \/ PeriodicSend
    BY <2>1, StepGoesOn
       DEF NotYetSending, PeriodicSkip, PeriodicSend, At, Advance, Reading, loopVars
  <2>2. CASE NoBackups
    BY <2>2, Places, StepsOfPlaces DEF NoBackups, At, Located, Reading, loopVars
  <2>3. CASE RetrySkip \/ RetrySend
    BY <2>3, Places, StepsOfPlaces
       DEF RetrySkip, RetrySend, RetryTimer, At, Located, Reading, loopVars
  <2>4. CASE IridiumSkip \/ IridiumSend
    BY <2>4, StepGoesOn DEF IridiumSkip, IridiumSend, At, Reading, loopVars
  <2>5. QED
    BY <1>6, <2>1, <2>2, <2>3, <2>4 DEF Send
<1>7. CASE Expire
  BY <1>7, StepGoesOn DEF Expire, At, Advance, Reading, loopVars
<1>8. CASE Test
  <2>1. CASE NoTest
    BY <2>1, StepGoesOn DEF NoTest, At, Advance, Reading, loopVars
  <2>2. CASE BeginTest
    BY <2>2 DEF BeginTest, At, Located, Reading, loopVars
  <2>3. CASE TestSend
    BY <2>3, StepGoesOn DEF TestSend, Building, Advance, Reading, loopVars
  <2>4. QED
    BY <1>8, <2>1, <2>2, <2>3 DEF Test
<1>9. CASE Rest
  <2>1. CASE EnterLoop
    BY <2>1, Places, StepsOfPlaces
       DEF EnterLoop, Enter, At, Located, Reading, loopVars
  <2>2. CASE LoopHead
    <3>1. pc = "head" /\ (Step \/ NextPass)
      BY <2>2 DEF LoopHead, At, Advance
    <3>2. QED
      BY <3>1, StepGoesOn, NextPassLocated DEF Reading, loopVars
  <2>3. CASE WebDelay \/ WaitDelay \/ WaitBreak
    <3>1. pc = "delay" /\ (Step \/ NextPass)
      BY <2>3 DEF WebDelay, WaitDelay, WaitBreak, At, Advance
    <3>2. QED
      BY <3>1, StepGoesOn, NextPassLocated DEF Reading, loopVars
  <2>4. CASE Sleep \/ SleepReset
    <3>1. pc = "rest" /\ NextPass
      BY <2>4 DEF Sleep, SleepReset, Asleep, Restart, At
    <3>2. QED
      BY <3>1, NextPassLocated DEF Reading, loopVars
  <2>5. QED
    BY <1>9, <2>1, <2>2, <2>3, <2>4 DEF Rest
<1>10. CASE PowerLoss
  <2>1. NextPass
    BY <1>10 DEF PowerLoss, Restart
  <2>2. QED
    BY <2>1, NextPassLocated DEF Reading, loopVars
<1>11. QED
  BY <1>1, <1>2, <1>3, <1>4, <1>5, <1>6, <1>7, <1>8, <1>9, <1>10 DEF Next, Loop

-----------------------------------------------------------------------------
(* Types *)

\* The part of TypeOK that is the loop's own, but for its place.
OwnType ==
  /\ mode \in Modes
  /\ t0 \in 0..(Wrap - 1) /\ lastReq \in 0..(Wrap - 1)
  /\ lastRetry \in 0..(Wrap - 1) /\ lastIridium \in 0..(Wrap - 1)
  /\ webActive \in BOOLEAN /\ exclusive \in BOOLEAN /\ backlog \in BOOLEAN
  /\ testState \in {"idle", "reading", "building", "success", "fail"}
  /\ pollCounter \in 0..SendEvery
  /\ stored \in [1..MaxSamples -> Nat]
  /\ lost \subseteq 1..MaxSamples

LEMMA TypeParts == TypeOK <=> ReaderTypeOK /\ Located /\ OwnType
BY DEF TypeOK, Located, Steps, OwnType

LEMMA TypePartsNext == TypeOK' <=> ReaderTypeOK' /\ Located' /\ OwnType'
BY DEF TypeOK, Located, Steps, OwnType

LEMMA SomeTime ==
  0 \in 0..(Wrap - 1) /\ 1 % Wrap \in 0..(Wrap - 1)
BY ModRange, ReaderAssumption

LEMMA LostType ==
  ASSUME TypeOK, Known
  PROVE  Unstored(FreshSamples) \subseteq 1..MaxSamples
         /\ Unstored(OpenSamples \union FreshSamples) \subseteq 1..MaxSamples
<1>1. 1..taken \subseteq 1..MaxSamples
  BY ReaderAssumption DEF TypeOK, ReaderTypeOK
<1>2. FreshSamples \subseteq 1..taken
  BY DEF FreshSamples, Known
<1>3. OpenSamples \subseteq 1..taken
  BY DEF OpenSamples, Known
<1>4. QED
  BY <1>1, <1>2, <1>3 DEF Unstored

LEMMA ServerType ==
  ASSUME TypeOK, Known, Outside, ServerTick
  PROVE  ReaderTypeOK' /\ OwnType'
<1> USE TypeParts
<1>1. at = 1 /\ now \in 0..(Wrap - 1) /\ UNCHANGED <<mode, t0, sendVars, history>>
  BY DEF ServerTick, NoRequest, Denied, Visit, AskTest, AskPreview, PostConfig,
         Served, Asked, At, Advance, Step, Synchronous, Outside, ReaderTypeOK
<1>2. OwnType'
  BY <1>1 DEF ServerTick, NoRequest, Denied, Visit, AskTest, AskPreview, PostConfig,
              Served, Asked, webVars, sendVars, history, OwnType
<1>3. CASE UNCHANGED sensorVars
  BY <1>2, <1>3, SameSensors
<1>4. CASE BeginRead("preview")
  BY <1>2, <1>4, BeginType
<1>5. CASE \E c \in Configs : Configure(c)
  BY <1>1, <1>2, <1>5, ConfigureType
<1>6. QED
  BY <1>3, <1>4, <1>5
     DEF ServerTick, NoRequest, Denied, Visit, AskTest, AskPreview, PostConfig

LEMMA StoreType ==
  ASSUME TypeOK, Store
  PROVE  ReaderTypeOK' /\ OwnType'
<1> USE TypeParts
<1> DEFINE C == {c \in Channels : Storable(c)}
           In(i) == {c \in C : i \in Ids(slot[c].val)}
<1>1. \A i : Cardinality(In(i)) \in Nat
  <2>1. \A i : In(i) \subseteq Channels
    OBVIOUS
  <2>2. QED
    BY <2>1, ReaderAssumption, FS_Subset, FS_CardinalityType
<1>2. stored' = [i \in DOMAIN stored |-> stored[i] + Cardinality(In(i))]
  BY DEF Store, AppendRecords
<1>3. stored \in [1..MaxSamples -> Nat]
  BY DEF OwnType
<1> HIDE DEF In, C
<1>4. stored' \in [1..MaxSamples -> Nat]
  BY <1>1, <1>2, <1>3
<1>5. backlog' \in BOOLEAN
  BY DEF Store, AppendRecords, OwnType
<1>6. QED
  BY <1>4, <1>5, SameSensors
     DEF Store, AppendRecords, Advance, Step, webVars, OwnType

LEMMA RetransmitType ==
  ASSUME TypeOK, Retransmit
  PROVE  ReaderTypeOK' /\ backlog' \in BOOLEAN /\ UNCHANGED <<webVars, history>>
<1>1. PICK k \in 0..SendMax : Elapse(k)
  BY DEF Retransmit
<1>2. k \in Nat
  BY LoopAssumption
<1>3. ReaderTypeOK'
  BY <1>1, <1>2, ElapseType, TypeParts DEF Retransmit
<1>4. QED
  BY <1>3, TypeParts DEF Retransmit, OwnType

LEMMA SendType ==
  ASSUME TypeOK, Send
  PROVE  ReaderTypeOK' /\ OwnType'
<1> USE TypeParts
<1>1. 0 \in 0..SendEvery /\ now \in 0..(Wrap - 1) /\ 0 \in 0..(Wrap - 1)
  BY LoopAssumption, SomeTime DEF ReaderTypeOK
<1>2. CASE NotYetSending
  <2>1. pollCounter' \in 0..SendEvery
    BY <1>2, LoopAssumption DEF NotYetSending, OwnType
  <2>2. QED
    BY <1>2, <2>1, SameSensors
       DEF NotYetSending, Advance, Step, webVars, history, OwnType
<1>3. CASE PeriodicSkip
  BY <1>1, <1>3, SameSensors DEF PeriodicSkip, Advance, Step, webVars, history, OwnType
<1>4. CASE PeriodicSend
  BY <1>1, <1>4, RetransmitType
     DEF PeriodicSend, Advance, Step, webVars, history, OwnType
<1>5. CASE NoBackups
  BY <1>5, SameSensors DEF NoBackups, webVars, sendVars, history, OwnType
<1>6. CASE RetrySkip
  BY <1>1, <1>6, SameSensors DEF RetrySkip, RetryTimer, webVars, history, OwnType
<1>7. CASE RetrySend
  BY <1>1, <1>7, RetransmitType DEF RetrySend, RetryTimer, webVars, history, OwnType
<1>8. CASE IridiumSkip
  BY <1>1, <1>8, SameSensors DEF IridiumSkip, Step, webVars, history, OwnType
<1>9. CASE IridiumSend
  BY <1>1, <1>9, RetransmitType DEF IridiumSend, Step, webVars, history, OwnType
<1>10. QED
  BY <1>2, <1>3, <1>4, <1>5, <1>6, <1>7, <1>8, <1>9 DEF Send

LEMMA TestType ==
  ASSUME TypeOK, Test
  PROVE  ReaderTypeOK' /\ OwnType'
<1> USE TypeParts
<1>1. CASE NoTest
  BY <1>1, SameSensors
     DEF NoTest, Advance, Step, webVars, sendVars, history, OwnType
<1>2. CASE BeginTest
  BY <1>2, BeginType DEF BeginTest, loopVars, sendVars, history, OwnType
<1>3. CASE TestSend
  <2>1. PICK k \in 0..SendMax : Spend(k)
    BY <1>3 DEF TestSend
  <2>2. k \in Nat
    BY LoopAssumption
  <2>3. ReaderTypeOK'
    BY <1>3, <2>1, <2>2, SpendType DEF TestSend
  <2>4. QED
    BY <1>3, <2>3 DEF TestSend, Advance, Step, history, OwnType
<1>4. QED
  BY <1>1, <1>2, <1>3 DEF Test

LEMMA RestartType ==
  ASSUME TypeOK, Known, Restart
  PROVE  ReaderTypeOK' /\ OwnType'
<1> USE TypeParts
<1>1. lost' \subseteq 1..MaxSamples
  BY LostType DEF Restart, OwnType
<1>2. 0 \in 0..SendEvery
  BY LoopAssumption
<1>3. QED
  BY <1>1, <1>2, ResetType, SomeTime DEF Restart, NextPass, Enter, OwnType

LEMMA RestType ==
  ASSUME TypeOK, Known, Rest
  PROVE  ReaderTypeOK' /\ OwnType'
<1> USE TypeParts
<1>1. now \in 0..(Wrap - 1) /\ 0 \in 0..(Wrap - 1)
  BY SomeTime DEF ReaderTypeOK
<1>2. CASE EnterLoop
  BY <1>1, <1>2, SameSensors
     DEF EnterLoop, Enter, webVars, sendVars, history, OwnType
<1>3. CASE LoopHead \/ WaitBreak
  BY <1>1, <1>3, SameSensors
     DEF LoopHead, WaitBreak, NextPass, Enter, Advance, Step, webVars, sendVars,
         history, OwnType
<1>4. CASE WebDelay \/ WaitDelay
  <2>1. ReaderTypeOK'
    BY <1>4, ElapseType, SpendType DEF WebDelay, WaitDelay
  <2>2. QED
    BY <1>1, <1>4, <2>1
       DEF WebDelay, WaitDelay, NextPass, Enter, Advance, Step, webVars, sendVars,
           history, OwnType
<1>5. CASE Sleep
  BY <1>1, <1>5, SameSensors
     DEF Sleep, NextPass, Enter, webVars, sendVars, history, OwnType
<1>6. CASE SleepReset
  BY <1>6, RestartType DEF SleepReset
<1>7. QED
  BY <1>2, <1>3, <1>4, <1>5, <1>6 DEF Rest

LEMMA TypeStep ==
  ASSUME TypeOK, Known, Outside, Building, Next
  PROVE  TypeOK'
<1> USE TypeParts
<1>1. Located'
  BY Moves
<1> SUFFICES ReaderTypeOK' /\ OwnType'
  BY <1>1, TypePartsNext
<1>2. CASE ServerTick
  BY <1>2, ServerType
<1>3. CASE Reading
  <2>1. lost' \subseteq 1..MaxSamples
    BY <1>3, LostType DEF Reading, OwnType
  <2>2. QED
    BY <1>3, <2>1, ReadType DEF Reading, loopVars, webVars, sendVars, OwnType
<1>4. CASE SyncFlag
  BY <1>4, SameSensors DEF SyncFlag, sendVars, history, OwnType
<1>5. CASE Poll
  BY <1>5, BeginType DEF Poll, Advance, Step, webVars, sendVars, history, OwnType
<1>6. CASE Store
  BY <1>6, StoreType
<1>7. CASE Send
  BY <1>7, SendType
<1>8. CASE Expire
  BY <1>8, SameSensors DEF Expire, Advance, Step, sendVars, history, OwnType
<1>9. CASE Test
  BY <1>9, TestType
<1>10. CASE Rest
  BY <1>10, RestType
<1>11. CASE PowerLoss
  BY <1>11, RestartType DEF PowerLoss
<1>12. QED
  BY <1>2, <1>3, <1>4, <1>5, <1>6, <1>7, <1>8, <1>9, <1>10, <1>11 DEF Next, Loop

-----------------------------------------------------------------------------
(* What a step makes of the samples in RAM *)

\* Nothing new: what was in RAM is there as before, or gone.
Shrinks ==
  /\ taken' = taken /\ stored' = stored
  /\ \A c \in Channels :
       /\ Open(c)' \in {Open(c), {}}
       /\ Handed(c)' \in {Handed(c), {}}
       /\ Ids(slot[c].val)' \subseteq Ids(slot[c].val)

LEMMA IdsOfNone == Ids({}) = {}
BY DEF Ids

LEMMA IdsOfMore ==
  ASSUME NEW S, NEW s
  PROVE  Ids(S \union {s}) = Ids(S) \union {s.id} /\ Ids({s}) = {s.id}
BY DEF Ids

LEMMA SameShrinks ==
  ASSUME UNCHANGED <<fresh, slot, sum, taken, stored>>
  PROVE  Shrinks
BY DEF Shrinks, Open, Handed

LEMMA BeginShrinks ==
  ASSUME TypeOK, NEW who, BeginRead(who), stored' = stored
  PROVE  Shrinks /\ \A c \in Channels : Handed(c)' = {}
<1>1. sum' = sum /\ taken' = taken
  BY DEF BeginRead
<1>2. \A c \in Channels : ~fresh'[c]
  BY DEF BeginRead
<1>3. \A c \in Channels : slot'[c] = slot[c] \/ slot'[c] = Unread
  BY DEF BeginRead
<1>4. \A c \in Channels : Ids(slot'[c].val) \subseteq Ids(slot[c].val)
  BY <1>3, IdsOfNone DEF Unread
<1>5. QED
  BY <1>1, <1>2, <1>4 DEF Shrinks, Open, Handed

LEMMA RestartShrinks ==
  ASSUME Restart
  PROVE  Shrinks /\ \A c \in Channels : Open(c)' = {} /\ Handed(c)' = {}
<1>1. taken' = taken /\ stored' = stored
  BY DEF Restart, ReaderReset
<1>2. \A c \in Channels : sum'[c] = {} /\ ~fresh'[c] /\ slot'[c].val = {}
  BY DEF Restart, ReaderReset, Unread
<1>3. QED
  BY <1>1, <1>2, IdsOfNone DEF Shrinks, Open, Handed

LEMMA FailShrinks ==
  ASSUME TypeOK, NEW d, ReadFails(d), stored' = stored
  PROVE  Shrinks
<1>1. sum' = sum /\ taken' = taken
  BY DEF ReadFails
<1>2. CASE UNCHANGED <<slot, fresh>>
  BY <1>1, <1>2 DEF Shrinks, Open, Handed
<1>3. CASE /\ slot' = [slot EXCEPT ![d.chan] = Unread]
           /\ fresh' = [fresh EXCEPT ![d.chan] = TRUE]
  <2>1. /\ slot \in [Channels -> [val : SUBSET Sample, valid : BOOLEAN]]
        /\ fresh \in [Channels -> BOOLEAN]
    BY DEF TypeOK, ReaderTypeOK
  <2>2. \A c \in Channels :
          \/ slot'[c] = slot[c] /\ fresh'[c] = fresh[c]
          \/ slot'[c] = Unread
    BY <1>3, <2>1
  <2>3. \A c \in Channels : slot'[c] = Unread => Ids(slot'[c].val) = {}
    BY IdsOfNone DEF Unread
  <2>4. QED
    BY <1>1, <2>2, <2>3 DEF Shrinks, Open, Handed
<1>4. QED
  BY <1>2, <1>3 DEF ReadFails

\* The new sample of channel c: it is the value, it completes the window, or
\* it joins it.
New(c) ==
  /\ taken < MaxSamples
  /\ taken' = taken + 1
  /\ \A x \in Channels \ {c} :
       /\ Open(x)' = Open(x)
       /\ Handed(x)' = Handed(x)
       /\ slot'[x] = slot[x] /\ fresh'[x] = fresh[x]
  /\ \/ /\ Open(c)' = Open(c)
        /\ Handed(c)' = {taken + 1} /\ Ids(slot'[c].val) = {taken + 1}
        /\ slot'[c].valid /\ fresh'[c]
     \/ /\ Open(c)' = {}
        /\ Handed(c)' = Open(c) \union {taken + 1}
        /\ Ids(slot'[c].val) = Open(c) \union {taken + 1}
        /\ slot'[c].valid /\ fresh'[c]
     \/ /\ Open(c)' = Open(c) \union {taken + 1}
        /\ Handed(c)' = Handed(c) /\ slot'[c] = slot[c]

LEMMA AnswerIsNew ==
  ASSUME TypeOK, NEW d, NEW z, Answered(d, z)
  PROVE  d.chan \in Channels /\ New(d.chan)
<1> DEFINE s == [id |-> taken + 1, sensor |-> z]
           c == d.chan
           whole == sum[c] \union {s}
<1>1. PICK k \in 0..BusMax : Transaction(d, k)
  BY DEF Answered
<1>2. c \in Channels
  BY <1>1, TransactionType DEF TypeOK
<1>3. taken < MaxSamples /\ taken' = taken + 1 /\ Accept(d, s)
  BY DEF Answered
<1>4. s.id = taken + 1
  OBVIOUS
<1> HIDE DEF s
<1>5. Ids(whole) = Open(c) \union {taken + 1} /\ Ids({s}) = {taken + 1}
  BY <1>4, IdsOfMore DEF Open
<1>6. /\ slot \in [Channels -> [val : SUBSET Sample, valid : BOOLEAN]]
      /\ fresh \in [Channels -> BOOLEAN]
      /\ sum \in [Channels -> SUBSET Sample]
  BY DEF TypeOK, ReaderTypeOK
<1> HIDE DEF c
<1>7. CASE /\ slot' = [slot EXCEPT ![c] = [val |-> {s}, valid |-> TRUE]]
           /\ fresh' = [fresh EXCEPT ![c] = TRUE]
           /\ sum' = [sum EXCEPT ![c] = @]
  <2>1. \A x \in Channels \ {c} : sum'[x] = sum[x] /\ slot'[x] = slot[x] /\ fresh'[x] = fresh[x]
    BY <1>2, <1>6, <1>7
  <2>2. sum'[c] = sum[c] /\ slot'[c] = [val |-> {s}, valid |-> TRUE] /\ fresh'[c]
    BY <1>2, <1>6, <1>7
  <2>3. slot'[c].val = {s} /\ slot'[c].valid
    BY <2>2
  <2>4. QED
    BY <1>2, <1>3, <1>5, <2>1, <2>2, <2>3 DEF New, Open, Handed, c
<1>8. CASE /\ slot' = [slot EXCEPT ![c] = [val |-> whole, valid |-> TRUE]]
           /\ fresh' = [fresh EXCEPT ![c] = TRUE]
           /\ sum' = [sum EXCEPT ![c] = {}]
  <2>1. \A x \in Channels \ {c} : sum'[x] = sum[x] /\ slot'[x] = slot[x] /\ fresh'[x] = fresh[x]
    BY <1>2, <1>6, <1>8
  <2>2. sum'[c] = {} /\ slot'[c] = [val |-> whole, valid |-> TRUE] /\ fresh'[c]
    BY <1>2, <1>6, <1>8
  <2>3. slot'[c].val = whole /\ slot'[c].valid
    BY <2>2
  <2>4. QED
    BY <1>2, <1>3, <1>5, <2>1, <2>2, <2>3, IdsOfNone DEF New, Open, Handed, c
<1>9. CASE sum' = [sum EXCEPT ![c] = whole] /\ UNCHANGED <<slot, fresh>>
  <2>1. \A x \in Channels \ {c} : sum'[x] = sum[x] /\ slot'[x] = slot[x] /\ fresh'[x] = fresh[x]
    BY <1>2, <1>6, <1>9
  <2>2. sum'[c] = whole /\ slot'[c] = slot[c] /\ fresh'[c] = fresh[c]
    BY <1>2, <1>6, <1>9
  <2>3. QED
    BY <1>2, <1>3, <1>5, <2>1, <2>2 DEF New, Open, Handed, c
<1>10. QED
  BY <1>3, <1>7, <1>8, <1>9, AcceptCases DEF c

\* Every step but the store either brings no sample or one new one.
LEMMA Effects ==
  ASSUME TypeOK, Next
  PROVE  \/ Shrinks
         \/ Store /\ UNCHANGED <<fresh, slot, sum, taken>>
         \/ stored' = stored /\ \E c \in Channels : New(c)
<1>1. CASE ServerTick
  <2>1. stored' = stored
    BY <1>1 DEF ServerTick, NoRequest, Denied, Visit, AskTest, AskPreview,
                PostConfig, Served, Asked, history
  <2>2. CASE UNCHANGED sensorVars
    BY <2>1, <2>2, SameShrinks DEF sensorVars
  <2>3. CASE BeginRead("preview")
    BY <2>1, <2>3, BeginShrinks
  <2>4. CASE \E c \in Configs : Configure(c)
    BY <2>1, <2>4, SameShrinks DEF Configure
  <2>5. QED
    BY <1>1, <2>2, <2>3, <2>4
       DEF ServerTick, NoRequest, Denied, Visit, AskTest, AskPreview, PostConfig
<1>2. CASE Reading
  <2>1. stored' = stored /\ Read
    BY <1>2 DEF Reading
  <2>2. CASE SkipDevice \/ EndRead
    BY <2>1, <2>2, SameShrinks DEF SkipDevice, EndRead
  <2>3. ASSUME NEW i \in 1..Len(cfg), ReadFails(cfg[i]) PROVE Shrinks
    BY <2>1, <2>3, FailShrinks
  <2>4. ASSUME NEW i \in 1..Len(cfg), ReadOk(cfg[i]) \/ ReadLate(cfg[i])
        PROVE  \E c \in Channels : New(c)
    <3>1. PICK z : Answered(cfg[i], z)
      BY <2>4 DEF ReadOk, ReadLate
    <3>2. QED
      BY <3>1, AnswerIsNew
  <2>5. QED
    BY <2>1, <2>2, <2>3, <2>4 DEF Read
<1>3. CASE SyncFlag \/ Expire
  BY <1>3, SameShrinks DEF SyncFlag, Expire, history, sensorVars
<1>4. CASE Poll
  BY <1>4, BeginShrinks DEF Poll, history
<1>5. CASE Store
  BY <1>5 DEF Store, AppendRecords, sensorVars
<1>6. CASE Send
  BY <1>6, SameShrinks
     DEF Send, NotYetSending, PeriodicSkip, PeriodicSend, NoBackups, RetrySkip,
         RetrySend, IridiumSkip, IridiumSend, Retransmit, history, sensorVars
<1>7. CASE Test
  <2>1. CASE NoTest
    BY <2>1, SameShrinks DEF NoTest, history, sensorVars
  <2>2. CASE BeginTest
    BY <2>2, BeginShrinks DEF BeginTest, history
  <2>3. CASE TestSend
    BY <2>3, SameShrinks DEF TestSend, history
  <2>4. QED
    BY <1>7, <2>1, <2>2, <2>3 DEF Test
<1>8. CASE SleepReset \/ PowerLoss
  BY <1>8, RestartShrinks DEF SleepReset, PowerLoss
<1>9. CASE EnterLoop \/ LoopHead \/ WebDelay \/ WaitDelay \/ WaitBreak \/ Sleep
  BY <1>9, SameShrinks
     DEF EnterLoop, LoopHead, WebDelay, WaitDelay, WaitBreak, Sleep, history, sensorVars
<1>10. QED
  BY <1>1, <1>2, <1>3, <1>4, <1>5, <1>6, <1>7, <1>8, <1>9 DEF Next, Loop, Rest

-----------------------------------------------------------------------------
(* No measurement is stored twice *)

LEMMA KnownStep ==
  ASSUME TypeOK, Known, Next
  PROVE  Known'
<1>0. taken \in Nat
  BY ReaderAssumption DEF TypeOK, ReaderTypeOK
<1>1. CASE Shrinks
  BY <1>1 DEF Shrinks, Known, Open
<1>2. CASE UNCHANGED <<fresh, slot, sum, taken>>
  BY <1>2 DEF Known
<1>3. ASSUME NEW c \in Channels, New(c) PROVE Known'
  <2>1. taken' = taken + 1 /\ 1..taken \subseteq 1..taken' /\ taken + 1 \in 1..taken'
    BY <1>0, <1>3 DEF New
  <2>2. \A x \in Channels \ {c} : Open(x)' = Open(x) /\ slot'[x] = slot[x]
    BY <1>3 DEF New
  <2>3. Open(c)' \subseteq 1..taken' /\ Ids(slot'[c].val) \subseteq 1..taken'
    BY <1>3, <2>1 DEF New, Known, Open
  <2>4. QED
    BY <2>1, <2>2, <2>3 DEF Known, Open
<1>4. QED
  BY <1>1, <1>2, <1>3, Effects

LEMMA OutsideStep ==
  ASSUME TypeOK, Outside, Next
  PROVE  Outside'
<1>1. CASE UNCHANGED <<reader, at>>
  BY <1>1 DEF Outside
<1>2. CASE \E who \in {"loop", "test", "preview"} : BeginRead(who)
  BY <1>2 DEF BeginRead, Outside
<1>3. CASE Read
  BY <1>3 DEF Read, SkipDevice, ReadFails, ReadOk, ReadLate, Answered, Transaction,
              AtDevice, EndRead, Outside
<1>4. CASE Restart
  BY <1>4 DEF Restart, ReaderReset, Outside
<1>5. QED
  BY <1>1, <1>2, <1>3, <1>4
     DEF Next, Loop, ServerTick, NoRequest, Denied, Visit, AskTest, AskPreview,
         PostConfig, Configure, Reading, SyncFlag, Poll, Store, AppendRecords, Send,
         NotYetSending, PeriodicSkip, PeriodicSend, NoBackups, RetrySkip, RetrySend,
         IridiumSkip, IridiumSend, Retransmit, Expire, Test, NoTest, BeginTest,
         TestSend, Rest, EnterLoop, LoopHead, WebDelay, WaitDelay, WaitBreak, Sleep,
         SleepReset, PowerLoss, sensorVars

LEMMA BuildingStep ==
  ASSUME TypeOK, Building, Next
  PROVE  Building'
<1>1. CASE Reading \/ BeginTest
  BY <1>1 DEF Reading, BeginTest, At, loopVars, webVars, Building
<1>2. CASE TestSend
  BY <1>2 DEF TestSend, Building
<1>3. CASE SleepReset \/ PowerLoss
  BY <1>3 DEF SleepReset, PowerLoss, Restart, Building
<1>4. CASE ServerTick
  BY <1>4 DEF ServerTick, NoRequest, Denied, Visit, AskTest, AskPreview, PostConfig,
              Served, Asked, At, Synchronous, webVars, Building
<1>5. CASE SyncFlag \/ Poll \/ Store \/ Expire \/ NoTest
  BY <1>5 DEF SyncFlag, Poll, Store, AppendRecords, Expire, NoTest, At, Synchronous,
              webVars, Building
<1>6. CASE Send
  BY <1>6 DEF Send, NotYetSending, PeriodicSkip, PeriodicSend, NoBackups, RetrySkip,
              RetrySend, RetryTimer, IridiumSkip, IridiumSend, Retransmit, At,
              Synchronous, webVars, Building
<1>7. CASE EnterLoop \/ LoopHead \/ WebDelay \/ WaitDelay \/ WaitBreak \/ Sleep
  BY <1>7 DEF EnterLoop, LoopHead, WebDelay, WaitDelay, WaitBreak, Sleep, Asleep, At,
              Synchronous, webVars, Building
<1>8. QED
  BY <1>1, <1>2, <1>3, <1>4, <1>5, <1>6, <1>7 DEF Next, Loop, Test, Rest

\* Whoever comes to the store comes from a read that handed out nothing yet.
LEMMA HandedNext ==
  ASSUME TypeOK, Building, Next, pc' = "store"
  PROVE  pc = "store" \/ \A c \in Channels : Handed(c)' = {}
<1>1. Poll \/ pc = "store"
  <2>1. Located
    BY LocatedType
  <2>2. (pc' = "store" => Poll \/ Reading) /\ (Reading => pc' = pc)
    BY <2>1, Moves
  <2>3. QED
    BY <2>2
<1>2. ASSUME Poll PROVE \A c \in Channels : Handed(c)' = {}
  BY <1>2 DEF Poll, BeginRead, Handed
<1>3. QED
  BY <1>1, <1>2

\* A record is written for a value that is fresh, and for nothing else.
LEMMA StoreEffect ==
  ASSUME IInv, Store, NEW i \in 1..MaxSamples
  PROVE  /\ (\A c \in Channels : i \notin Handed(c)) => stored'[i] = stored[i]
         /\ (\E c \in Channels : i \in Handed(c) /\ slot[c].valid) => stored'[i] = 1
         /\ stored'[i] \in {stored[i], 1}
<1> DEFINE C == {c \in Channels : Storable(c)}
           In == {c \in C : i \in Ids(slot[c].val)}
<1>1. /\ stored \in [1..MaxSamples -> Nat]
      /\ stored' = [j \in DOMAIN stored |->
                      stored[j] + Cardinality({c \in C : j \in Ids(slot[c].val)})]
  BY DEF IInv, TypeOK, Store, AppendRecords
<1>2. stored'[i] = stored[i] + Cardinality(In) /\ stored[i] \in Nat
  BY <1>1
<1>3. In = {c \in Channels : i \in Handed(c) /\ slot[c].valid}
  BY DEF Handed, Storable
<1> HIDE DEF In
<1>4. CASE In = {}
  <2>1. Cardinality(In) = 0
    BY <1>4, FS_EmptySet
  <2>2. stored'[i] = stored[i]
    BY <1>2, <2>1
  <2>3. QED
    BY <1>3, <1>4, <2>2
<1>5. CASE In # {}
  <2>1. PICK c \in Channels : c \in In /\ i \in Handed(c)
    BY <1>3, <1>5
  <2>2. pc = "store" /\ stored[i] = 0
    BY <2>1 DEF Store, At, IInv, Once, HandedOnce
  <2>3. \A x \in Channels : i \in Handed(x) => x = c
    BY <2>1, <2>2 DEF IInv, Once, HandedOnce
  <2>4. In = {c}
    BY <1>3, <2>1, <2>3
  <2>5. Cardinality(In) = 1
    BY <2>4, FS_Singleton
  <2>6. stored'[i] = 1
    BY <1>2, <2>2, <2>5
  <2>7. QED
    BY <2>1, <2>6
<1>6. QED
  BY <1>4, <1>5

LEMMA OnceStep ==
  ASSUME IInv, Next
  PROVE  Once'
<1>0. taken \in Nat /\ MaxSamples \in Nat /\ taken <= MaxSamples
      /\ stored \in [1..MaxSamples -> Nat]
  BY ReaderAssumption DEF IInv, TypeOK, ReaderTypeOK
<1>1. pc' = "store" => pc = "store" \/ \A c \in Channels : Handed(c)' = {}
  BY HandedNext DEF IInv
<1>2. CASE Shrinks
  BY <1>1, <1>2 DEF IInv, Once, StoredOnce, Future, OpenOnce, HandedOnce, Shrinks
<1>3. CASE Store /\ UNCHANGED <<fresh, slot, sum, taken>>
  <2>1. pc = "store" /\ pc' # "store"
    <3>1. Located /\ Step /\ pc = "store"
      BY <1>3, LocatedType DEF IInv, Store, At, Advance
    <3>2. QED
      BY <3>1, StepGoesOn
  <2>2. \A c \in Channels : Open(c) \subseteq 1..taken /\ Handed(c) \subseteq 1..taken
    BY DEF IInv, Known, Open, Handed
  <2>3. StoredOnce'
    BY <1>3, StoreEffect DEF IInv, Once, StoredOnce
  <2>4. Future'
    <3>1. SUFFICES ASSUME NEW i \in 1..MaxSamples, i > taken PROVE stored'[i] = 0
      BY <1>3 DEF Future
    <3>2. \A c \in Channels : i \notin Handed(c)
      BY <1>0, <2>2, <3>1
    <3>3. QED
      BY <1>3, <3>1, <3>2, StoreEffect DEF IInv, Once, Future
  <2>5. OpenOnce'
    <3>1. ASSUME NEW c \in Channels, NEW i \in Open(c) PROVE stored'[i] = 0
      <4>1. i \in 1..MaxSamples /\ stored[i] = 0
        BY <1>0, <2>2 DEF IInv, Once, OpenOnce
      <4>2. \A x \in Channels : i \notin Handed(x)
        BY <2>1 DEF IInv, Once, HandedOnce
      <4>3. QED
        BY <1>3, <4>1, <4>2, StoreEffect
    <3>2. \A c \in Channels : Open(c)' = Open(c)
      BY <1>3 DEF Open
    <3>3. QED
      BY <3>1, <3>2 DEF IInv, Once, OpenOnce
  <2>6. HandedOnce'
    BY <2>1 DEF HandedOnce
  <2>7. QED
    BY <2>3, <2>4, <2>5, <2>6 DEF Once
<1>4. ASSUME stored' = stored, NEW c \in Channels, New(c) PROVE Once'
  <2> DEFINE n == taken + 1
  <2>1. n \in 1..MaxSamples /\ n \notin 1..taken /\ taken' = n
    BY <1>0, <1>4 DEF New
  <2>2. stored[n] = 0 /\ (\A i \in 1..MaxSamples : i > n => stored[i] = 0)
    BY <1>0, <2>1 DEF IInv, Once, Future
  <2>3. \A x \in Channels : Open(x) \subseteq 1..taken /\ Handed(x) \subseteq 1..taken
    BY DEF IInv, Known, Open, Handed
  <2>4. \A x \in Channels : n \notin Open(x) /\ n \notin Handed(x)
    BY <2>1, <2>3
  <2>5. StoredOnce' /\ Future'
    BY <1>4, <2>1, <2>2 DEF IInv, Once, StoredOnce, Future
  <2> HIDE DEF n
  <2>6. /\ \A x \in Channels \ {c} : Open(x)' = Open(x) /\ Handed(x)' = Handed(x)
        /\ \/ Open(c)' = Open(c) /\ Handed(c)' = {n}
           \/ Open(c)' = {} /\ Handed(c)' = Open(c) \union {n}
           \/ Open(c)' = Open(c) \union {n} /\ Handed(c)' = Handed(c)
    BY <1>4 DEF New, n
  <2>7. OpenOnce'
    BY <1>4, <2>2, <2>4, <2>6 DEF IInv, Once, OpenOnce
  <2>8. HandedOnce'
    BY <1>1, <1>4, <2>2, <2>4, <2>6 DEF IInv, Once, OpenOnce, HandedOnce
  <2>9. QED
    BY <2>5, <2>7, <2>8 DEF Once
<1>5. QED
  BY <1>2, <1>3, <1>4, Effects DEF IInv

LEMMA InitInv ==
  ASSUME Init
  PROVE  IInv
<1>1. ReaderTypeOK
  <2>1. cfg \in Seq(Device) /\ at \in 1..(Len(cfg) + 1)
    BY ConfigsAssumption DEF Init, ReaderInit
  <2>2. 0 \in 0..(Wrap - 1) /\ 0 \in 0..AgeMax /\ 0 \in 0..MaxSamples
    BY SomeTime, ReaderAssumption
  <2>3. QED
    BY <2>1, <2>2, SomeTime, UnreadType DEF Init, ReaderInit, ReaderTypeOK
<1>2. Located
  BY Places, StepsOfPlaces DEF Init, Located
<1>3. OwnType
  <2>1. 0 \in 0..SendEvery
    BY LoopAssumption
  <2>2. QED
    BY <2>1, SomeTime DEF Init, OwnType
<1>4. TypeOK
  BY <1>1, <1>2, <1>3, TypeParts
<1>5. \A c \in Channels : sum[c] = {} /\ slot[c].val = {} /\ ~fresh[c]
  BY DEF Init, ReaderInit, Unread
<1>11. \A c \in Channels : Open(c) = {} /\ Handed(c) = {}
  BY <1>5, IdsOfNone DEF Open, Handed
<1>6. Outside /\ Building
  BY DEF Init, ReaderInit, Outside, Building
<1>7. Known
  BY <1>5, IdsOfNone DEF Known
<1>8. \A i \in 1..MaxSamples : stored[i] = 0
  BY DEF Init
<1>9. Once
  BY <1>11, <1>8 DEF Once, StoredOnce, Future, OpenOnce, HandedOnce
<1>10. QED
  BY <1>4, <1>6, <1>7, <1>9 DEF IInv

LEMMA InvStep ==
  ASSUME IInv, [Next]_vars
  PROVE  IInv'
<1>1. CASE Next
  BY <1>1, TypeStep, OutsideStep, BuildingStep, KnownStep, OnceStep DEF IInv
<1>2. CASE UNCHANGED vars
  <2>1. TypeOK'
    BY <1>2 DEF IInv, TypeOK, ReaderTypeOK, vars, sensorVars, loopVars, webVars,
                sendVars, history
  <2>2. Outside' /\ Building' /\ Known'
    BY <1>2 DEF IInv, Outside, Building, Known, vars, sensorVars, loopVars, webVars
  <2>3. Once'
    BY <1>2 DEF IInv, Once, StoredOnce, Future, OpenOnce, HandedOnce, Open, Handed,
                vars, sensorVars, loopVars, history
  <2>4. QED
    BY <2>1, <2>2, <2>3 DEF IInv
<1>3. QED
  BY <1>1, <1>2

LEMMA Invariance == Spec => []IInv
<1>1. Init => IInv
  BY InitInv
<1>2. IInv /\ [Next]_vars => IInv'
  BY InvStep
<1>3. QED
  BY <1>1, <1>2, PTL DEF Spec

\* Every variable keeps its type: in particular the loop is always at a step
\* of the function it is in, and the reader at a device of the configuration,
\* whatever configuration replaces it between two calls.
THEOREM TypeCorrect == Spec => []TypeOK
<1>1. IInv => TypeOK
  BY DEF IInv
<1>2. QED
  BY <1>1, Invariance, PTL

\* No measurement is in two records on the card, for every set of devices,
\* intervals and windows, even where several devices share a channel, and
\* whatever reads a browser causes between two passes of the loop.
THEOREM NeverStoredTwice == Spec => []StoredOnce
<1>1. IInv => StoredOnce
  BY DEF IInv, Once
<1>2. QED
  BY <1>1, Invariance, PTL

-----------------------------------------------------------------------------
(* No measurement is forgotten *)

\* No two devices of a configuration share a channel_idx.
Separate == \A l \in Configs : \A i, j \in 1..Len(l) : i # j => l[i].chan # l[j].chan

\* A read of the poll ends where its values are stored.
PollRead == reader = "loop" => pc = "store"

\* A slot without a value is marked so.
Marked == \A c \in Channels : ~slot[c].valid => slot[c].val = {}

\* What became fresh in a read is not touched again in it.
Ahead == reader # "none" => \A c \in Channels : fresh[c] =>
           \A i \in 1..Len(cfg) : i >= at => cfg[i].chan # c

\* A fresh value counts as kept until the read that brought it is over, and
\* after a poll until the store.
Kept ==
  \A i \in 1..taken :
    \/ stored[i] = 1
    \/ i \in lost
    \/ \E c \in Channels : i \in Open(c)
    \/ (reader # "none" \/ pc = "store") /\ \E c \in Channels : i \in Handed(c)

KeepInv == IInv /\ cfg \in Configs /\ PollRead /\ Marked /\ Ahead /\ Kept

LEMMA OpenIsOpen == \A i : i \in OpenSamples <=> \E c \in Channels : i \in Open(c)
BY DEF OpenSamples, Open

LEMMA FreshIsHanded == \A i : i \in FreshSamples <=> \E c \in Channels : i \in Handed(c)
BY DEF FreshSamples, Handed

\* Between two reads, and not before the store.
Idle == reader = "none" /\ pc # "store"

LEMMA KeepCases ==
  ASSUME IInv, Next
  PROVE  \/ Idle /\ reader' = "none" /\ (cfg' = cfg \/ cfg' \in Configs)
              /\ UNCHANGED <<fresh, slot, sum, taken, stored, lost>>
         \/ Idle /\ (\E who \in {"loop", "test", "preview"} : BeginRead(who))
              /\ UNCHANGED <<stored, lost>> /\ (reader' = "loop" => pc' = "store")
         \/ Reading
         \/ Store
         \/ Restart
<1>0. Located /\ Building
  BY LocatedType DEF IInv
<1>1. CASE ServerTick
  <2>1. Idle /\ UNCHANGED history
    BY <1>1 DEF ServerTick, NoRequest, Denied, Visit, AskTest, AskPreview, PostConfig,
                Served, Asked, At, Synchronous, Idle
  <2>2. UNCHANGED sensorVars \/ BeginRead("preview") \/ \E c \in Configs : Configure(c)
    BY <1>1 DEF ServerTick, NoRequest, Denied, Visit, AskTest, AskPreview, PostConfig
  <2>3. CASE UNCHANGED sensorVars
    BY <2>1, <2>3 DEF sensorVars, history, Idle
  <2>4. CASE BeginRead("preview")
    <3>1. reader' = "preview"
      BY <2>4 DEF BeginRead
    <3>2. QED
      BY <2>1, <2>4, <3>1 DEF history
  <2>5. CASE \E c \in Configs : Configure(c)
    BY <2>1, <2>5 DEF Configure, history, Idle
  <2>6. QED
    BY <2>2, <2>3, <2>4, <2>5
<1>2. CASE SyncFlag \/ Expire
  BY <1>2 DEF SyncFlag, Expire, At, Synchronous, Idle, sensorVars, history
<1>3. CASE Poll
  <2>1. Idle /\ BeginRead("loop") /\ UNCHANGED history
    BY <1>3 DEF Poll, At, Synchronous, Idle
  <2>2. pc' = "store"
    BY <1>0, <1>3, Follows DEF Poll, At, Advance
  <2>3. QED
    BY <2>1, <2>2 DEF history
<1>4. CASE Send
  BY <1>4 DEF Send, NotYetSending, PeriodicSkip, PeriodicSend, NoBackups, RetrySkip,
              RetrySend, RetryTimer, IridiumSkip, IridiumSend, Retransmit, At,
              Synchronous, Idle, sensorVars, history
<1>5. CASE NoTest
  BY <1>5 DEF NoTest, At, Synchronous, Idle, sensorVars, history
<1>6. CASE BeginTest
  <2>1. reader' = "test"
    BY <1>6 DEF BeginTest, BeginRead
  <2>2. QED
    BY <1>6, <2>1 DEF BeginTest, At, Synchronous, Idle, history
<1>7. CASE TestSend
  BY <1>0, <1>7 DEF TestSend, Building, Idle, history
<1>8. CASE EnterLoop \/ LoopHead \/ WebDelay \/ WaitDelay \/ WaitBreak \/ Sleep
  BY <1>8 DEF EnterLoop, LoopHead, WebDelay, WaitDelay, WaitBreak, Sleep, Asleep, At,
              Synchronous, Idle, sensorVars, history
<1>9. CASE SleepReset \/ PowerLoss
  BY <1>9 DEF SleepReset, PowerLoss
<1>10. QED
  BY <1>1, <1>2, <1>3, <1>4, <1>5, <1>6, <1>7, <1>8, <1>9 DEF Next, Loop, Test, Rest

LEMMA IdleKeeps ==
  ASSUME KeepInv, Idle, reader' = "none", cfg' = cfg \/ cfg' \in Configs,
         UNCHANGED <<fresh, slot, sum, taken, stored, lost>>
  PROVE  cfg' \in Configs /\ PollRead' /\ Marked' /\ Ahead' /\ Kept'
BY DEF KeepInv, Idle, PollRead, Marked, Ahead, Kept, Open, Handed

LEMMA BeginKeeps ==
  ASSUME KeepInv, Idle, NEW who \in {"loop", "test", "preview"}, BeginRead(who),
         UNCHANGED <<stored, lost>>, reader' = "loop" => pc' = "store"
  PROVE  cfg' \in Configs /\ PollRead' /\ Marked' /\ Ahead' /\ Kept'
<1>1. \A c \in Channels : ~fresh'[c]
  BY DEF BeginRead
<1>2. \A c \in Channels : slot'[c] = slot[c] \/ slot'[c] = Unread
  BY DEF BeginRead
<1>3. Marked'
  BY <1>2 DEF KeepInv, Marked, Unread
<1>4. Ahead'
  BY <1>1 DEF Ahead
<1>5. Kept'
  BY DEF KeepInv, Idle, Kept, BeginRead, Open
<1>6. QED
  BY <1>3, <1>4, <1>5 DEF KeepInv, PollRead, BeginRead

LEMMA StoreKeeps ==
  ASSUME KeepInv, Store
  PROVE  cfg' \in Configs /\ PollRead' /\ Marked' /\ Ahead' /\ Kept'
<1>1. UNCHANGED <<cfg, fresh, slot, sum, taken, reader, lost>> /\ reader = "none"
  BY DEF Store, AppendRecords, At, Synchronous, sensorVars
<1>2. ASSUME NEW c \in Channels, NEW i \in Handed(c) PROVE slot[c].valid
  BY <1>2 DEF KeepInv, Marked, Handed, Ids
<1>3. ASSUME NEW i \in 1..taken
      PROVE  stored'[i] = 1 \/ i \in lost' \/ \E c \in Channels : i \in Open(c)'
  <2>1. i \in 1..MaxSamples
    BY ReaderAssumption DEF KeepInv, IInv, TypeOK, ReaderTypeOK
  <2>2. stored'[i] \in {stored[i], 1}
        /\ ((\E c \in Channels : i \in Handed(c)) => stored'[i] = 1)
    BY <1>2, <2>1, StoreEffect DEF KeepInv
  <2>3. QED
    BY <1>1, <2>2 DEF KeepInv, Kept, Open
<1>4. QED
  BY <1>1, <1>3 DEF KeepInv, PollRead, Marked, Ahead, Kept

LEMMA RestartKeeps ==
  ASSUME KeepInv, Restart
  PROVE  cfg' \in Configs /\ PollRead' /\ Marked' /\ Ahead' /\ Kept'
<1>1. cfg' = cfg /\ taken' = taken /\ stored' = stored /\ reader' = "none"
      /\ (\A c \in Channels : slot'[c] = Unread)
      /\ lost' = lost \union Unstored(OpenSamples \union FreshSamples)
  BY DEF Restart, ReaderReset
<1>2. ASSUME NEW i \in 1..taken PROVE stored[i] = 1 \/ i \in lost'
  <2>1. stored[i] = 0 \/ stored[i] = 1
    <3>1. i \in 1..MaxSamples
      BY ReaderAssumption DEF KeepInv, IInv, TypeOK, ReaderTypeOK
    <3>2. stored[i] \in Nat /\ stored[i] <= 1
      BY <3>1 DEF KeepInv, IInv, TypeOK, Once, StoredOnce
    <3>3. QED
      BY <3>2
  <2>2. QED
    BY <1>1, <2>1, OpenIsOpen, FreshIsHanded DEF KeepInv, Kept, Unstored
<1>3. Marked'
  BY <1>1 DEF Marked, Unread
<1>4. Kept'
  BY <1>1, <1>2 DEF Kept
<1>5. QED
  BY <1>1, <1>3, <1>4 DEF KeepInv, PollRead, Ahead

\* Steps within a read leave the place and the caller as they are.
LEMMA WithinKeeps ==
  ASSUME KeepInv, Separate, Reading, ~EndRead
  PROVE  /\ reader # "none" /\ reader' = reader /\ pc' = pc /\ cfg' = cfg
         /\ stored' = stored /\ lost' = lost
         /\ at \in 1..Len(cfg) /\ at' = at + 1
         /\ \A i \in 1..Len(cfg) : i >= at + 1 => i >= at /\ cfg[i].chan # cfg[at].chan
<1>1. Read /\ pc' = pc /\ stored' = stored
      /\ lost' = IF reader \in {"test", "preview"} /\ reader' = "none"
                 THEN lost \union Unstored(FreshSamples) ELSE lost
  BY DEF Reading, loopVars
<1>2. AtDevice /\ reader' = reader /\ cfg' = cfg /\ at' = at + 1
  BY <1>1 DEF Read, SkipDevice, ReadFails, ReadOk, ReadLate, Answered, Transaction
<1>3. at \in 1..Len(cfg) /\ reader # "none"
  BY <1>2 DEF AtDevice
<1>4. \A i \in 1..Len(cfg) : i >= at + 1 => i >= at /\ i # at
  BY <1>3 DEF KeepInv, IInv, TypeOK, ReaderTypeOK
<1>5. QED
  BY <1>1, <1>2, <1>3, <1>4 DEF KeepInv, Separate

LEMMA ReadingKeeps ==
  ASSUME KeepInv, Separate, Reading
  PROVE  cfg' \in Configs /\ PollRead' /\ Marked' /\ Ahead' /\ Kept'
<1>1. CASE EndRead
  <2>1. UNCHANGED <<cfg, fresh, slot, sum, taken, stored, pc>> /\ reader # "none"
        /\ reader' = "none"
        /\ lost' = IF reader \in {"test", "preview"}
                   THEN lost \union Unstored(FreshSamples) ELSE lost
    BY <1>1 DEF EndRead, Reading, loopVars
  <2>2. CASE reader = "loop"
    <3>1. pc = "store" /\ lost' = lost
      BY <2>1, <2>2 DEF KeepInv, PollRead
    <3>2. QED
      BY <2>1, <3>1 DEF KeepInv, PollRead, Marked, Ahead, Kept, Open, Handed
  <2>3. CASE reader \in {"test", "preview"}
    <3>1. ASSUME NEW i \in 1..taken
          PROVE  stored[i] = 1 \/ i \in lost' \/ \E c \in Channels : i \in Open(c)
      <4>1. i \in 1..MaxSamples
        BY ReaderAssumption DEF KeepInv, IInv, TypeOK, ReaderTypeOK
      <4>2. stored[i] \in Nat /\ stored[i] <= 1
        BY <4>1 DEF KeepInv, IInv, TypeOK, Once, StoredOnce
      <4>3. stored[i] = 0 \/ stored[i] = 1
        BY <4>2
      <4>4. QED
        BY <2>1, <2>3, <4>3, FreshIsHanded DEF KeepInv, Kept, Unstored
    <3>2. QED
      BY <2>1, <3>1 DEF KeepInv, PollRead, Marked, Ahead, Kept, Open
  <2>4. QED
    BY <2>1, <2>2, <2>3 DEF KeepInv, IInv, TypeOK, ReaderTypeOK
<1>2. CASE ~EndRead
  <2>1. /\ reader # "none" /\ reader' = reader /\ pc' = pc /\ cfg' = cfg
        /\ stored' = stored /\ lost' = lost
        /\ at \in 1..Len(cfg) /\ at' = at + 1
        /\ \A i \in 1..Len(cfg) : i >= at + 1 => i >= at /\ cfg[i].chan # cfg[at].chan
    BY <1>2, WithinKeeps
  <2>2. Read
    BY DEF Reading
  <2>3. at >= at
    BY <2>1
  <2>4. ~fresh[cfg[at].chan] \/ cfg[at].chan \notin Channels
    BY <2>1, <2>3 DEF KeepInv, Ahead
  <2>5. CASE SkipDevice
    <3>1. UNCHANGED <<fresh, slot, sum, taken>>
      BY <2>5 DEF SkipDevice
    <3>2. QED
      BY <2>1, <3>1 DEF KeepInv, PollRead, Marked, Ahead, Kept, Open, Handed
  <2>6. ASSUME NEW d, ReadFails(d) PROVE cfg' \in Configs /\ PollRead' /\ Marked' /\ Ahead' /\ Kept'
    <3>1. d = cfg[at] /\ d.chan \in Channels
      BY <2>6, TransactionType DEF ReadFails, KeepInv, IInv, TypeOK
    <3>2. sum' = sum /\ taken' = taken
      BY <2>6 DEF ReadFails
    <3>3. /\ \A c \in Channels \ {d.chan} : slot'[c] = slot[c] /\ fresh'[c] = fresh[c]
          /\ slot'[d.chan] \in {slot[d.chan], Unread}
      <4>1. /\ slot \in [Channels -> [val : SUBSET Sample, valid : BOOLEAN]]
            /\ fresh \in [Channels -> BOOLEAN]
        BY DEF KeepInv, IInv, TypeOK, ReaderTypeOK
      <4>2. CASE UNCHANGED <<slot, fresh>>
        BY <4>2
      <4>3. CASE /\ slot' = [slot EXCEPT ![d.chan] = Unread]
                 /\ fresh' = [fresh EXCEPT ![d.chan] = TRUE]
        BY <3>1, <4>1, <4>3
      <4>4. QED
        BY <2>6, <4>2, <4>3 DEF ReadFails
    <3>4. Marked'
      BY <3>3 DEF KeepInv, Marked, Unread
    <3>5. Ahead'
      BY <2>1, <3>1, <3>3 DEF KeepInv, Ahead
    <3>6. Kept'
      <4>1. \A c \in Channels : Open(c)' = Open(c)
        BY <3>2 DEF Open
      <4>2. \A c \in Channels : Handed(c) # {} => Handed(c)' = Handed(c)
        BY <2>4, <3>1, <3>3 DEF Handed
      <4>3. QED
        BY <2>1, <3>2, <4>1, <4>2 DEF KeepInv, Kept
    <3>7. QED
      BY <2>1, <3>4, <3>5, <3>6 DEF KeepInv, PollRead
  <2>7. ASSUME NEW d, NEW z, Answered(d, z)
        PROVE  cfg' \in Configs /\ PollRead' /\ Marked' /\ Ahead' /\ Kept'
    <3>1. d = cfg[at] /\ d.chan \in Channels
      BY <2>7, TransactionType DEF Answered, KeepInv, IInv, TypeOK
    <3>2. New(d.chan)
      BY <2>7, AnswerIsNew DEF KeepInv, IInv
    <3> DEFINE c == d.chan
    <3>3. taken \in Nat /\ taken' = taken + 1
      BY <3>2, ReaderAssumption DEF New, KeepInv, IInv, TypeOK, ReaderTypeOK
    <3>4. Marked'
      BY <3>2 DEF New, KeepInv, Marked
    <3>5. Ahead'
      <4>1. \A x \in Channels \ {c} : fresh'[x] = fresh[x]
        BY <3>2 DEF New
      <4>2. QED
        BY <2>1, <3>1, <4>1 DEF KeepInv, Ahead
    <3>6. Kept'
      <4>1. Handed(c) = {}
        BY <2>4, <3>1 DEF Handed
      <4>2. \E x \in Channels : taken + 1 \in Open(x)' \/ taken + 1 \in Handed(x)'
        BY <3>1, <3>2 DEF New
      <4>3. ASSUME NEW x \in Channels, NEW i \in Open(x) \union Handed(x)
            PROVE  \E y \in Channels : i \in Open(y)' \/ i \in Handed(y)'
        BY <3>1, <3>2, <4>1 DEF New
      <4>4. \A i \in 1..taken' : i \in 1..taken \/ i = taken + 1
        BY <3>3
      <4>5. QED
        BY <2>1, <4>2, <4>3, <4>4 DEF KeepInv, Kept
    <3>7. QED
      BY <2>1, <3>4, <3>5, <3>6 DEF KeepInv, PollRead
  <2>8. QED
    BY <1>2, <2>2, <2>5, <2>6, <2>7 DEF Read, ReadOk, ReadLate
<1>3. QED
  BY <1>1, <1>2

LEMMA KeepStep ==
  ASSUME KeepInv, Separate, [Next]_vars
  PROVE  KeepInv'
<1>1. IInv'
  BY InvStep DEF KeepInv
<1>2. CASE Next
  BY <1>1, <1>2, KeepCases, IdleKeeps, BeginKeeps, ReadingKeeps, StoreKeeps, RestartKeeps
     DEF KeepInv
<1>3. CASE UNCHANGED vars
  BY <1>1, <1>3 DEF KeepInv, PollRead, Marked, Ahead, Kept, Open, Handed, vars,
                    sensorVars, loopVars, history
<1>4. QED
  BY <1>2, <1>3

LEMMA KeepInit ==
  ASSUME Init
  PROVE  KeepInv
<1>1. IInv
  BY InitInv
<1>2. cfg \in Configs /\ PollRead /\ Ahead
  BY DEF Init, ReaderInit, PollRead, Ahead
<1>3. Marked
  BY DEF Init, ReaderInit, Marked, Unread
<1>4. taken = 0
  BY DEF Init, ReaderInit
<1>5. Kept
  BY <1>4 DEF Kept
<1>6. QED
  BY <1>1, <1>2, <1>3, <1>5 DEF KeepInv

\* Where no two devices share a channel_idx, a measurement the bus delivered
\* is in a record, in an open averaging window or about to be stored, unless
\* the power failed over it or a read outside the poll completed its window:
\* no order of polls, test sends, previews, new configurations, late answers
\* and failed transactions makes the reader drop one.
THEOREM NothingForgotten ==
  ASSUME Separate
  PROVE  Spec => []EverySampleStored
<1>1. Init => KeepInv
  BY KeepInit
<1>2. KeepInv /\ [Next]_vars => KeepInv'
  BY KeepStep
<1>3. KeepInv => EverySampleStored
  BY OpenIsOpen, FreshIsHanded DEF KeepInv, Kept, EverySampleStored, Awaiting
<1>4. QED
  BY <1>1, <1>2, <1>3, PTL DEF Spec

-----------------------------------------------------------------------------
(* A value is the average it says it is *)

\* All samples of S come from slaves channel c has in some configuration.
FromHere(c, S) ==
  \A s \in S : \E e \in DevicesOf(c) : SlaveOf[s.sensor] = SlaveOf[e.sensor]

\* An open window has not reached the widest window of its channel: the one
\* it was opened for, if a later configuration asks for a narrower one.
Filling(c) == sum[c] = {} \/ \E e \in DevicesOf(c) : Cardinality(sum[c]) < e.window

Windows ==
  \A c \in Channels : IsFiniteSet(sum[c]) /\ FromHere(c, sum[c]) /\ Filling(c)

\* As many samples as device d asks for.
Fits(c, d) ==
  LET n == Cardinality(slot[c].val) IN
    IF d.window <= 1
    THEN n = 1
    ELSE n >= d.window /\ \E e \in DevicesOf(c) : n <= e.window

Whole(c) ==
  /\ \E d \in Devices : d.on /\ d.chan = c /\ Fits(c, d)
  /\ IsFiniteSet(slot[c].val) /\ FromHere(c, slot[c].val)

Ready == pc = "store" => \A c \in Channels : Storable(c) => Whole(c)

AvgInv == IInv /\ cfg \in Configs /\ Windows /\ Ready

LEMMA InstalledDevice ==
  ASSUME cfg \in Configs, NEW i \in 1..Len(cfg)
  PROVE  cfg[i] \in Devices /\ cfg[i] \in DevicesOf(cfg[i].chan)
BY DEF Devices, DevicesOf

LEMMA OfferedDevices == \A c : \A e \in DevicesOf(c) : e \in Device /\ e.window \in Nat
<1>1. ASSUME NEW c, NEW e \in DevicesOf(c) PROVE e \in Device
  <2>1. PICK k \in Configs : e \in {k[i] : i \in 1..Len(k)}
    BY DEF DevicesOf
  <2>2. PICK i \in 1..Len(k) : e = k[i]
    BY <2>1
  <2>3. k \in Seq(Device)
    BY ConfigsAssumption
  <2>4. QED
    BY <2>2, <2>3
<1>2. QED
  BY <1>1 DEF Device

LEMMA ReadyAgain ==
  ASSUME Ready, UNCHANGED <<pc, cfg, fresh, slot>>
  PROVE  Ready'
BY DEF Ready, Storable, Whole, Fits, FromHere, Devices

\* One sample more: a window that was open grows by one.
LEMMA OneMore ==
  ASSUME NEW S, IsFiniteSet(S), NEW s
  PROVE  /\ IsFiniteSet(S \union {s}) /\ Cardinality(S \union {s}) \in Nat
         /\ Cardinality(S) \in Nat /\ Cardinality(S \union {s}) <= Cardinality(S) + 1
<1>1. IsFiniteSet(S \union {s}) /\ Cardinality(S) \in Nat
      /\ Cardinality(S \union {s}) \in Nat
  BY FS_AddElement, FS_CardinalityType
<1>2. Cardinality(S \union {s}) = Cardinality(S)
      \/ Cardinality(S \union {s}) = Cardinality(S) + 1
  BY FS_AddElement
<1>3. QED
  BY <1>1, <1>2

LEMMA AnswerFills ==
  ASSUME AvgInv, NEW d, NEW z, Answered(d, z), SlaveOf[z] = SlaveOf[d.sensor],
         pc' = pc
  PROVE  Windows' /\ Ready'
<1> DEFINE s == [id |-> taken + 1, sensor |-> z]
           c == d.chan
           S == sum[c]
           whole == S \union {s}
<1>1. PICK k \in 0..BusMax : Transaction(d, k)
  BY DEF Answered
<1>2. c \in Channels /\ d \in Devices /\ d \in DevicesOf(c) /\ d.on /\ cfg' = cfg
      /\ d.window \in Nat
  <2>1. d = cfg[at] /\ at \in 1..Len(cfg) /\ d \in Device /\ cfg' = cfg /\ c \in Channels
    BY <1>1, TransactionType DEF AvgInv, IInv, TypeOK
  <2>2. d.on
    BY <1>1 DEF Transaction
  <2>3. QED
    BY <2>1, <2>2, InstalledDevice DEF AvgInv, Device
<1>3. Accept(d, s) /\ s.sensor = z
  BY DEF Answered
<1> HIDE DEF s
<1>4. /\ slot \in [Channels -> [val : SUBSET Sample, valid : BOOLEAN]]
      /\ fresh \in [Channels -> BOOLEAN]
      /\ sum \in [Channels -> SUBSET Sample]
  BY DEF AvgInv, IInv, TypeOK, ReaderTypeOK
<1>5. IsFiniteSet(S) /\ FromHere(c, S) /\ Filling(c)
  BY <1>2 DEF AvgInv, Windows
<1>6. IsFiniteSet(whole) /\ Cardinality(whole) \in Nat /\ Cardinality(S) \in Nat
      /\ Cardinality(whole) <= Cardinality(S) + 1
  BY <1>5, OneMore
<1>7. FromHere(c, whole) /\ FromHere(c, {s})
  BY <1>2, <1>3, <1>5 DEF FromHere
<1> HIDE DEF c, S
<1>8. Devices' = Devices
  BY <1>2 DEF Devices
\* Only channel c changes, and its new value fits device d.
<1>9. ASSUME NEW v, slot' = [slot EXCEPT ![c] = [val |-> v, valid |-> TRUE]],
             fresh' = [fresh EXCEPT ![c] = TRUE], IsFiniteSet(v), FromHere(c, v),
             IF d.window <= 1
             THEN Cardinality(v) = 1
             ELSE Cardinality(v) >= d.window
                  /\ \E e \in DevicesOf(c) : Cardinality(v) <= e.window
      PROVE  Ready'
  <2>1. slot'[c].val = v
    BY <1>2, <1>4, <1>9
  <2>2. d.on /\ d.chan = c /\ Fits(c, d)'
    BY <1>2, <1>9, <2>1 DEF Fits, c
  <2>3. Whole(c)'
    BY <1>2, <1>8, <1>9, <2>1, <2>2 DEF Whole, FromHere
  <2>4. ASSUME NEW x \in Channels \ {c}, pc = "store", Storable(x)' PROVE Whole(x)'
    <3>1. slot'[x] = slot[x] /\ fresh'[x] = fresh[x]
      BY <1>2, <1>4, <1>9, <2>4
    <3>2. Whole(x)
      BY <2>4, <3>1 DEF AvgInv, Ready, Storable
    <3>3. QED
      BY <1>8, <3>1, <3>2 DEF Whole, Fits, FromHere
  <2>5. QED
    BY <2>3, <2>4 DEF Ready
\* Only the window of channel c changes.
<1>10. ASSUME NEW w, sum' = [sum EXCEPT ![c] = w], IsFiniteSet(w), FromHere(c, w),
              w = {} \/ \E e \in DevicesOf(c) : Cardinality(w) < e.window
       PROVE  Windows'
  <2>1. sum'[c] = w /\ \A x \in Channels \ {c} : sum'[x] = sum[x]
    BY <1>2, <1>4, <1>10
  <2>2. QED
    BY <1>10, <2>1 DEF AvgInv, Windows, Filling, FromHere
<1>11. CASE /\ d.window <= 1
            /\ slot' = [slot EXCEPT ![c] = [val |-> {s}, valid |-> TRUE]]
            /\ fresh' = [fresh EXCEPT ![c] = TRUE]
            /\ sum' = [sum EXCEPT ![c] = @]
  <2>1. Cardinality({s}) = 1 /\ IsFiniteSet({s})
    BY FS_Singleton
  <2>2. sum' = [sum EXCEPT ![c] = S]
    BY <1>11 DEF S
  <2>3. QED
    BY <1>5, <1>7, <1>9, <1>10, <1>11, <2>1, <2>2 DEF Filling, S
<1>12. CASE /\ ~(d.window <= 1) /\ Cardinality(whole) >= d.window
            /\ slot' = [slot EXCEPT ![c] = [val |-> whole, valid |-> TRUE]]
            /\ fresh' = [fresh EXCEPT ![c] = TRUE]
            /\ sum' = [sum EXCEPT ![c] = {}]
  <2>1. S # {}
    <3>1. SUFFICES ASSUME S = {} PROVE FALSE
      OBVIOUS
    <3>2. whole = {s}
      BY <3>1
    <3>3. Cardinality(whole) = 1
      BY <3>2, FS_Singleton
    <3>4. QED
      BY <1>2, <1>12, <3>3
  <2>2. PICK e \in DevicesOf(c) : Cardinality(S) < e.window
    BY <1>5, <2>1 DEF Filling, S
  <2>3. e.window \in Nat
    BY OfferedDevices
  <2>4. Cardinality(whole) <= e.window
    BY <1>6, <2>2, <2>3
  <2>5. IsFiniteSet({}) /\ FromHere(c, {})
    BY FS_EmptySet DEF FromHere
  <2>6. QED
    BY <1>6, <1>7, <1>9, <1>10, <1>12, <2>4, <2>5
<1>13. CASE /\ ~(d.window <= 1) /\ ~(Cardinality(whole) >= d.window)
            /\ sum' = [sum EXCEPT ![c] = whole]
            /\ UNCHANGED <<slot, fresh>>
  <2>1. Cardinality(whole) < d.window
    BY <1>2, <1>6, <1>13
  <2>2. Ready'
    BY <1>2, <1>13, ReadyAgain DEF AvgInv
  <2>3. QED
    BY <1>2, <1>6, <1>7, <1>10, <1>13, <2>1, <2>2
<1>14. QED
  BY <1>3, <1>11, <1>12, <1>13, AcceptCases DEF c, S

LEMMA FailFills ==
  ASSUME AvgInv, NEW d, ReadFails(d), pc' = pc
  PROVE  Windows' /\ Ready'
<1>1. PICK k \in 0..BusMax : Transaction(d, k)
  BY DEF ReadFails
<1>2. cfg' = cfg /\ sum' = sum /\ d.chan \in Channels
  BY <1>1, TransactionType DEF ReadFails, AvgInv, IInv, TypeOK
<1>3. Windows'
  BY <1>2 DEF AvgInv, Windows, Filling, FromHere
<1>4. CASE UNCHANGED <<slot, fresh>>
  BY <1>2, <1>3, <1>4, ReadyAgain DEF AvgInv
<1>5. CASE /\ slot' = [slot EXCEPT ![d.chan] = Unread]
           /\ fresh' = [fresh EXCEPT ![d.chan] = TRUE]
  <2>1. /\ slot \in [Channels -> [val : SUBSET Sample, valid : BOOLEAN]]
        /\ fresh \in [Channels -> BOOLEAN]
    BY DEF AvgInv, IInv, TypeOK, ReaderTypeOK
  <2>2. ~slot'[d.chan].valid
    BY <1>2, <1>5, <2>1 DEF Unread
  <2>3. \A x \in Channels \ {d.chan} : slot'[x] = slot[x] /\ fresh'[x] = fresh[x]
    BY <1>2, <1>5, <2>1
  <2>4. QED
    BY <1>2, <1>3, <2>2, <2>3
       DEF AvgInv, Ready, Storable, Whole, Fits, FromHere, Devices
<1>6. QED
  BY <1>4, <1>5 DEF ReadFails

LEMMA ReadingFills ==
  ASSUME AvgInv, Reading
  PROVE  cfg' \in Configs /\ Windows' /\ Ready'
<1>1. Read /\ pc' = pc
  BY DEF Reading, loopVars
<1>2. cfg' = cfg
  BY <1>1 DEF Read, SkipDevice, ReadFails, ReadOk, ReadLate, Answered, Transaction,
              EndRead
<1>3. CASE SkipDevice \/ EndRead
  <2>1. UNCHANGED <<fresh, slot, sum>>
    BY <1>3 DEF SkipDevice, EndRead
  <2>2. QED
    BY <1>1, <1>2, <2>1, ReadyAgain DEF AvgInv, Windows, Filling, FromHere
<1>4. ASSUME NEW i \in 1..Len(cfg), ReadFails(cfg[i]) PROVE Windows' /\ Ready'
  BY <1>1, <1>4, FailFills
<1>5. ASSUME NEW i \in 1..Len(cfg), ReadOk(cfg[i]) \/ ReadLate(cfg[i])
      PROVE  Windows' /\ Ready'
  <2>1. PICK z : Answered(cfg[i], z) /\ SlaveOf[z] = SlaveOf[cfg[i].sensor]
    BY <1>5 DEF ReadOk, ReadLate
  <2>2. QED
    BY <1>1, <2>1, AnswerFills
<1>6. QED
  BY <1>1, <1>2, <1>3, <1>4, <1>5 DEF Read, AvgInv

LEMMA AvgStep ==
  ASSUME AvgInv, [Next]_vars
  PROVE  AvgInv'
<1>1. IInv'
  BY InvStep DEF AvgInv
<1>2. ASSUME UNCHANGED <<cfg, fresh, slot, sum, pc>> PROVE AvgInv'
  BY <1>1, <1>2, ReadyAgain DEF AvgInv, Windows, Filling, FromHere
<1>3. ASSUME Next, ~Reading, sum' = sum, cfg' \in Configs,
             pc' = "store" => \A c \in Channels : ~fresh'[c]
      PROVE  AvgInv'
  BY <1>1, <1>3 DEF AvgInv, Windows, Filling, FromHere, Ready, Storable
<1>4. CASE Next
  <2>1. pc' = "store" => Poll \/ Reading
    BY <1>4, Moves, LocatedType DEF AvgInv, IInv
  <2>2. Poll => reader' = "loop" /\ \A c \in Channels : ~fresh'[c]
    BY DEF Poll, BeginRead
  <2>3. CASE Reading
    BY <1>1, <2>3, ReadingFills DEF AvgInv
  <2>4. CASE ~Reading
    <3>1. CASE sum' = sum /\ cfg' \in Configs
      BY <1>3, <1>4, <2>1, <2>2, <2>4, <3>1
    <3>2. CASE Restart
      <4>1. cfg' = cfg /\ \A c \in Channels : sum'[c] = {} /\ ~fresh'[c]
        BY <3>2 DEF Restart, ReaderReset
      <4>2. IsFiniteSet({}) /\ \A c : FromHere(c, {})
        BY FS_EmptySet DEF FromHere
      <4>3. Windows'
        BY <4>1, <4>2 DEF Windows, Filling, FromHere
      <4>4. Ready'
        BY <4>1 DEF Ready, Storable
      <4>5. QED
        BY <1>1, <4>1, <4>3, <4>4 DEF AvgInv
    <3>3. Store => sum' = sum /\ cfg' = cfg
      BY DEF Store, AppendRecords, sensorVars
    <3>4. (\E who \in {"loop", "test", "preview"} : BeginRead(who)) => sum' = sum /\ cfg' = cfg
      BY DEF BeginRead
    <3>5. QED
      BY <1>4, <2>4, <3>1, <3>2, <3>3, <3>4, KeepCases DEF AvgInv
  <2>5. QED
    BY <2>3, <2>4
<1>5. CASE UNCHANGED vars
  BY <1>2, <1>5 DEF vars, sensorVars, loopVars
<1>6. QED
  BY <1>4, <1>5

LEMMA AvgInit ==
  ASSUME Init
  PROVE  AvgInv
<1>1. IInv /\ cfg \in Configs
  BY InitInv DEF Init, ReaderInit
<1>2. \A c \in Channels : sum[c] = {}
  BY DEF Init, ReaderInit
<1>3. IsFiniteSet({}) /\ \A c : FromHere(c, {})
  BY FS_EmptySet DEF FromHere
<1>4. Windows
  BY <1>2, <1>3 DEF Windows, Filling
<1>5. Ready
  BY DEF Init, Ready
<1>6. QED
  BY <1>1, <1>4, <1>5 DEF AvgInv

LEMMA AvgInvariance == Spec => []AvgInv
<1>1. Init => AvgInv
  BY AvgInit
<1>2. AvgInv /\ [Next]_vars => AvgInv'
  BY AvgStep
<1>3. QED
  BY <1>1, <1>2, PTL DEF Spec

\* Whatever configurations follow one another, whoever reads the sensors and
\* wherever the power fails: a value on its way to the card is one sample, or
\* the mean of at least as many as its device asks for and of no more than the
\* widest window of its channel, all of them from slaves of that channel.
THEOREM AveragesAreWhole == Spec => []AverageOfItsWindow
<1>1. AvgInv => AverageOfItsWindow
  BY DEF AvgInv, Ready, Whole, Fits, FromHere, AverageOfItsWindow, At
<1>2. QED
  BY <1>1, AvgInvariance, PTL

\* A channel whose window is the same in every configuration stores exactly
\* that many samples at a time, one if it does not average.
THEOREM SteadyAverage ==
  ASSUME NEW c \in Channels, NEW w \in Nat, \A e \in DevicesOf(c) : e.window = w
  PROVE  Spec => [](At("store") /\ Storable(c) =>
                      Cardinality(slot[c].val) = IF w <= 1 THEN 1 ELSE w)
<1>1. ASSUME AvgInv, At("store"), Storable(c)
      PROVE  Cardinality(slot[c].val) = IF w <= 1 THEN 1 ELSE w
  <2>1. /\ IsFiniteSet(slot[c].val)
        /\ \E d \in Devices : d.chan = c /\ Fits(c, d)
    BY <1>1 DEF AvgInv, Ready, Whole, At
  <2>2. PICK d \in Devices : d.chan = c /\ Fits(c, d)
    BY <2>1
  <2>3. PICK i \in 1..Len(cfg) : d = cfg[i]
    BY DEF Devices
  <2>4. d.window = w
    BY <1>1, <2>2, <2>3, InstalledDevice DEF AvgInv
  <2>5. CASE w <= 1
    BY <2>2, <2>4, <2>5 DEF Fits
  <2>6. CASE ~(w <= 1)
    <3> DEFINE n == Cardinality(slot[c].val)
    <3>1. n >= w /\ n <= w
      BY <2>2, <2>4, <2>6 DEF Fits
    <3>2. n \in Nat
      BY <2>1, FS_CardinalityType
    <3> HIDE DEF n
    <3>3. n = w
      BY <3>1, <3>2
    <3>4. QED
      BY <2>6, <3>3 DEF n
  <2>7. QED
    BY <2>5, <2>6
<1>2. AvgInv => (At("store") /\ Storable(c) =>
                   Cardinality(slot[c].val) = IF w <= 1 THEN 1 ELSE w)
  BY <1>1
<1>3. QED
  BY <1>2, AvgInvariance, PTL

-----------------------------------------------------------------------------
(* What the steps take *)

\* The longest read of all devices, and of those before `at'.
Tour == Len(cfg) * BusMax
Done == (at - 1) * BusMax

\* k ticks pass, and no sensor is read in them.
Passes(k) ==
  /\ k \in Nat
  /\ now' = (now + k) % Wrap
  /\ UNCHANGED <<cfg, lastPoll>>
  /\ \A c \in Channels : age'[c] <= age[c] + k

\* A turn of the web server.
Serving ==
  /\ pc = "tick" /\ pc' = IF place = "wait" THEN "expire" ELSE "sync"
  /\ UNCHANGED <<place, t0>>
  /\ reader = "none" /\ at' = 1
  /\ testState # "building" /\ testState' # "building"
  /\ \/ reader' = "none" /\ UNCHANGED <<webActive, lastReq>>
     \/ reader' \in {"none", "preview"} /\ webActive' /\ lastReq' = now

\* A read of the poll or of a test begins.
Beginning ==
  /\ reader = "none" /\ at' = 1
  /\ UNCHANGED <<place, t0, webActive, lastReq>>
  /\ \/ /\ place = "pass" /\ pc = "poll" /\ pc' = "store" /\ reader' = "loop"
        /\ testState # "building" /\ testState' # "building"
     \/ /\ pc = "test" /\ pc' = "test" /\ reader' = "test"
        /\ testState # "building" /\ testState' = "building"

\* A read goes past a device.
Visiting(k) ==
  /\ k \in 0..BusMax
  /\ now' = (now + k) % Wrap
  /\ reader # "none" /\ at \in 1..Len(cfg) /\ at' = at + 1
  /\ UNCHANGED <<cfg, reader, place, pc, t0, testState, webActive, lastReq>>

\* A read ends.
Ending ==
  /\ reader # "none" /\ at = Len(cfg) + 1
  /\ reader' = "none" /\ at' = 1
  /\ UNCHANGED <<place, pc, t0, testState, webActive, lastReq>>

\* The steps only a pass has.
InPass(k) ==
  /\ place = "pass" /\ place' = "pass"
  /\ testState # "building" /\ UNCHANGED <<testState, webActive>>
  /\ \/ k = 0 /\ pc = "store" /\ pc' = "send"
     \/ k = 0 /\ pc = "retry" /\ pc' = "rest"
     \/ k = 0 /\ pc = "rest" /\ pc' = "tick" /\ ~webActive
     \/ /\ k \in 0..SendMax /\ (webActive => k = 0)
        /\ \/ pc = "send" /\ pc' = "expire"
           \/ pc = "retry" /\ pc' = "iridium"
           \/ pc = "iridium" /\ pc' = "rest"

\* The steps it shares with the loops that serve the browser.
Shared(k) ==
  /\ UNCHANGED <<place, t0>>
  /\ \/ /\ k = 0 /\ testState # "building" /\ UNCHANGED <<testState, webActive>>
        /\ \/ pc = "sync" /\ pc' = IF place = "pass" THEN "poll" ELSE "expire"
           \/ pc = "test" /\ pc' = IF place = "pass" THEN "retry" ELSE "delay"
     \/ /\ k = 0 /\ testState # "building" /\ UNCHANGED testState
        /\ pc = "expire" /\ pc' = "test"
        /\ webActive' => webActive /\ Since(lastReq) < IdleTimeout
     \/ /\ k \in 0..SendMax /\ testState = "building" /\ testState' # "building"
        /\ pc = "test" /\ pc' = IF place = "pass" THEN "retry" ELSE "delay"
        /\ UNCHANGED webActive

\* Into the two loops, around them and out of them.
Looping(k) ==
  /\ testState # "building" /\ UNCHANGED <<testState, webActive>>
  /\ \/ /\ k = 0 /\ place = "pass" /\ pc = "rest"
        /\ place' # "pass" /\ pc' = "head" /\ t0' = now
     \/ /\ k = 0 /\ place # "pass" /\ pc = "head" /\ pc' = "tick"
        /\ IF Since(t0) < PollInterval
           THEN UNCHANGED <<place, t0>>
           ELSE place' = "pass"
     \/ /\ k = 1 /\ place # "pass" /\ pc = "delay" /\ pc' = "head"
        /\ UNCHANGED <<place, t0>>
     \/ /\ k \in 0..1 /\ place # "pass" /\ pc = "delay"
        /\ place' = "pass" /\ pc' = "tick"

Travels(k) ==
  \/ k = 0 /\ (Serving \/ Beginning \/ Ending)
  \/ /\ InPass(k) \/ Shared(k) \/ Looping(k)
     /\ reader = "none" /\ reader' = "none" /\ at' = 1 /\ UNCHANGED lastReq

LEMMA StandsStill ==
  ASSUME ReaderTypeOK, now' = now
  PROVE  now' = (now + 0) % Wrap
<1>1. now \in 0..(Wrap - 1)
  BY DEF ReaderTypeOK
<1>2. now % Wrap = now
  BY <1>1, ModSmall
<1>3. now + 0 = now
  BY <1>1, ReaderAssumption
<1>4. QED
  BY <1>2, <1>3

LEMMA SensorsPass ==
  ASSUME ReaderTypeOK, UNCHANGED <<cfg, now, lastPoll, age>>
  PROVE  Passes(0)
<1>1. \A c \in Channels : age[c] \in Int
  BY ReaderAssumption DEF ReaderTypeOK
<1>2. \A c \in Channels : age'[c] <= age[c] + 0
  BY <1>1
<1>3. QED
  BY <1>2, StandsStill DEF Passes

LEMMA ElapsePasses ==
  ASSUME ReaderTypeOK, NEW k \in Nat, Elapse(k), UNCHANGED <<cfg, lastPoll>>
  PROVE  Passes(k)
<1>1. ASSUME NEW c \in Channels PROVE age'[c] <= age[c] + k
  <2>1. age[c] \in Nat /\ AgeMax \in Nat
    BY ReaderAssumption DEF ReaderTypeOK
  <2>2. age'[c] = IF age[c] + k > AgeMax THEN AgeMax ELSE age[c] + k
    BY DEF Elapse, Aged
  <2>3. QED
    BY <2>1, <2>2
<1>2. QED
  BY <1>1 DEF Passes, Elapse

LEMMA SpendPasses ==
  ASSUME ReaderTypeOK, NEW k \in Nat, Spend(k), UNCHANGED <<cfg, lastPoll>>
  PROVE  Passes(k)
<1>1. CASE Elapse(k)
  BY <1>1, ElapsePasses
<1>2. CASE Stall(k)
  <2>1. \A c \in Channels : age'[c] = age[c] /\ age[c] \in Nat
    BY <1>2, ReaderAssumption DEF Stall, ReaderTypeOK
  <2>2. \A c \in Channels : age'[c] <= age[c] + k
    BY <2>1
  <2>3. QED
    BY <1>2, <2>2 DEF Stall, Passes
<1>3. QED
  BY <1>1, <1>2 DEF Spend

LEMMA ServerTravels ==
  ASSUME IInv, ServerTick
  PROVE  Serving /\ (Passes(0) \/ PostConfig)
<1>1. Located /\ ReaderTypeOK /\ at = 1 /\ reader = "none" /\ pc = "tick" /\ Step
      /\ testState # "building" /\ UNCHANGED t0
  BY LocatedType
     DEF IInv, TypeOK, Outside, ServerTick, NoRequest, Denied, Visit, AskTest,
         AskPreview, PostConfig, Served, Asked, At, Synchronous, Advance
<1>2. pc' = (IF place = "wait" THEN "expire" ELSE "sync") /\ place' = place
  BY <1>1, Follows
<1>3. testState' # "building"
  BY <1>1 DEF ServerTick, NoRequest, Denied, Visit, AskTest, AskPreview, PostConfig,
              webVars
<1>4. \/ reader' = "none" /\ UNCHANGED <<webActive, lastReq>>
      \/ reader' \in {"none", "preview"} /\ webActive' /\ lastReq' = now
  BY <1>1 DEF ServerTick, NoRequest, Denied, Visit, AskTest, AskPreview, PostConfig,
              Served, webVars, sensorVars, BeginRead, Configure
<1>5. at' = 1
  BY <1>1 DEF ServerTick, NoRequest, Denied, Visit, AskTest, AskPreview, PostConfig,
              sensorVars, BeginRead, Configure
<1>6. UNCHANGED <<cfg, now, lastPoll, age>> \/ PostConfig
  BY DEF ServerTick, NoRequest, Denied, Visit, AskTest, AskPreview, PostConfig,
         sensorVars, BeginRead
<1>7. QED
  BY <1>1, <1>2, <1>3, <1>4, <1>5, <1>6, SensorsPass DEF Serving

LEMMA ReadingTravels ==
  ASSUME IInv, Reading
  PROVE  \/ Passes(0) /\ Ending
         \/ \E k \in 0..BusMax : Visiting(k)
<1>1. ReaderTypeOK /\ Read /\ UNCHANGED <<place, pc, t0, testState, webActive, lastReq>>
  BY DEF IInv, TypeOK, Reading, loopVars, webVars
<1>2. CASE EndRead
  <2>1. Ending /\ UNCHANGED <<cfg, now, lastPoll, age>>
    BY <1>1, <1>2 DEF EndRead, Ending
  <2>2. QED
    BY <1>1, <2>1, SensorsPass
<1>3. CASE SkipDevice
  <2>1. 0 \in 0..BusMax /\ now' = (now + 0) % Wrap
    BY <1>1, <1>3, StandsStill, ReaderAssumption DEF SkipDevice
  <2>2. QED
    BY <1>1, <1>3, <2>1 DEF SkipDevice, AtDevice, Visiting
<1>4. ASSUME NEW d, NEW k \in 0..BusMax, Transaction(d, k)
      PROVE  Visiting(k)
  BY <1>1, <1>4 DEF Transaction, AtDevice, Visiting
<1>5. QED
  BY <1>1, <1>2, <1>3, <1>4 DEF Read, ReadFails, ReadOk, ReadLate, Answered

LEMMA SendTravels ==
  ASSUME IInv, Send
  PROVE  \E k : Passes(k) /\ Travels(k)
<1>1. Located /\ ReaderTypeOK /\ at = 1 /\ reader = "none" /\ testState # "building"
      /\ at' = at /\ reader' = reader
      /\ UNCHANGED <<testState, webActive, lastReq, cfg, lastPoll>>
  BY LocatedType
     DEF IInv, TypeOK, Outside, Send, NotYetSending, PeriodicSkip, PeriodicSend,
         NoBackups, RetrySkip, RetrySend, RetryTimer, IridiumSkip, IridiumSend,
         Retransmit, At, Synchronous, sensorVars, webVars
<1>2. /\ place = "pass" /\ place' = "pass"
      /\ \/ pc = "send" /\ pc' = "expire"
         \/ pc = "retry" /\ pc' \in {"rest", "iridium"}
         \/ pc = "iridium" /\ pc' = "rest"
  <2>1. CASE NoBackups \/ RetrySkip \/ RetrySend
    BY <1>1, <2>1, PassOnly DEF NoBackups, RetrySkip, RetrySend, RetryTimer, At
  <2>2. CASE NotYetSending \/ PeriodicSkip \/ PeriodicSend \/ IridiumSkip \/ IridiumSend
    BY <1>1, <2>2, Follows
       DEF NotYetSending, PeriodicSkip, PeriodicSend, IridiumSkip, IridiumSend, At,
           Advance
  <2>3. QED
    BY <2>1, <2>2 DEF Send
<1>3. CASE NoBackups
  BY <1>1, <1>2, <1>3, SensorsPass DEF NoBackups, At, sensorVars, InPass, Travels
<1>4. CASE NotYetSending \/ PeriodicSkip \/ RetrySkip \/ IridiumSkip
  <2>1. UNCHANGED sensorVars /\ (pc' = "rest" => pc = "iridium")
    BY <1>2, <1>4 DEF NotYetSending, PeriodicSkip, RetrySkip, RetryTimer, IridiumSkip, At
  <2>2. 0 \in 0..SendMax
    BY LoopAssumption
  <2>3. QED
    BY <1>1, <1>2, <2>1, <2>2, SensorsPass DEF sensorVars, InPass, Travels
<1>5. CASE PeriodicSend \/ RetrySend \/ IridiumSend
  <2>1. Retransmit /\ ~webActive /\ (pc' = "rest" => pc = "iridium")
    BY <1>2, <1>5 DEF PeriodicSend, RetrySend, RetryTimer, IridiumSend, At
  <2>2. PICK k \in 0..SendMax : Elapse(k)
    BY <2>1 DEF Retransmit
  <2>3. Passes(k)
    BY <1>1, <2>2, ElapsePasses, LoopAssumption
  <2>4. QED
    BY <1>1, <1>2, <2>1, <2>2, <2>3 DEF InPass, Travels
<1>6. QED
  BY <1>3, <1>4, <1>5 DEF Send

LEMMA TestTravels ==
  ASSUME IInv, Test
  PROVE  \E k : Passes(k) /\ Travels(k)
<1>1. Located /\ ReaderTypeOK /\ Building /\ Outside
  BY LocatedType DEF IInv, TypeOK
<1>2. CASE NoTest
  <2>1. reader = "none" /\ at = 1 /\ pc = "test" /\ testState # "building" /\ Step
        /\ UNCHANGED <<t0, sensorVars, testState, webActive, lastReq>>
    BY <1>1, <1>2 DEF NoTest, At, Synchronous, Advance, webVars, Outside
  <2>2. pc' = (IF place = "pass" THEN "retry" ELSE "delay") /\ place' = place
    BY <1>1, <2>1, Follows
  <2>3. QED
    BY <1>1, <2>1, <2>2, SensorsPass DEF sensorVars, Shared, Travels
<1>3. CASE BeginTest
  <2>1. Beginning /\ UNCHANGED <<cfg, now, lastPoll, age>>
    BY <1>3 DEF BeginTest, BeginRead, At, loopVars, Beginning
  <2>2. QED
    BY <1>1, <2>1, SensorsPass DEF Travels
<1>4. CASE TestSend
  <2>1. reader = "none" /\ at = 1 /\ pc = "test" /\ Step /\ testState = "building"
        /\ testState' # "building" /\ UNCHANGED <<t0, cfg, lastPoll, reader, at, webActive, lastReq>>
    BY <1>1, <1>4 DEF TestSend, Building, Advance, Outside
  <2>2. pc' = (IF place = "pass" THEN "retry" ELSE "delay") /\ place' = place
    BY <1>1, <2>1, Follows
  <2>3. PICK k \in 0..SendMax : Spend(k)
    BY <1>4 DEF TestSend
  <2>4. Passes(k)
    BY <1>1, <2>1, <2>3, SpendPasses, LoopAssumption
  <2>5. QED
    BY <2>1, <2>2, <2>3, <2>4 DEF Shared, Travels
<1>5. QED
  BY <1>2, <1>3, <1>4 DEF Test

LEMMA RestTravels ==
  ASSUME IInv, Rest
  PROVE  Restart \/ \E k : Passes(k) /\ Travels(k)
<1>1. Located /\ ReaderTypeOK /\ Outside
  BY LocatedType DEF IInv, TypeOK
<1>2. ASSUME NEW k \in 0..1, Elapse(k) \/ Spend(k), UNCHANGED <<cfg, lastPoll>>
      PROVE  Passes(k)
  BY <1>1, <1>2, ElapsePasses, SpendPasses
<1>3. CASE EnterLoop
  <2>1. /\ reader = "none" /\ at = 1 /\ pc = "rest" /\ testState # "building"
        /\ place' # "pass" /\ pc' = "head" /\ t0' = now
        /\ UNCHANGED <<sensorVars, testState, webActive, lastReq>>
    BY <1>1, <1>3 DEF EnterLoop, Enter, At, Synchronous, webVars, Outside
  <2>2. place = "pass"
    BY <1>1, <2>1, PassOnly
  <2>3. QED
    BY <1>1, <2>1, <2>2, SensorsPass DEF sensorVars, Looping, Travels
<1>4. CASE LoopHead
  <2>1. /\ reader = "none" /\ at = 1 /\ pc = "head" /\ testState # "building"
        /\ UNCHANGED <<sensorVars, testState, webActive, lastReq>>
    BY <1>1, <1>4 DEF LoopHead, At, Synchronous, webVars, Outside
  <2>2. place # "pass"
    BY <1>1, <2>1, Places, StepsOfPlaces DEF Located
  <2>3. /\ pc' = "tick"
        /\ IF Since(t0) < PollInterval THEN UNCHANGED <<place, t0>> ELSE place' = "pass"
    BY <1>1, <1>4, <2>1, Follows DEF LoopHead, Advance, NextPass, Enter
  <2>4. QED
    BY <1>1, <2>1, <2>2, <2>3, SensorsPass DEF sensorVars, Looping, Travels
<1>5. CASE WebDelay \/ WaitDelay \/ WaitBreak
  <2>1. /\ reader = "none" /\ at = 1 /\ pc = "delay" /\ testState # "building"
        /\ UNCHANGED <<testState, webActive, lastReq, reader, at, cfg, lastPoll>>
    BY <1>1, <1>5
       DEF WebDelay, WaitDelay, WaitBreak, At, Synchronous, webVars, sensorVars, Outside
  <2>2. place # "pass"
    BY <1>1, <2>1, Places, StepsOfPlaces DEF Located
  <2>3. CASE WaitBreak
    BY <1>1, <2>1, <2>2, <2>3, SensorsPass
       DEF WaitBreak, NextPass, Enter, sensorVars, Looping, Travels
  <2>4. CASE WebDelay \/ WaitDelay
    <3>1. Passes(1)
      BY <1>2, <2>1, <2>4 DEF WebDelay, WaitDelay
    <3>2. \/ pc' = "head" /\ UNCHANGED <<place, t0>>
          \/ pc' = "tick" /\ place' = "pass"
      BY <1>1, <2>1, <2>4, Follows DEF WebDelay, WaitDelay, Advance, NextPass, Enter
    <3>3. QED
      BY <2>1, <2>2, <3>1, <3>2 DEF Looping, Travels
  <2>5. QED
    BY <1>5, <2>3, <2>4
<1>6. CASE Sleep
  <2>1. /\ reader = "none" /\ at = 1 /\ pc = "rest" /\ testState # "building"
        /\ place' = "pass" /\ pc' = "tick" /\ ~webActive
        /\ UNCHANGED <<sensorVars, testState, webActive, lastReq>>
    BY <1>1, <1>6
       DEF Sleep, Asleep, NextPass, Enter, At, Synchronous, webVars, Outside
  <2>2. place = "pass"
    BY <1>1, <2>1, PassOnly
  <2>3. QED
    BY <1>1, <2>1, <2>2, SensorsPass DEF sensorVars, InPass, Travels
<1>7. QED
  BY <1>3, <1>4, <1>5, <1>6 DEF Rest, SleepReset

\* Every step is one of those above, or it restarts the device.
LEMMA Travelling ==
  ASSUME IInv, Next
  PROVE  \/ Restart
         \/ Serving /\ PostConfig
         \/ Reading /\ \E k \in 0..BusMax : Visiting(k)
         \/ \E k : Passes(k) /\ Travels(k)
<1>1. Located /\ ReaderTypeOK /\ Outside
  BY LocatedType DEF IInv, TypeOK
<1>2. CASE ServerTick
  BY <1>2, ServerTravels DEF Travels
<1>3. CASE Reading
  BY <1>3, ReadingTravels DEF Travels
<1>4. CASE SyncFlag
  <2>1. reader = "none" /\ at = 1 /\ testState # "building" /\ pc = "sync"
        /\ UNCHANGED <<sensorVars, place, t0, webActive, lastReq, testState>>
    BY <1>1, <1>4 DEF SyncFlag, At, Synchronous, Outside
  <2>2. pc' = IF place = "pass" THEN "poll" ELSE "expire"
    BY <1>1, <1>4, <2>1, SyncFollows DEF SyncFlag
  <2>3. QED
    BY <1>1, <2>1, <2>2, SensorsPass DEF sensorVars, Shared, Travels
<1>5. CASE Poll
  <2>1. pc = "poll" /\ Step
    BY <1>5 DEF Poll, At, Advance
  <2>2. place = "pass" /\ pc' = "store" /\ place' = place
    BY <1>1, <2>1, Follows
  <2>3. Beginning /\ UNCHANGED <<cfg, now, lastPoll, age>>
    BY <1>5, <2>1, <2>2
       DEF Poll, BeginRead, At, Synchronous, Advance, webVars, Beginning
  <2>4. QED
    BY <1>1, <2>3, SensorsPass DEF Travels
<1>6. CASE Store
  <2>1. reader = "none" /\ at = 1 /\ testState # "building" /\ pc = "store" /\ Step
        /\ UNCHANGED <<sensorVars, webActive, lastReq, testState>>
    BY <1>1, <1>6
       DEF Store, AppendRecords, At, Synchronous, Advance, webVars, Outside
  <2>2. place = "pass" /\ pc' = "send" /\ place' = place
    BY <1>1, <2>1, Follows
  <2>3. QED
    BY <1>1, <2>1, <2>2, SensorsPass DEF sensorVars, InPass, Travels
<1>7. CASE Expire
  <2>1. reader = "none" /\ at = 1 /\ testState # "building" /\ pc = "expire" /\ Step
        /\ UNCHANGED <<sensorVars, t0, lastReq, testState>>
        /\ webActive' = (webActive /\ ~Expired)
    BY <1>1, <1>7 DEF Expire, At, Synchronous, Advance, Outside
  <2>2. pc' = "test" /\ place' = place
    BY <1>1, <2>1, Follows
  <2>3. webActive' => webActive /\ Since(lastReq) < IdleTimeout
    <3>1. Since(lastReq) \in Int /\ IdleTimeout \in Int
      BY <1>1, SinceType, LoopAssumption, TypeParts DEF IInv, OwnType
    <3>2. ~(Since(lastReq) >= IdleTimeout) => Since(lastReq) < IdleTimeout
      BY <3>1
    <3>3. webActive' => webActive /\ ~Expired
      BY <2>1
    <3>4. QED
      BY <3>2, <3>3 DEF Expired
  <2>4. QED
    BY <1>1, <2>1, <2>2, <2>3, SensorsPass DEF sensorVars, Shared, Travels
<1>8. QED
  BY <1>2, <1>3, <1>4, <1>5, <1>6, <1>7, SendTravels, TestTravels, RestTravels
     DEF Next, Loop, PowerLoss

-----------------------------------------------------------------------------
(* The length of a read *)

LEMMA Multiples ==
  ASSUME NEW a \in Nat, NEW b \in Nat, a <= b
  PROVE  a * BusMax \in Nat /\ a * BusMax <= b * BusMax
         /\ (a + 1) * BusMax = a * BusMax + BusMax
<1> DEFINE d == b - a
<1>1. BusMax \in Nat /\ d \in Nat /\ b = a + d
  BY ReaderAssumption
<1> HIDE DEF d
<1>2. b * BusMax = a * BusMax + d * BusMax /\ d * BusMax \in Nat /\ a * BusMax \in Nat
  BY <1>1
<1>3. (a + 1) * BusMax = a * BusMax + BusMax
  BY <1>1
<1>4. QED
  BY <1>1, <1>2, <1>3

LEMMA ReadLength ==
  ASSUME ReaderTypeOK
  PROVE  /\ Tour \in Nat /\ Done \in Nat /\ Done <= Tour
         /\ at = 1 => Done = 0
         /\ at = Len(cfg) + 1 => Done = Tour
         /\ at <= Len(cfg) => Done + BusMax <= Tour
         /\ at' = at + 1 => Done' = Done + BusMax
         /\ at' = 1 => Done' = 0
<1> DEFINE a == at - 1
           b == Len(cfg)
<1>1. a \in Nat /\ b \in Nat /\ a <= b /\ at = a + 1 /\ BusMax \in Nat
  BY ReaderAssumption DEF ReaderTypeOK
<1>2. Done = a * BusMax /\ Tour = b * BusMax
  BY DEF Done, Tour
<1> HIDE DEF a, b
<1>3. Tour \in Nat /\ Done \in Nat /\ Done <= Tour
  BY <1>1, <1>2, Multiples
<1>4. at = 1 => Done = 0
  <2>1. at = 1 => a = 0
    BY <1>1
  <2>2. 0 * BusMax = 0
    BY <1>1
  <2>3. QED
    BY <1>2, <2>1, <2>2
<1>5. at = Len(cfg) + 1 => Done = Tour
  <2>1. at = b + 1 => a = b
    BY <1>1
  <2>2. QED
    BY <1>2, <2>1 DEF b
<1>6. at <= Len(cfg) => Done + BusMax <= Tour
  <2>1. SUFFICES ASSUME at <= b PROVE Done + BusMax <= Tour
    BY DEF b
  <2>2. a + 1 \in Nat /\ a + 1 <= b
    BY <1>1, <2>1
  <2>3. (a + 1) * BusMax <= b * BusMax
    BY <1>1, <2>2, Multiples
  <2>4. (a + 1) * BusMax = a * BusMax + BusMax
    BY <1>1, Multiples
  <2>5. QED
    BY <1>2, <2>3, <2>4
<1>7. at' = at + 1 => Done' = Done + BusMax
  <2>1. SUFFICES ASSUME at' = at + 1 PROVE Done' = Done + BusMax
    OBVIOUS
  <2>2. Done' = (a + 1) * BusMax
    <3>1. at' - 1 = a + 1
      BY <1>1, <2>1
    <3>2. QED
      BY <3>1 DEF Done
  <2>3. (a + 1) * BusMax = a * BusMax + BusMax
    BY <1>1, Multiples
  <2>4. QED
    BY <1>2, <2>2, <2>3
<1>8. at' = 1 => Done' = 0
  <2>1. (1 - 1) * BusMax = 0
    BY <1>1
  <2>2. QED
    BY <2>1 DEF Done
<1>9. QED
  BY <1>3, <1>4, <1>5, <1>6, <1>7, <1>8

LEMMA Shares ==
  \A l \in Nat : \A i \in 1..(l + 1) :
    l * BusMax \in Nat /\ (i - 1) * BusMax \in Nat /\ (i - 1) * BusMax <= l * BusMax
<1>1. ASSUME NEW l \in Nat, NEW i \in 1..(l + 1)
      PROVE  l * BusMax \in Nat /\ (i - 1) * BusMax \in Nat
             /\ (i - 1) * BusMax <= l * BusMax
  <2>1. i - 1 \in Nat /\ i - 1 <= l /\ l <= l
    OBVIOUS
  <2>2. QED
    BY <2>1, Multiples
<1>2. QED
  BY <1>1

LEMMA NextLength ==
  ASSUME ReaderTypeOK'
  PROVE  Tour' \in Nat /\ Done' \in Nat /\ Done' <= Tour'
<1>1. Len(cfg') \in Nat /\ at' \in 1..(Len(cfg') + 1)
  BY DEF ReaderTypeOK
<1>2. QED
  BY <1>1, Shares DEF Tour, Done

\* Who reads, and where in the flow: the poll, a test send, a preview.
Callers ==
  /\ reader = "loop" => pc = "store"
  /\ reader = "test" => pc = "test" /\ testState = "building"
  /\ reader = "preview" => pc \in {"sync", "expire"}

LEMMA TravelsCallers ==
  ASSUME Callers, NEW k, Travels(k)
  PROVE  Callers'
<1>1. CASE Serving
  BY <1>1 DEF Serving, Callers
<1>2. CASE Beginning
  BY <1>2 DEF Beginning, Callers
<1>3. CASE reader' = "none"
  BY <1>3 DEF Callers
<1>4. QED
  BY <1>1, <1>2, <1>3 DEF Travels, Ending

LEMMA CallersStep ==
  ASSUME IInv, Callers, [Next]_vars
  PROVE  Callers'
<1>1. CASE UNCHANGED vars
  BY <1>1 DEF vars, sensorVars, loopVars, webVars, Callers
<1>2. ASSUME NEW k, Visiting(k) PROVE Callers'
  BY <1>2 DEF Visiting, Callers
<1>3. CASE Restart
  <2>1. reader' = "none"
    BY <1>3 DEF Restart, ReaderReset
  <2>2. QED
    BY <2>1 DEF Callers
<1>4. CASE Serving
  BY <1>4 DEF Serving, Callers
<1>5. QED
  BY <1>1, <1>2, <1>3, <1>4, Travelling, TravelsCallers

LEMMA CallersInvariance == Spec => [](IInv /\ Callers)
<1>1. Init => IInv /\ Callers
  BY InitInv DEF Init, ReaderInit, Callers
<1>2. IInv /\ Callers /\ [Next]_vars => (IInv /\ Callers)'
  BY InvStep, CallersStep
<1>3. QED
  BY <1>1, <1>2, PTL DEF Spec

-----------------------------------------------------------------------------
(* The browser does not hold the device *)

\* The longest time since the last request at every point of the loop: the
\* check leaves less than IdleTimeout, a test may read and send, the poll
\* reads, and a preview begins with a request.
Patience ==
  IF reader = "preview"
  THEN Done
  ELSE IF pc = "test"
  THEN IdleTimeout - 1 + (IF reader = "test"
                          THEN Done
                          ELSE IF testState = "building" THEN Tour ELSE 0)
  ELSE IF pc \in {"retry", "iridium", "rest", "delay"}
  THEN IdleTimeout - 1 + Tour + SendMax
  ELSE IF pc = "store"
  THEN IdleTimeout + Tour + SendMax + (IF reader = "loop" THEN Done ELSE Tour)
  ELSE IF pc \in {"send", "expire"}
  THEN IdleTimeout + 2 * Tour + SendMax
  ELSE IdleTimeout + Tour + SendMax

Patient == webActive => Since(lastReq) <= Patience

IdleInv == IInv /\ Callers /\ Patient

LEMMA PatienceType ==
  ASSUME ReaderTypeOK
  PROVE  Patience \in Int /\ Patience <= IdleTimeout + 2 * Tour + SendMax
<1>1. Tour \in Nat /\ Done \in Nat /\ Done <= Tour
  BY ReadLength
<1>2. IdleTimeout \in Nat /\ SendMax \in Nat
  BY LoopAssumption
<1>3. QED
  BY <1>1, <1>2 DEF Patience

LEMMA PatienceNext ==
  ASSUME ReaderTypeOK'
  PROVE  Patience' \in Int /\ (pc' \in {"sync", "expire"} => Patience' >= 0)
<1>1. Tour' \in Nat /\ Done' \in Nat
  BY NextLength
<1>2. IdleTimeout \in Nat /\ SendMax \in Nat
  BY LoopAssumption
<1>3. Patience' \in Int
  BY <1>1, <1>2 DEF Patience
<1>4. \A i, t, s \in Nat : i + t + s >= 0 /\ i + 2 * t + s >= 0
  OBVIOUS
<1>5. IdleTimeout + Tour' + SendMax >= 0 /\ IdleTimeout + 2 * Tour' + SendMax >= 0
  BY <1>1, <1>2, <1>4
<1>6. Done' >= 0
  BY <1>1
<1>7. pc' \in {"sync", "expire"} =>
        Patience' \in {Done', IdleTimeout + 2 * Tour' + SendMax,
                       IdleTimeout + Tour' + SendMax}
  BY DEF Patience
<1>8. QED
  BY <1>3, <1>4, <1>5, <1>6, <1>7

\* A step leaves as much patience as it takes time, unless it is the check.
LEMMA PatienceLasts ==
  ASSUME IInv, Callers, NEW k, Travels(k), ReaderTypeOK', cfg' = cfg, webActive,
         ~(Serving /\ lastReq' = now), pc = "expire" => reader # "none"
  PROVE  Patience + k <= Patience'
<1>1. Tour \in Nat /\ Done \in Nat /\ Done <= Tour /\ Tour' = Tour
      /\ (at' = 1 => Done' = 0) /\ (at = Len(cfg) + 1 => Done = Tour)
  BY ReadLength DEF IInv, TypeOK, Tour
<1>2. IdleTimeout \in Nat /\ SendMax \in Nat
  BY LoopAssumption
<1> HIDE DEF Tour, Done
<1>3. CASE k = 0 /\ Serving
  <2>1. pc = "tick" /\ pc' \in {"sync", "expire"} /\ reader = "none" /\ reader' = "none"
    BY <1>3 DEF Serving
  <2>2. QED
    BY <1>1, <1>2, <1>3, <2>1 DEF Patience
<1>4. CASE k = 0 /\ Beginning
  BY <1>1, <1>2, <1>4 DEF Beginning, Patience
<1>5. CASE k = 0 /\ Ending
  <2>1. reader \in {"loop", "test", "preview"}
    BY <1>5 DEF IInv, TypeOK, ReaderTypeOK, Ending
  <2>2. CASE reader = "loop"
    BY <1>1, <1>2, <1>5, <2>2 DEF Ending, Callers, Patience
  <2>3. CASE reader = "test"
    BY <1>1, <1>2, <1>5, <2>3 DEF Ending, Callers, Patience
  <2>4. CASE reader = "preview"
    BY <1>1, <1>2, <1>5, <2>4 DEF Ending, Callers, Patience
  <2>5. QED
    BY <2>1, <2>2, <2>3, <2>4
<1>6. CASE InPass(k) /\ reader = "none" /\ reader' = "none"
  BY <1>1, <1>2, <1>6 DEF InPass, Patience
<1>7. CASE Shared(k) /\ reader = "none" /\ reader' = "none"
  <2>1. CASE k = 0 /\ pc = "sync" /\ pc' \in {"poll", "expire"}
    BY <1>1, <1>2, <1>7, <2>1 DEF Patience
  <2>2. CASE k = 0 /\ pc = "test" /\ testState # "building" /\ pc' \in {"retry", "delay"}
    BY <1>1, <1>2, <1>7, <2>2 DEF Patience
  <2>3. CASE k \in 0..SendMax /\ pc = "test" /\ testState = "building"
             /\ pc' \in {"retry", "delay"}
    BY <1>1, <1>2, <1>7, <2>3 DEF Patience
  <2>4. QED
    BY <1>7, <2>1, <2>2, <2>3 DEF Shared
<1>8. CASE Looping(k) /\ reader = "none" /\ reader' = "none"
  <2>1. k \in {0, 1}
    BY <1>8 DEF Looping
  <2>2. QED
    BY <1>1, <1>2, <1>8, <2>1 DEF Looping, Patience
<1>9. QED
  BY <1>3, <1>4, <1>5, <1>6, <1>7, <1>8 DEF Travels

LEMMA ServedPatient ==
  ASSUME ReaderTypeOK, ReaderTypeOK', Serving, lastReq' = now, now' = now
  PROVE  Patient'
<1>1. Since(lastReq)' = 0
  <2>1. Since(lastReq)' = Since(now)
    BY DEF Since
  <2>2. QED
    BY <2>1, JustNow
<1>2. pc' \in {"sync", "expire"}
  BY DEF Serving
<1>3. Patience' >= 0
  BY <1>2, PatienceNext
<1>4. QED
  BY <1>1, <1>3 DEF Patient

\* The same request, k ticks later.
LEMMA StillPatient ==
  ASSUME IInv, ReaderTypeOK', NEW k \in Nat, now' = (now + k) % Wrap,
         lastReq' = lastReq, Since(lastReq) + k <= Patience'
  PROVE  Patient'
<1>1. ReaderTypeOK /\ lastReq \in 0..(Wrap - 1)
  BY TypeParts DEF IInv, OwnType
<1>2. Since(lastReq)' = (now' - lastReq) % Wrap
  BY DEF Since
<1>3. Since(lastReq)' <= Since(lastReq) + k /\ Since(lastReq) \in Nat
  BY <1>1, <1>2, Later
<1>4. Since(lastReq)' \in Int
  <2>1. now' \in 0..(Wrap - 1) /\ lastReq' \in 0..(Wrap - 1)
    BY <1>1 DEF ReaderTypeOK
  <2>2. now' - lastReq \in Int
    BY <1>1, <2>1, ReaderAssumption
  <2>3. QED
    BY <1>2, <2>2, ModRange, ReaderAssumption
<1>5. Patience' \in Int
  BY PatienceNext
<1>6. QED
  BY <1>3, <1>4, <1>5 DEF Patient

LEMMA PatientTravels ==
  ASSUME IdleInv, NEW k, Passes(k), Travels(k), ReaderTypeOK'
  PROVE  Patient'
<1>1. ReaderTypeOK /\ lastReq \in 0..(Wrap - 1) /\ cfg' = cfg /\ k \in Nat
      /\ now' = (now + k) % Wrap
  BY TypeParts DEF IdleInv, IInv, OwnType, Passes
<1>2. Since(lastReq) \in Nat /\ Patience \in Int
  BY <1>1, Later, PatienceType
<1>3. CASE Serving /\ lastReq' = now /\ k = 0
  <2>1. now \in 0..(Wrap - 1)
    BY <1>1 DEF ReaderTypeOK
  <2>2. now + 0 = now /\ now % Wrap = now
    BY <2>1, ModSmall, ReaderAssumption
  <2>3. QED
    BY <1>1, <1>3, <2>2, ServedPatient
<1>4. CASE pc = "expire" /\ reader = "none"
  <2>1. k = 0 /\ pc' = "test" /\ reader' = "none" /\ testState' # "building"
        /\ lastReq' = lastReq /\ (webActive' => Since(lastReq) < IdleTimeout)
    BY <1>4 DEF Travels, Serving, Beginning, Ending, InPass, Shared, Looping
  <2>2. Patience' = IdleTimeout - 1 + 0
    BY <2>1 DEF Patience
  <2>3. webActive' => Since(lastReq) + k <= Patience'
    BY <1>2, <2>1, <2>2, LoopAssumption
  <2>4. CASE webActive'
    BY <1>1, <2>1, <2>3, <2>4, StillPatient DEF IdleInv
  <2>5. QED
    BY <2>4 DEF Patient
<1>5. CASE /\ ~(Serving /\ lastReq' = now /\ k = 0)
           /\ ~(pc = "expire" /\ reader = "none")
  <2>1. lastReq' = lastReq /\ (webActive' => webActive) /\ ~(Serving /\ lastReq' = now)
    BY <1>5 DEF Travels, Serving, Beginning, Ending, InPass, Shared, Looping
  <2>2. CASE webActive
    <3>1. Patience + k <= Patience'
      BY <1>1, <1>5, <2>1, <2>2, PatienceLasts DEF IdleInv
    <3>2. Since(lastReq) <= Patience
      BY <2>2 DEF IdleInv, Patient
    <3>3. Patience' \in Int
      BY PatienceNext
    <3>4. Since(lastReq) + k <= Patience'
      BY <1>1, <1>2, <3>1, <3>2, <3>3
    <3>5. QED
      BY <1>1, <2>1, <3>4, StillPatient DEF IdleInv
  <2>3. CASE ~webActive
    BY <2>1, <2>3 DEF Patient
  <2>4. QED
    BY <2>2, <2>3
<1>6. QED
  BY <1>3, <1>4, <1>5

LEMMA PatientVisits ==
  ASSUME IdleInv, NEW k \in 0..BusMax, Visiting(k), ReaderTypeOK'
  PROVE  Patient'
<1>1. ReaderTypeOK /\ lastReq \in 0..(Wrap - 1) /\ k \in Nat /\ k <= BusMax
      /\ now' = (now + k) % Wrap /\ lastReq' = lastReq /\ webActive' = webActive
  BY TypeParts, ReaderAssumption DEF IdleInv, IInv, OwnType, Visiting
<1>2. Tour \in Nat /\ Done \in Nat /\ Tour' = Tour /\ Done' = Done + BusMax
      /\ BusMax \in Nat
  BY <1>1, ReadLength, ReaderAssumption DEF Tour, Visiting
<1>3. IdleTimeout \in Nat /\ SendMax \in Nat
  BY LoopAssumption
<1>4. reader \in {"loop", "test", "preview"}
      /\ UNCHANGED <<reader, pc, testState>>
  BY <1>1 DEF Visiting, ReaderTypeOK
<1> HIDE DEF Tour, Done
<1>5. Patience \in Int /\ Patience' = Patience + BusMax
  <2>1. CASE reader = "loop"
    BY <1>2, <1>3, <1>4, <2>1 DEF IdleInv, Callers, Patience
  <2>2. CASE reader = "test"
    BY <1>2, <1>3, <1>4, <2>2 DEF IdleInv, Callers, Patience
  <2>3. CASE reader = "preview"
    BY <1>2, <1>3, <1>4, <2>3 DEF IdleInv, Callers, Patience
  <2>4. QED
    BY <1>4, <2>1, <2>2, <2>3
<1>6. CASE webActive
  <2>1. Since(lastReq) <= Patience /\ Since(lastReq) \in Nat
    BY <1>1, <1>6, Later DEF IdleInv, Patient
  <2>2. Since(lastReq) + k <= Patience'
    BY <1>1, <1>2, <1>5, <2>1
  <2>3. QED
    BY <1>1, <2>2, StillPatient DEF IdleInv
<1>7. CASE ~webActive
  BY <1>1, <1>7 DEF Patient
<1>8. QED
  BY <1>6, <1>7

LEMMA PatientStep ==
  ASSUME IdleInv, [Next]_vars
  PROVE  Patient'
<1>1. ReaderTypeOK /\ ReaderTypeOK'
  BY InvStep DEF IdleInv, IInv, TypeOK
<1>2. CASE UNCHANGED vars
  BY <1>2 DEF vars, sensorVars, loopVars, webVars, IdleInv, Patient, Patience, Tour,
              Done, Since
<1>3. CASE Restart
  <2>1. ~webActive'
    BY <1>3 DEF Restart
  <2>2. QED
    BY <2>1 DEF Patient
<1>4. CASE Serving /\ PostConfig
  <2>1. lastReq' = now /\ now' = now
    BY <1>4 DEF PostConfig, Served, Configure
  <2>2. QED
    BY <1>1, <1>4, <2>1, ServedPatient
<1>5. QED
  BY <1>1, <1>2, <1>3, <1>4, Travelling, PatientTravels, PatientVisits DEF IdleInv

\* Whatever the browser does, and whatever the tick counter does: while the
\* device is held for it, the last request is no older than the idle timeout,
\* the reads of a test and of a poll, and a test send.
THEOREM BrowserLeaves == Spec => []IdleEnds
<1>1. Init => IdleInv
  <2>1. Init => IInv /\ Callers
    BY InitInv DEF Init, ReaderInit, Callers
  <2>2. Init => Patient
    BY DEF Init, Patient
  <2>3. QED
    BY <2>1, <2>2 DEF IdleInv
<1>2. IdleInv /\ [Next]_vars => IdleInv'
  BY InvStep, CallersStep, PatientStep DEF IdleInv
<1>3. IdleInv => IdleEnds
  <2>1. SUFFICES ASSUME IdleInv, webActive
                 PROVE  Since(lastReq) <= IdleTimeout + 2 * Len(cfg) * BusMax + SendMax
    BY DEF IdleEnds
  <2>2. ReaderTypeOK /\ lastReq \in 0..(Wrap - 1)
    BY <2>1, TypeParts DEF IdleInv, IInv, OwnType
  <2>3. Patience \in Int /\ Patience <= IdleTimeout + 2 * Tour + SendMax
    BY <2>2, PatienceType
  <2>4. Since(lastReq) <= Patience /\ Since(lastReq) \in Int
    BY <2>1, <2>2, SinceType DEF IdleInv, Patient
  <2>5. 2 * Tour = 2 * Len(cfg) * BusMax /\ Tour \in Nat
    <3>1. Len(cfg) \in Nat /\ BusMax \in Nat
      BY <2>2, ReaderAssumption DEF ReaderTypeOK
    <3>2. QED
      BY <3>1 DEF Tour
  <2>6. QED
    BY <2>3, <2>4, <2>5, LoopAssumption
<1>4. QED
  BY <1>1, <1>2, <1>3, PTL DEF Spec

-----------------------------------------------------------------------------
(* No device waits long *)

\* The time since one of the two loops began, as far as its head looks at it.
Waited ==
  IF Since(t0) < PollInterval
  THEN Since(t0)
  ELSE IF pc = "head" THEN PollInterval ELSE PollInterval - 1

\* The longest time since a read() looked at the device at position j, when
\* a read of all devices takes up to D: the loop has PollInterval and three
\* sends between the end of one read and the beginning of the next.
Slack(j, D) ==
  IF reader # "none"
  THEN IF j < at THEN Done ELSE PollInterval + D + 3 * SendMax + Done
  ELSE IF testState = "building"
  THEN D
  ELSE IF place # "pass"
  THEN D + 3 * SendMax + Waited
  ELSE IF pc \in {"tick", "sync", "poll"}
  THEN PollInterval + D + 3 * SendMax
  ELSE IF pc \in {"store", "send"}
  THEN D
  ELSE IF pc \in {"expire", "test", "retry"}
  THEN D + SendMax
  ELSE IF pc = "iridium"
  THEN D + 2 * SendMax
  ELSE D + 3 * SendMax

\* The longest time since the loop began, at every point of it.
Turning ==
  IF pc = "head"
  THEN PollInterval + 2 * Tour + SendMax
  ELSE IF pc = "delay"
  THEN PollInterval - 1 + 2 * Tour + SendMax
  ELSE IF pc = "test"
  THEN PollInterval - 1 + Tour + (IF reader = "test"
                                  THEN Done
                                  ELSE IF testState = "building" THEN Tour ELSE 0)
  ELSE IF pc = "tick"
  THEN PollInterval - 1
  ELSE PollInterval - 1 + (IF reader = "preview" THEN Done ELSE Tour)

Turn == place # "pass" => Since(t0) <= Turning

LEMMA WaitedType ==
  ASSUME ReaderTypeOK, t0 \in 0..(Wrap - 1)
  PROVE  Waited \in Nat /\ Waited <= PollInterval
         /\ (pc # "head" => Waited <= PollInterval - 1)
<1>1. Since(t0) \in Nat /\ PollInterval \in Nat \ {0}
  BY SinceType, LoopAssumption
<1>2. QED
  BY <1>1 DEF Waited

LEMMA WaitedNext ==
  ASSUME ReaderTypeOK', t0' \in 0..(Wrap - 1)
  PROVE  Waited' \in Nat /\ Waited' <= PollInterval
<1>1. (now' - t0') % Wrap \in Nat /\ PollInterval \in Nat \ {0}
  <2>1. now' \in 0..(Wrap - 1)
    BY DEF ReaderTypeOK
  <2>2. now' - t0' \in Int
    BY <2>1, ReaderAssumption
  <2>3. QED
    BY <2>2, ModRange, ReaderAssumption, LoopAssumption
<1>2. QED
  BY <1>1 DEF Waited, Since

LEMMA SlackType ==
  ASSUME ReaderTypeOK, t0 \in 0..(Wrap - 1), NEW j \in Nat, NEW D \in Nat, Tour <= D
  PROVE  Slack(j, D) \in Nat /\ Slack(j, D) <= PollInterval + 2 * D + 3 * SendMax
<1>1. Tour \in Nat /\ Done \in Nat /\ Done <= Tour
  BY ReadLength
<1>2. PollInterval \in Nat /\ SendMax \in Nat
  BY LoopAssumption
<1> HIDE DEF Tour, Done, Waited
<1>3. QED
  BY <1>1, <1>2, WaitedType DEF Slack

LEMMA SlackNext ==
  ASSUME ReaderTypeOK', t0' \in 0..(Wrap - 1), NEW j \in Nat, NEW D \in Nat, Tour' <= D
  PROVE  Slack(j, D)' \in Nat /\ Slack(j, D)' <= PollInterval + 2 * D + 3 * SendMax
<1>1. Tour' \in Nat /\ Done' \in Nat /\ Done' <= Tour'
  BY NextLength
<1>2. PollInterval \in Nat /\ SendMax \in Nat
  BY LoopAssumption
<1> HIDE DEF Tour, Done, Waited
<1>3. Waited' \in Nat /\ Waited' <= PollInterval
  BY WaitedNext
<1>4. \A p, d, s, t, u, w \in Nat :
        u <= t /\ t <= d /\ w <= p =>
          /\ p + d + 3 * s + u \in Nat /\ p + d + 3 * s + u <= p + 2 * d + 3 * s
          /\ d + 3 * s + w \in Nat /\ d + 3 * s + w <= p + 2 * d + 3 * s
          /\ p + d + 3 * s \in Nat /\ p + d + 3 * s <= p + 2 * d + 3 * s
          /\ \A i \in {0, 1, 2, 3} : d + i * s \in Nat /\ d + i * s <= p + 2 * d + 3 * s
          /\ u <= p + 2 * d + 3 * s
  OBVIOUS
<1>5. Slack(j, D)' \in
        {Done', PollInterval + D + 3 * SendMax + Done', D, D + 3 * SendMax + Waited',
         PollInterval + D + 3 * SendMax, D + SendMax, D + 2 * SendMax, D + 3 * SendMax}
  BY DEF Slack
<1>6. QED
  BY <1>1, <1>2, <1>3, <1>4, <1>5

\* The loop began k ticks earlier.
LEMMA StillTurning ==
  ASSUME IInv, NEW k \in Nat, now' = (now + k) % Wrap, t0' = t0,
         Turning' \in Int, Since(t0) + k <= Turning'
  PROVE  Turn'
<1>1. ReaderTypeOK /\ t0 \in 0..(Wrap - 1)
  BY TypeParts DEF IInv, OwnType
<1>2. Since(t0)' = (now' - t0) % Wrap
  BY DEF Since
<1>3. (now' - t0) % Wrap <= Since(t0) + k /\ Since(t0) \in Nat
  BY <1>1, Later
<1>4. (now' - t0) % Wrap \in Int
  <2>1. now + k \in Int
    BY <1>1, ReaderAssumption DEF ReaderTypeOK
  <2>2. now' \in 0..(Wrap - 1)
    BY <2>1, ModRange
  <2>3. now' - t0 \in Int
    BY <1>1, <2>2, ReaderAssumption
  <2>4. QED
    BY <2>3, ModRange, ReaderAssumption
<1>5. QED
  BY <1>2, <1>3, <1>4 DEF Turn

LEMMA TurningType ==
  ASSUME ReaderTypeOK
  PROVE  Turning \in Int /\ Turning <= PollInterval + 2 * Tour + SendMax
<1>1. Tour \in Nat /\ Done \in Nat /\ Done <= Tour
  BY ReadLength
<1>2. PollInterval \in Nat /\ SendMax \in Nat
  BY LoopAssumption
<1> HIDE DEF Tour, Done
<1>3. QED
  BY <1>1, <1>2 DEF Turning

LEMMA TurningNext ==
  ASSUME ReaderTypeOK'
  PROVE  Turning' \in Int /\ (pc' # "test" => Turning' >= PollInterval - 1)
<1>1. Tour' \in Nat /\ Done' \in Nat
  BY NextLength
<1>2. PollInterval \in Nat /\ SendMax \in Nat
  BY LoopAssumption
<1> DEFINE Beyond(p, d, t, s) ==
              {p + 2 * t + s, p - 1 + 2 * t + s, p - 1, p - 1 + d, p - 1 + t}
           Testing(p, d, t) == {p - 1 + t + d, p - 1 + t + t, p - 1 + t + 0}
<1>3. \A p, d, t, s \in Nat :
        /\ \A x \in Beyond(p, d, t, s) : x \in Int /\ x >= p - 1
        /\ \A x \in Testing(p, d, t) : x \in Int
  OBVIOUS
<1> HIDE DEF Tour, Done
<1>4. pc' # "test" => Turning' \in Beyond(PollInterval, Done', Tour', SendMax)
  BY DEF Turning
<1>5. pc' = "test" => Turning' \in Testing(PollInterval, Done', Tour')
  BY DEF Turning
<1> HIDE DEF Beyond, Testing
<1>6. QED
  BY <1>1, <1>2, <1>3, <1>4, <1>5

\* A turn of one of the two loops.
LEMMA TurnGoesOn ==
  ASSUME IInv, Callers, NEW k, Travels(k), ReaderTypeOK', cfg' = cfg,
         place # "pass", place' # "pass", pc # "head"
  PROVE  Turning + k <= Turning'
<1>1. Tour \in Nat /\ Done \in Nat /\ Done <= Tour /\ Tour' = Tour
      /\ (at' = 1 => Done' = 0) /\ (at = Len(cfg) + 1 => Done = Tour)
  BY ReadLength DEF IInv, TypeOK, Tour
<1>2. PollInterval \in Nat /\ SendMax \in Nat
  BY LoopAssumption
<1> HIDE DEF Tour, Done
<1>3. CASE k = 0 /\ Serving
  <2>1. pc = "tick" /\ pc' \in {"sync", "expire"}
    BY <1>3 DEF Serving
  <2>2. Turning = PollInterval - 1
    BY <2>1 DEF Turning
  <2>3. Turning' >= PollInterval - 1 /\ Turning' \in Int
    BY <2>1, TurningNext
  <2>4. QED
    BY <1>2, <1>3, <2>2, <2>3
<1>4. CASE k = 0 /\ Beginning
  BY <1>1, <1>2, <1>4 DEF Beginning, Turning
<1>5. CASE k = 0 /\ Ending
  <2>1. reader \in {"loop", "test", "preview"}
    BY <1>5 DEF IInv, TypeOK, ReaderTypeOK, Ending
  <2>2. CASE reader = "loop"
    BY <1>1, <1>2, <1>5, <2>2 DEF Ending, Callers, Turning
  <2>3. CASE reader = "test"
    BY <1>1, <1>2, <1>5, <2>3 DEF Ending, Callers, Turning
  <2>4. CASE reader = "preview"
    BY <1>1, <1>2, <1>5, <2>4 DEF Ending, Callers, Turning
  <2>5. QED
    BY <2>1, <2>2, <2>3, <2>4
<1>6. CASE Shared(k) /\ reader = "none" /\ reader' = "none"
  <2>1. CASE k = 0 /\ pc \in {"sync", "expire"} /\ pc' \in {"expire", "test"}
             /\ testState' # "building"
    BY <1>1, <1>2, <1>6, <2>1 DEF Turning
  <2>2. CASE k = 0 /\ pc = "test" /\ testState # "building" /\ pc' = "delay"
    BY <1>1, <1>2, <1>6, <2>2 DEF Turning
  <2>3. CASE k \in 0..SendMax /\ pc = "test" /\ testState = "building" /\ pc' = "delay"
    BY <1>1, <1>2, <1>6, <2>3 DEF Turning
  <2>4. QED
    BY <1>6, <2>1, <2>2, <2>3 DEF Shared
<1>7. CASE Looping(k) /\ reader = "none" /\ reader' = "none"
  BY <1>1, <1>2, <1>7 DEF Looping, Turning
<1>8. QED
  BY <1>3, <1>4, <1>5, <1>6, <1>7 DEF Travels, InPass

LEMMA TurnTravels ==
  ASSUME IInv, Callers, Turn, NEW k, Passes(k), Travels(k), ReaderTypeOK'
  PROVE  Turn'
<1>1. ReaderTypeOK /\ t0 \in 0..(Wrap - 1) /\ cfg' = cfg /\ k \in Nat
      /\ now' = (now + k) % Wrap
  BY TypeParts DEF IInv, OwnType, Passes
<1>2. Since(t0) \in Nat /\ Turning \in Int /\ Turning' \in Int /\ PollInterval \in Nat \ {0}
  BY <1>1, SinceType, TurningType, TurningNext, LoopAssumption
<1>3. CASE place' = "pass"
  BY <1>3 DEF Turn
<1>4. CASE place = "pass" /\ place' # "pass"
  <2>1. k = 0 /\ t0' = now /\ pc' = "head"
    BY <1>4 DEF Travels, Serving, Beginning, Ending, InPass, Shared, Looping
  <2>2. now \in 0..(Wrap - 1)
    BY <1>1 DEF ReaderTypeOK
  <2>3. now' = now
    <3>1. now + 0 = now /\ now % Wrap = now
      BY <2>2, ModSmall, ReaderAssumption
    <3>2. QED
      BY <1>1, <2>1, <3>1
  <2>4. Since(t0)' = 0
    <3>1. Since(t0)' = Since(now)
      BY <2>1, <2>3 DEF Since
    <3>2. QED
      BY <1>1, <3>1, JustNow
  <2>5. Turning' >= PollInterval - 1
    BY <2>1, TurningNext
  <2>6. QED
    BY <1>2, <2>4, <2>5 DEF Turn
<1>5. CASE place # "pass" /\ place' # "pass" /\ pc = "head"
  <2>1. reader = "none" /\ k = 0 /\ t0' = t0 /\ pc' = "tick" /\ Since(t0) < PollInterval
    <3>1. reader = "none" \/ Ending
      BY <1>5 DEF Travels, Serving, Beginning
    <3>2. ~Ending
      BY <1>1, <1>5, PassOnly, LocatedType
         DEF Ending, Callers, IInv, TypeOK, ReaderTypeOK
    <3>3. QED
      BY <1>5, <3>1, <3>2 DEF Travels, Serving, Beginning, InPass, Shared, Looping
  <2>2. Turning' >= PollInterval - 1
    BY <2>1, TurningNext
  <2>3. Since(t0) + k <= Turning'
    BY <1>2, <2>1, <2>2
  <2>4. QED
    BY <1>1, <1>2, <2>1, <2>3, StillTurning
<1>6. CASE place # "pass" /\ place' # "pass" /\ pc # "head"
  <2>1. Turning + k <= Turning'
    BY <1>1, <1>6, TurnGoesOn
  <2>2. Since(t0) + k <= Turning'
    BY <1>1, <1>2, <1>6, <2>1 DEF Turn
  <2>3. t0' = t0
    BY <1>6 DEF Travels, Serving, Beginning, Ending, InPass, Shared, Looping
  <2>4. QED
    BY <1>1, <1>2, <2>2, <2>3, StillTurning
<1>7. QED
  BY <1>3, <1>4, <1>5, <1>6

LEMMA TurnVisits ==
  ASSUME IInv, Callers, Turn, NEW k \in 0..BusMax, Visiting(k), ReaderTypeOK'
  PROVE  Turn'
<1>1. ReaderTypeOK /\ Located /\ t0 \in 0..(Wrap - 1) /\ k \in Nat /\ k <= BusMax
      /\ now' = (now + k) % Wrap /\ UNCHANGED <<t0, place, pc, reader, testState>>
  BY LocatedType, TypeParts, ReaderAssumption DEF IInv, OwnType, Visiting
<1>2. CASE place = "pass"
  BY <1>1, <1>2 DEF Turn
<1>3. CASE place # "pass"
  <2>1. reader \in {"test", "preview"}
    BY <1>1, <1>3, PassOnly DEF Callers, Visiting, ReaderTypeOK
  <2>2. Done' = Done + BusMax /\ Done \in Nat /\ Tour \in Nat /\ Tour' = Tour
        /\ BusMax \in Nat /\ PollInterval \in Nat
    BY <1>1, ReadLength, ReaderAssumption, LoopAssumption DEF Tour, Visiting
  <2> HIDE DEF Tour, Done
  <2>3. Turning \in Int /\ Turning' = Turning + BusMax
    <3>1. CASE reader = "test"
      BY <1>1, <2>2, <3>1 DEF Callers, Turning
    <3>2. CASE reader = "preview"
      BY <1>1, <2>2, <3>2 DEF Callers, Turning
    <3>3. QED
      BY <2>1, <3>1, <3>2
  <2>4. Since(t0) \in Nat /\ Since(t0) <= Turning
    BY <1>1, <1>3, SinceType DEF Turn
  <2>5. Turning' \in Int /\ Since(t0) + k <= Turning'
    BY <1>1, <2>2, <2>3, <2>4
  <2>6. QED
    BY <1>1, <2>5, StillTurning
<1>4. QED
  BY <1>2, <1>3

LEMMA TurnStep ==
  ASSUME IInv, Callers, Turn, [Next]_vars
  PROVE  Turn'
<1>1. ReaderTypeOK /\ ReaderTypeOK' /\ t0 \in 0..(Wrap - 1)
  BY InvStep, TypeParts DEF IInv, TypeOK, OwnType
<1>2. CASE UNCHANGED vars
  BY <1>2 DEF vars, sensorVars, loopVars, webVars, Turn, Turning, Tour, Done, Since
<1>3. CASE Restart
  <2>1. place' = "pass"
    BY <1>3 DEF Restart, NextPass, Enter
  <2>2. QED
    BY <2>1 DEF Turn
<1>4. CASE Serving /\ PostConfig
  <2>1. now' = now /\ t0' = t0 /\ pc = "tick" /\ pc' \in {"sync", "expire"} /\ place' = place
    BY <1>4 DEF Serving, PostConfig, Configure
  <2>2. Since(t0)' = Since(t0)
    BY <2>1 DEF Since
  <2>3. Turning = PollInterval - 1
    BY <2>1 DEF Turning
  <2>4. Turning' >= PollInterval - 1 /\ Turning' \in Int
    BY <1>1, <2>1, TurningNext
  <2>5. Since(t0) \in Nat /\ PollInterval \in Nat
    BY <1>1, SinceType, LoopAssumption
  <2>6. QED
    BY <2>1, <2>2, <2>3, <2>4, <2>5 DEF Turn
<1>5. QED
  BY <1>1, <1>2, <1>3, <1>4, Travelling, TurnTravels, TurnVisits

\* A turn of a waiting loop counts.
LEMMA WaitedGrows ==
  ASSUME IInv, Turn, pc = "delay", place # "pass", pc' = "head", t0' = t0,
         now' = (now + 1) % Wrap, PollInterval + 2 * Tour + SendMax < Wrap
  PROVE  Waited + 1 <= Waited'
<1>1. ReaderTypeOK /\ t0 \in 0..(Wrap - 1)
  BY TypeParts DEF IInv, OwnType
<1>2. Tour \in Nat /\ PollInterval \in Nat \ {0} /\ SendMax \in Nat
  BY <1>1, ReadLength, LoopAssumption
<1> HIDE DEF Tour
<1>3. Since(t0) \in Nat /\ Since(t0) <= PollInterval - 1 + 2 * Tour + SendMax
  BY <1>1, SinceType DEF Turn, Turning
<1>4. Since(t0) + 1 < Wrap /\ Wrap \in Nat
  BY <1>2, <1>3, ReaderAssumption
<1>5. (now' - t0) % Wrap = Since(t0) + 1
  BY <1>1, <1>4, Later
<1>6. Since(t0)' = Since(t0) + 1
  BY <1>5 DEF Since
<1>7. QED
  BY <1>2, <1>3, <1>6 DEF Waited

LEMMA WaitedStays ==
  ASSUME ReaderTypeOK, t0 \in 0..(Wrap - 1), now' = now, t0' = t0,
         pc # "head" \/ Since(t0) < PollInterval
  PROVE  Waited <= Waited'
<1>1. Since(t0) \in Nat /\ PollInterval \in Nat \ {0}
  BY SinceType, LoopAssumption
<1>2. Since(t0)' = Since(t0)
  BY DEF Since
<1>3. QED
  BY <1>1, <1>2 DEF Waited

\* A step takes no longer than what it adds to the slack of every device.
LEMMA SlackGrows ==
  ASSUME IInv, IInv', Callers, Turn, NEW k, Passes(k), Travels(k),
         PollInterval + 2 * Tour + SendMax < Wrap,
         NEW j \in 1..Len(cfg), NEW D \in Nat, Tour <= D
  PROVE  Slack(j, D) + k <= Slack(j, D)'
<1>1. ReaderTypeOK /\ ReaderTypeOK' /\ t0 \in 0..(Wrap - 1) /\ t0' \in 0..(Wrap - 1)
      /\ cfg' = cfg
  BY TypeParts, TypePartsNext DEF IInv, OwnType, Passes
<1>2. j \in Nat /\ j >= 1 /\ ~(j < 1) /\ j < Len(cfg) + 1
  BY <1>1 DEF ReaderTypeOK
<1>3. Tour \in Nat /\ Done \in Nat /\ Done <= Tour /\ Tour' = Tour
      /\ (at' = 1 => Done' = 0) /\ (at = Len(cfg) + 1 => Done = Tour)
  BY <1>1, ReadLength DEF Tour
<1>4. PollInterval \in Nat \ {0} /\ SendMax \in Nat
  BY LoopAssumption
<1>5. /\ Waited \in Nat /\ Waited <= PollInterval
      /\ pc # "head" => Waited <= PollInterval - 1
      /\ Waited' \in Nat
  BY <1>1, WaitedType, WaitedNext
<1>6. ASSUME k = 0, t0' = t0, pc # "head" \/ Since(t0) < PollInterval
      PROVE  Waited <= Waited'
  <2>1. now' = now
    <3>1. now \in 0..(Wrap - 1) /\ now' = (now + 0) % Wrap
      BY <1>1, <1>6 DEF ReaderTypeOK, Passes
    <3>2. now + 0 = now /\ now % Wrap = now
      BY <3>1, ModSmall, ReaderAssumption
    <3>3. QED
      BY <3>1, <3>2
  <2>2. QED
    BY <1>1, <1>6, <2>1, WaitedStays
<1>7. k = 1 => now' = (now + 1) % Wrap
  BY DEF Passes
<1>8. pc = "head" /\ ~(Since(t0) < PollInterval) => Waited = PollInterval
  BY DEF Waited
<1> HIDE DEF Tour, Done, Waited
<1>9. ASSUME Slack(j, D) = D + 3 * SendMax + Waited,
              Slack(j, D)' = D + 3 * SendMax + Waited', Waited + k <= Waited'
       PROVE  Slack(j, D) + k <= Slack(j, D)'
  <2>1. \A d, w, v, i \in Nat : w + i <= v => (d + w) + i <= d + v
    OBVIOUS
  <2>2. k \in Nat /\ D + 3 * SendMax \in Nat
    BY <1>4 DEF Passes
  <2>3. QED
    BY <1>5, <1>9, <2>1, <2>2
<1>10. CASE k = 0 /\ Serving
  <2>1. /\ pc = "tick" /\ pc' \in {"sync", "expire"} /\ (place = "pass" => pc' = "sync")
        /\ UNCHANGED <<place, t0>> /\ reader = "none" /\ testState # "building"
        /\ testState' # "building" /\ at' = 1
    BY <1>10 DEF Serving
  <2>2. CASE reader' # "none"
    <3>1. Slack(j, D)' = PollInterval + D + 3 * SendMax + Done' /\ Done' = 0
      BY <1>2, <1>3, <2>1, <2>2 DEF Slack
    <3>2. Slack(j, D) \in {PollInterval + D + 3 * SendMax, D + 3 * SendMax + Waited}
      BY <2>1 DEF Slack
    <3>3. QED
      BY <1>4, <1>5, <1>10, <3>1, <3>2
  <2>3. CASE reader' = "none" /\ place = "pass"
    <3>1. Slack(j, D)' = Slack(j, D) /\ Slack(j, D) = PollInterval + D + 3 * SendMax
      BY <2>1, <2>3 DEF Slack
    <3>2. QED
      BY <1>4, <1>10, <3>1
  <2>4. CASE reader' = "none" /\ place # "pass"
    <3>1. Waited + k <= Waited'
      BY <1>5, <1>6, <1>10, <2>1
    <3>2. Slack(j, D) = D + 3 * SendMax + Waited
          /\ Slack(j, D)' = D + 3 * SendMax + Waited'
      BY <2>1, <2>4 DEF Slack
    <3>3. QED
      BY <1>9, <3>1, <3>2
  <2>5. QED
    BY <2>2, <2>3, <2>4
<1>11. CASE k = 0 /\ Beginning
  <2>1. Slack(j, D)' = PollInterval + D + 3 * SendMax + 0
    BY <1>2, <1>3, <1>11 DEF Beginning, Slack
  <2>2. Slack(j, D) \in {PollInterval + D + 3 * SendMax, D + SendMax,
                         D + 3 * SendMax + Waited}
    BY <1>11 DEF Beginning, Slack
  <2>3. QED
    BY <1>4, <1>5, <1>11, <2>1, <2>2
<1>12. CASE k = 0 /\ Ending
  <2>1. Slack(j, D) = Tour
    BY <1>2, <1>3, <1>12 DEF Ending, Slack
  <2>2. pc \in {"store", "test", "sync", "expire"} /\ pc' = pc /\ testState' = testState
        /\ reader' = "none" /\ place' = place
    BY <1>1, <1>12 DEF Ending, Callers, ReaderTypeOK
  <2>3. Slack(j, D)' \in {D, D + 3 * SendMax + Waited', PollInterval + D + 3 * SendMax,
                          D + SendMax}
    BY <2>2 DEF Slack
  <2>4. QED
    BY <1>3, <1>4, <1>5, <1>12, <2>1, <2>3
<1>13. CASE InPass(k) /\ reader = "none" /\ reader' = "none"
  BY <1>3, <1>4, <1>13 DEF InPass, Slack
<1>14. CASE Shared(k) /\ reader = "none" /\ reader' = "none"
  <2>1. CASE k = 0 /\ testState # "building" /\ testState' # "building"
    <3>1. place' = place /\ t0' = t0
          /\ \/ pc = "sync" /\ pc' = IF place = "pass" THEN "poll" ELSE "expire"
             \/ pc = "test" /\ pc' = IF place = "pass" THEN "retry" ELSE "delay"
             \/ pc = "expire" /\ pc' = "test"
      BY <1>14, <2>1 DEF Shared
    <3>2. CASE place = "pass"
      BY <1>4, <1>14, <2>1, <3>1, <3>2 DEF Slack
    <3>3. CASE place # "pass"
      <4>1. Waited + k <= Waited'
        BY <1>5, <1>6, <2>1, <3>1
      <4>2. Slack(j, D) = D + 3 * SendMax + Waited
            /\ Slack(j, D)' = D + 3 * SendMax + Waited'
        BY <1>14, <2>1, <3>1, <3>3 DEF Slack
      <4>3. QED
        BY <1>9, <4>1, <4>2
    <3>4. QED
      BY <3>2, <3>3
  <2>2. CASE k \in 0..SendMax /\ testState = "building" /\ testState' # "building"
             /\ pc' = (IF place = "pass" THEN "retry" ELSE "delay") /\ place' = place
    <3>1. Slack(j, D) = D /\ Slack(j, D)' \in {D + SendMax, D + 3 * SendMax + Waited'}
      BY <1>14, <2>2 DEF Slack
    <3>2. QED
      BY <1>4, <1>5, <2>2, <3>1
  <2>3. QED
    BY <1>14, <2>1, <2>2 DEF Shared
<1>15. CASE Looping(k) /\ reader = "none" /\ reader' = "none"
  <2>1. testState # "building" /\ testState' # "building"
    BY <1>15 DEF Looping
  <2>2. CASE k = 0 /\ place = "pass" /\ pc = "rest" /\ place' # "pass"
    <3>1. Slack(j, D) = D + 3 * SendMax /\ Slack(j, D)' = D + 3 * SendMax + Waited'
      BY <1>15, <2>1, <2>2 DEF Slack
    <3>2. \A d, v \in Nat : d + 0 <= d + v
      OBVIOUS
    <3>3. D + 3 * SendMax \in Nat
      BY <1>4
    <3>4. QED
      BY <1>5, <2>2, <3>1, <3>2, <3>3
  <2>3. CASE place # "pass" /\ place' = "pass" /\ pc' = "tick" /\ k \in 0..1
             /\ (pc = "head" => k = 0)
    <3>1. Slack(j, D) = D + 3 * SendMax + Waited
          /\ Slack(j, D)' = PollInterval + D + 3 * SendMax
      BY <1>15, <2>1, <2>3 DEF Slack
    <3>2. QED
      BY <1>4, <1>5, <2>3, <3>1
  <2>4. CASE place # "pass" /\ place' # "pass" /\ t0' = t0
             /\ \/ k = 0 /\ pc = "head" /\ Since(t0) < PollInterval
                \/ k = 1 /\ pc = "delay" /\ pc' = "head"
    <3>1. Waited + k <= Waited'
      BY <1>5, <1>6, <1>7, <2>4, WaitedGrows
    <3>2. Slack(j, D) = D + 3 * SendMax + Waited
          /\ Slack(j, D)' = D + 3 * SendMax + Waited'
      BY <1>15, <2>1, <2>4 DEF Slack
    <3>3. QED
      BY <1>9, <3>1, <3>2
  <2>5. QED
    BY <1>15, <2>2, <2>3, <2>4 DEF Looping
<1>16. QED
  BY <1>10, <1>11, <1>12, <1>13, <1>14, <1>15 DEF Travels

LEMMA TourStays ==
  ASSUME ReaderTypeOK, cfg' = cfg
  PROVE  Tour \in Nat /\ Tour' = Tour
<1>1. Tour \in Nat
  BY ReadLength
<1>2. Tour' = Tour
  BY DEF Tour
<1>3. QED
  BY <1>1, <1>2

LEMMA PositionType ==
  ASSUME ReaderTypeOK, NEW j \in 1..Len(cfg)
  PROVE  j \in Nat /\ cfg[j].chan \in Channels /\ cfg[j].interval \in Nat
<1>1. cfg[j] \in Device
  BY CfgDevices
<1>2. j \in Nat
  BY DEF ReaderTypeOK
<1>3. QED
  BY <1>1, <1>2 DEF Device

LEMMA ClockType ==
  ASSUME ReaderTypeOK, NEW c \in Channels
  PROVE  age[c] \in Nat /\ lastPoll[c] \in 0..(Wrap - 1)
<1>1. age \in [Channels -> 0..AgeMax] /\ lastPoll \in [Channels -> 0..(Wrap - 1)]
  BY DEF ReaderTypeOK
<1>2. age[c] \in 0..AgeMax /\ lastPoll[c] \in 0..(Wrap - 1)
  BY <1>1
<1>3. QED
  BY <1>2, ReaderAssumption

LEMMA AgeNext ==
  ASSUME ReaderTypeOK', NEW c \in Channels
  PROVE  age'[c] \in Nat
<1>1. age' \in [Channels -> 0..AgeMax]
  BY DEF ReaderTypeOK
<1>2. age'[c] \in 0..AgeMax
  BY <1>1
<1>3. QED
  BY <1>2, ReaderAssumption

LEMMA SlackVisits ==
  ASSUME IInv, NEW k \in 0..BusMax, Visiting(k),
         NEW j \in 1..Len(cfg), NEW D \in Nat, Tour <= D
  PROVE  /\ k <= Slack(j, D)'
         /\ j # at => Slack(j, D) + k <= Slack(j, D)'
<1>1. Done \in Nat /\ Done' = Done + BusMax /\ BusMax \in Nat /\ k \in Nat /\ k <= BusMax
  BY ReadLength, ReaderAssumption DEF IInv, TypeOK, Visiting
<1>2. PollInterval \in Nat /\ SendMax \in Nat
  BY LoopAssumption
<1>3. reader # "none" /\ reader' # "none" /\ at' = at + 1 /\ at \in Nat /\ j \in Nat
  BY DEF Visiting, IInv, TypeOK, ReaderTypeOK
<1> HIDE DEF Done
<1>4. Slack(j, D)' = IF j < at + 1 THEN Done' ELSE PollInterval + D + 3 * SendMax + Done'
  BY <1>3 DEF Slack
<1>5. Slack(j, D) = IF j < at THEN Done ELSE PollInterval + D + 3 * SendMax + Done
  BY <1>3 DEF Slack
<1>6. j # at => (j < at <=> j < at + 1)
  BY <1>3
<1>7. QED
  BY <1>1, <1>2, <1>4, <1>5, <1>6

\* What is known of the device at position j: it waits no longer than its
\* interval and the slack, and, once its channel was read, no longer than the
\* tick counter says; which is short of the time it takes to wrap around.
Timely(j, I, D) ==
  cfg[j].on =>
    LET c == cfg[j].chan IN
    /\ age[c] <= cfg[j].interval + Slack(j, Tour)
    /\ lastPoll[c] # 0 =>
         age[c] <= Since(lastPoll[c]) /\ Since(lastPoll[c]) <= I + Slack(j, D)

\* The step took k ticks, and the last poll of the channel is what it was.
LEMMA TimelyLater ==
  ASSUME IInv, IInv', NEW k \in Nat, now' = (now + k) % Wrap, cfg' = cfg,
         NEW j \in 1..Len(cfg), NEW I \in Nat, NEW D \in Nat, Tour <= D,
         I + PollInterval + 2 * D + 3 * SendMax < Wrap, Timely(j, I, D),
         lastPoll'[cfg[j].chan] = lastPoll[cfg[j].chan],
         age'[cfg[j].chan] <= age[cfg[j].chan] + k,
         \A E \in Nat : Tour <= E => Slack(j, E) + k <= Slack(j, E)'
  PROVE  Timely(j, I, D)'
<1> SUFFICES ASSUME cfg[j].on PROVE Timely(j, I, D)'
  BY DEF Timely
<1> DEFINE c == cfg[j].chan
           a == age[c]
           b == age'[c]
           s == Since(lastPoll[c])
           u == (now' - lastPoll[c]) % Wrap
<1>1. ReaderTypeOK /\ ReaderTypeOK' /\ t0 \in 0..(Wrap - 1) /\ t0' \in 0..(Wrap - 1)
  BY TypeParts, TypePartsNext DEF IInv, OwnType
<1>2. Tour \in Nat /\ Tour' = Tour /\ j \in Nat
  BY <1>1, TourStays, PositionType
<1>3. c \in Channels /\ cfg[j].interval \in Nat
  BY <1>1, PositionType
<1>4. a \in Nat /\ b \in Nat /\ lastPoll[c] \in 0..(Wrap - 1)
  BY <1>1, <1>3, ClockType, AgeNext
<1>5. PICK T \in Nat : T = Tour
  BY <1>2
<1>6. Slack(j, T) \in Nat /\ Slack(j, T)' \in Nat /\ Slack(j, T) + k <= Slack(j, T)'
  <2>1. Tour <= T /\ Tour' <= T
    BY <1>2, <1>5
  <2>2. QED
    BY <1>1, <1>2, <2>1, SlackType, SlackNext
<1>7. Slack(j, D) \in Nat /\ Slack(j, D)' \in Nat /\ Slack(j, D) + k <= Slack(j, D)'
      /\ Slack(j, D)' <= PollInterval + 2 * D + 3 * SendMax
  <2>1. Tour' <= D
    BY <1>2
  <2>2. QED
    BY <1>1, <1>2, <2>1, SlackType, SlackNext
<1>8. Slack(j, Tour) = Slack(j, T) /\ Slack(j, Tour)' = Slack(j, T)'
  BY <1>2, <1>5 DEF Slack
<1>9. b <= cfg[j].interval + Slack(j, T)'
  <2>1. a <= cfg[j].interval + Slack(j, T)
    BY <1>8 DEF Timely
  <2>2. b <= a + k
    OBVIOUS
  <2>3. \A n, x, y, p, q \in Nat :
          x <= n + p /\ y <= x + k /\ p + k <= q => y <= n + q
    OBVIOUS
  <2> HIDE DEF a, b, c
  <2>4. QED
    BY <1>3, <1>4, <1>6, <2>1, <2>2, <2>3
<1>10. ASSUME lastPoll[c] # 0
       PROVE  b <= u /\ u <= I + Slack(j, D)'
  <2>1. a <= s /\ s <= I + Slack(j, D)
    BY <1>10 DEF Timely
  <2>2. s \in Nat /\ (s + k < Wrap => u = s + k)
    BY <1>1, <1>4, Later
  <2>3. b <= a + k
    OBVIOUS
  <2>4. PollInterval \in Nat /\ SendMax \in Nat /\ Wrap \in Nat
    BY LoopAssumption, ReaderAssumption
  <2> HIDE DEF a, b, c, s, u
  <2>5. s + k <= I + Slack(j, D)'
    BY <1>7, <2>1, <2>2
  <2>6. s + k < Wrap
    BY <1>7, <2>2, <2>4, <2>5
  <2>7. QED
    BY <1>4, <2>1, <2>2, <2>3, <2>5, <2>6
<1>11. Since(lastPoll[c])' = u
  BY DEF Since
<1>12. QED
  BY <1>8, <1>9, <1>10, <1>11 DEF Timely

\* The channel was read in this step, which took k ticks.
LEMMA TimelyAnew ==
  ASSUME IInv, IInv', NEW k \in Nat, now' = (now + k) % Wrap, cfg' = cfg,
         NEW j \in 1..Len(cfg), NEW I \in Nat, NEW D \in Nat, Tour <= D, k < Wrap,
         lastPoll'[cfg[j].chan] = now, age'[cfg[j].chan] <= k,
         \A E \in Nat : Tour <= E => k <= Slack(j, E)'
  PROVE  Timely(j, I, D)'
<1> DEFINE c == cfg[j].chan
           b == age'[c]
           u == (now' - now) % Wrap
<1>1. ReaderTypeOK /\ ReaderTypeOK' /\ t0' \in 0..(Wrap - 1)
  BY TypeParts, TypePartsNext DEF IInv, OwnType
<1>2. Tour \in Nat /\ Tour' = Tour
  BY <1>1, TourStays
<1>3. c \in Channels /\ cfg[j].interval \in Nat
  BY <1>1, PositionType
<1>4. b \in Nat /\ now \in 0..(Wrap - 1) /\ j \in Nat
  <2>1. now \in 0..(Wrap - 1)
    BY <1>1 DEF ReaderTypeOK
  <2>2. QED
    BY <1>1, <1>3, <2>1, AgeNext, PositionType
<1>5. PICK T \in Nat : T = Tour
  BY <1>2
<1>6. Slack(j, T)' \in Nat /\ k <= Slack(j, T)'
  <2>1. Tour <= T /\ Tour' <= T
    BY <1>2, <1>5
  <2>2. QED
    BY <1>1, <1>4, <2>1, SlackNext
<1>7. Slack(j, D)' \in Nat /\ k <= Slack(j, D)'
  <2>1. Tour' <= D
    BY <1>2
  <2>2. QED
    BY <1>1, <1>4, <2>1, SlackNext
<1>8. Slack(j, Tour)' = Slack(j, T)'
  BY <1>2, <1>5 DEF Slack
<1>9. u = k
  <2>1. Since(now) = 0
    BY <1>1, JustNow
  <2>2. Since(now) + k = k
    BY <2>1
  <2>3. QED
    BY <1>1, <1>4, <2>2, Later
<1>10. Since(lastPoll[c])' = u
  BY DEF Since
<1>11. \A n, s \in Nat : b <= k /\ k <= s => b <= n + s /\ k <= n + s
  BY <1>4
<1>12. QED
  BY <1>3, <1>4, <1>6, <1>7, <1>8, <1>9, <1>10, <1>11 DEF Timely

Clocks(I, D) == \A j \in 1..Len(cfg) : Timely(j, I, D)

\* A poll of the device the reader is at: its channel was read, the others
\* have waited as long as the transaction took.
LEMMA ClocksPolled ==
  ASSUME IInv, IInv', NEW I \in Nat, NEW D \in Nat, Tour <= D,
         I + PollInterval + 2 * D + 3 * SendMax < Wrap, Clocks(I, D),
         NEW d, NEW k \in 0..BusMax, Transaction(d, k), Visiting(k)
  PROVE  Clocks(I, D)'
<1>1. ReaderTypeOK /\ k \in Nat /\ cfg' = cfg /\ now' = (now + k) % Wrap
      /\ d \in Device /\ d.chan \in Channels
  BY TransactionType, ReaderAssumption DEF IInv, TypeOK, Visiting
<1>2. /\ lastPoll' = [lastPoll EXCEPT ![d.chan] = now]
      /\ age' = Aged(k, {d.chan})
      /\ lastPoll \in [Channels -> 0..(Wrap - 1)]
      /\ \A c \in Channels : age[c] \in Nat
      /\ AgeMax \in Nat
  <2>1. lastPoll \in [Channels -> 0..(Wrap - 1)]
    BY <1>1 DEF ReaderTypeOK
  <2>2. QED
    BY <1>1, <2>1, ClockType, ReaderAssumption DEF Transaction
<1>3. k < Wrap
  <2>1. Done + BusMax <= Tour /\ Done \in Nat /\ Tour \in Nat
    BY <1>1, ReadLength DEF Visiting, ReaderTypeOK
  <2>2. k <= BusMax /\ BusMax \in Nat /\ PollInterval \in Nat /\ SendMax \in Nat
        /\ Wrap \in Nat
    BY ReaderAssumption, LoopAssumption
  <2> HIDE DEF Done, Tour
  <2>3. QED
    BY <1>1, <2>1, <2>2
<1>4. ASSUME NEW j \in 1..Len(cfg), cfg[j].chan = d.chan
      PROVE  Timely(j, I, D)'
  <2>1. lastPoll'[cfg[j].chan] = now
    BY <1>1, <1>2, <1>4
  <2>2. age'[cfg[j].chan] <= k
    <3>1. age'[d.chan] = IF 0 + k > AgeMax THEN AgeMax ELSE 0 + k
      BY <1>1, <1>2 DEF Aged
    <3>2. QED
      BY <1>1, <1>2, <1>4, <3>1
  <2>3. \A E \in Nat : Tour <= E => k <= Slack(j, E)'
    BY SlackVisits
  <2>4. QED
    BY <1>1, <1>3, <2>1, <2>2, <2>3, TimelyAnew
<1>5. ASSUME NEW j \in 1..Len(cfg), cfg[j].chan # d.chan
      PROVE  Timely(j, I, D)'
  <2>1. cfg[j].chan \in Channels /\ j # at
    BY <1>1, <1>5, CfgDevices DEF Device, Transaction
  <2>2. lastPoll'[cfg[j].chan] = lastPoll[cfg[j].chan]
    BY <1>2, <1>5, <2>1
  <2>3. age'[cfg[j].chan] <= age[cfg[j].chan] + k
    <3>1. age'[cfg[j].chan] = IF age[cfg[j].chan] + k > AgeMax
                              THEN AgeMax ELSE age[cfg[j].chan] + k
      BY <1>2, <1>5, <2>1 DEF Aged
    <3>2. QED
      BY <1>1, <1>2, <2>1, <3>1
  <2>4. \A E \in Nat : Tour <= E => Slack(j, E) + k <= Slack(j, E)'
    BY <2>1, SlackVisits
  <2>5. Timely(j, I, D)
    BY DEF Clocks
  <2>6. QED
    BY <1>1, <2>2, <2>3, <2>4, <2>5, TimelyLater
<1>6. QED
  BY <1>1, <1>4, <1>5 DEF Clocks

\* What the configurations have in common: a read of all devices takes no
\* longer than D, no interval is longer than I, and all poll the same channels.
Polled(l) == {l[i].chan : i \in {x \in 1..Len(l) : l[x].on}}

Uniform(I, D) ==
  \A l \in Configs :
    /\ Len(l) * BusMax <= D
    /\ \A i \in 1..Len(l) : l[i].on => l[i].interval <= I
    /\ \A m \in Configs : Polled(m) = Polled(l)

\* The device the reader is at was polled less than its interval ago.
LEMMA TimelySkipped ==
  ASSUME IInv, IInv', NEW j \in 1..Len(cfg), NEW I \in Nat, NEW D \in Nat, Tour <= D,
         UNCHANGED <<cfg, now, lastPoll, age>>,
         Timely(j, I, D), NotDue(cfg[j]), cfg[j].interval <= I
  PROVE  Timely(j, I, D)'
<1> SUFFICES ASSUME cfg[j].on PROVE Timely(j, I, D)'
  BY DEF Timely
<1> DEFINE c == cfg[j].chan
           a == age[c]
           s == Since(lastPoll[c])
           n == cfg[j].interval
<1>1. ReaderTypeOK /\ ReaderTypeOK' /\ t0' \in 0..(Wrap - 1)
  BY TypeParts, TypePartsNext DEF IInv, OwnType
<1>2. Tour \in Nat /\ Tour' = Tour /\ j \in Nat
  BY <1>1, TourStays, PositionType
<1>3. c \in Channels /\ n \in Nat
  BY <1>1, PositionType
<1>4. a \in Nat /\ s \in Nat
  BY <1>1, <1>3, ClockType, SinceType
<1>5. lastPoll[c] # 0 /\ s < n
  BY DEF NotDue
<1>6. a <= s
  BY <1>5 DEF Timely
<1>7. PICK T \in Nat : T = Tour
  BY <1>2
<1>8. Slack(j, T)' \in Nat /\ Slack(j, D)' \in Nat
  <2>1. Tour' <= T /\ Tour' <= D
    BY <1>2, <1>7
  <2>2. QED
    BY <1>1, <1>2, <2>1, SlackNext
<1>9. Slack(j, Tour)' = Slack(j, T)'
  BY <1>2, <1>7 DEF Slack
<1>10. Since(lastPoll[c])' = s /\ a' = a /\ n' = n
  BY DEF Since
<1>11. \A p, q \in Nat : a <= n + p /\ s <= I + q
  BY <1>3, <1>4, <1>5, <1>6
<1>12. QED
  BY <1>6, <1>8, <1>9, <1>10, <1>11 DEF Timely

LEMMA ClocksSkipped ==
  ASSUME IInv, IInv', NEW I \in Nat, NEW D \in Nat, Tour <= D,
         I + PollInterval + 2 * D + 3 * SendMax < Wrap, Clocks(I, D),
         cfg \in Configs, Uniform(I, D), SkipDevice, Visiting(0)
  PROVE  Clocks(I, D)'
<1>1. ReaderTypeOK /\ UNCHANGED <<cfg, now, lastPoll, age>>
  BY TypeParts DEF IInv, SkipDevice
<1>2. 0 \in 0..BusMax /\ now' = (now + 0) % Wrap
  BY <1>1, StandsStill, ReaderAssumption
<1>3. at \in 1..Len(cfg) /\ (cfg[at].on => NotDue(cfg[at]))
  BY DEF SkipDevice, AtDevice
<1>4. ASSUME NEW j \in 1..Len(cfg), j # at
      PROVE  Timely(j, I, D)'
  <2>1. \A E \in Nat : Tour <= E => Slack(j, E) + 0 <= Slack(j, E)'
    BY <1>2, <1>4, SlackVisits
  <2>2. Timely(j, I, D)
    BY DEF Clocks
  <2>3. cfg[j].chan \in Channels
    BY <1>1, PositionType
  <2>4. age'[cfg[j].chan] <= age[cfg[j].chan] + 0
    <3>1. age[cfg[j].chan] \in Nat
      BY <1>1, <2>3, ClockType
    <3>2. QED
      BY <1>1, <3>1
  <2>5. QED
    BY <1>1, <1>2, <2>1, <2>2, <2>4, TimelyLater
<1>5. ASSUME NEW j \in 1..Len(cfg), j = at, cfg[j].on
      PROVE  Timely(j, I, D)'
  <2>1. NotDue(cfg[j]) /\ cfg[j].interval <= I /\ Timely(j, I, D)
    BY <1>3, <1>5 DEF Uniform, Clocks
  <2>2. QED
    BY <1>1, <2>1, TimelySkipped
<1>6. ASSUME NEW j \in 1..Len(cfg), ~cfg[j].on
      PROVE  Timely(j, I, D)'
  BY <1>1, <1>6 DEF Timely
<1>7. QED
  BY <1>1, <1>4, <1>5, <1>6 DEF Clocks

LEMMA ClocksTravel ==
  ASSUME IInv, IInv', Callers, Turn, NEW I \in Nat, NEW D \in Nat, Tour <= D,
         I + PollInterval + 2 * D + 3 * SendMax < Wrap, Clocks(I, D),
         NEW k, Passes(k), Travels(k)
  PROVE  Clocks(I, D)'
<1>1. ReaderTypeOK /\ k \in Nat /\ UNCHANGED <<cfg, lastPoll>> /\ now' = (now + k) % Wrap
  BY TypeParts DEF IInv, Passes
<1>2. PollInterval + 2 * Tour + SendMax < Wrap
  <2>1. Tour \in Nat /\ PollInterval \in Nat /\ SendMax \in Nat /\ Wrap \in Nat
    BY <1>1, ReadLength, LoopAssumption, ReaderAssumption
  <2> HIDE DEF Tour
  <2>2. QED
    BY <2>1
<1>3. ASSUME NEW j \in 1..Len(cfg) PROVE Timely(j, I, D)'
  <2>1. \A E \in Nat : Tour <= E => Slack(j, E) + k <= Slack(j, E)'
    BY <1>2, SlackGrows
  <2>2. cfg[j].chan \in Channels
    BY <1>1, PositionType
  <2>3. age'[cfg[j].chan] <= age[cfg[j].chan] + k
    BY <2>2 DEF Passes
  <2>4. Timely(j, I, D)
    BY DEF Clocks
  <2>5. QED
    BY <1>1, <2>1, <2>3, <2>4, TimelyLater
<1>4. QED
  BY <1>1, <1>3 DEF Clocks

\* A new configuration: no device has waited yet, and each of its channels was
\* polled in the old one.
LEMMA ClocksConfigured ==
  ASSUME IInv, IInv', NEW I \in Nat, NEW D \in Nat, Clocks(I, D),
         cfg \in Configs, cfg' \in Configs, Uniform(I, D), Serving, PostConfig
  PROVE  Clocks(I, D)'
<1>1. ReaderTypeOK /\ ReaderTypeOK' /\ t0 \in 0..(Wrap - 1) /\ t0' \in 0..(Wrap - 1)
  BY TypeParts, TypePartsNext DEF IInv, OwnType
<1>2. /\ UNCHANGED <<now, lastPoll, reader, place, t0>>
      /\ age' = [c \in Channels |-> 0]
      /\ reader = "none" /\ testState # "building" /\ testState' # "building"
      /\ pc = "tick" /\ pc' \in {"sync", "expire"} /\ (place = "pass" => pc' = "sync")
  BY DEF Serving, PostConfig, Configure
<1>3. Tour \in Nat /\ Tour' \in Nat /\ Tour <= D /\ Tour' <= D
  <2>1. Tour \in Nat /\ Tour' \in Nat
    BY <1>1, ReadLength, NextLength
  <2>2. Tour <= D /\ Tour' <= D
    BY DEF Uniform, Tour
  <2>3. QED
    BY <2>1, <2>2
<1>4. Waited' = Waited
  BY <1>2 DEF Waited, Since
<1>5. ASSUME NEW i \in Nat, NEW j \in Nat
      PROVE  Slack(j, D)' = Slack(i, D)
  <2>1. CASE place = "pass"
    <3>1. Slack(i, D) = PollInterval + D + 3 * SendMax
      BY <1>2, <2>1 DEF Slack
    <3>2. Slack(j, D)' = PollInterval + D + 3 * SendMax
      BY <1>2, <2>1 DEF Slack
    <3>3. QED
      BY <3>1, <3>2
  <2>2. CASE place # "pass"
    <3>1. Slack(i, D) = D + 3 * SendMax + Waited
      BY <1>2, <2>2 DEF Slack
    <3>2. Slack(j, D)' = D + 3 * SendMax + Waited'
      BY <1>2, <2>2 DEF Slack
    <3>3. QED
      BY <1>4, <3>1, <3>2
  <2>3. QED
    BY <2>1, <2>2
<1>6. ASSUME NEW j \in 1..Len(cfg'), cfg'[j].on
      PROVE  Timely(j, I, D)'
  <2> DEFINE c == cfg'[j].chan
             s == Since(lastPoll[c])
  <2>1. c \in Channels /\ cfg'[j].interval \in Nat
    <3>1. cfg'[j] \in Device
      BY <1>1 DEF ReaderTypeOK
    <3>2. QED
      BY <3>1 DEF Device
  <2>2. PICK i \in 1..Len(cfg) : cfg[i].on /\ cfg[i].chan = c
    <3>1. c \in Polled(cfg')
      BY <1>6 DEF Polled
    <3>2. c \in Polled(cfg)
      BY <3>1 DEF Uniform
    <3>3. QED
      BY <3>2 DEF Polled
  <2>3. i \in Nat /\ j \in Nat
    BY <1>1 DEF ReaderTypeOK
  <2>4. lastPoll[c] # 0 => s <= I + Slack(i, D)
    BY <2>2 DEF Clocks, Timely
  <2>5. s \in Nat
    <3>1. lastPoll[c] \in 0..(Wrap - 1)
      BY <1>1, <2>1, ClockType
    <3>2. QED
      BY <1>1, <3>1, SinceType
  <2>6. PICK T \in Nat : T = Tour'
    BY <1>3
  <2>7. Slack(j, T)' \in Nat
    <3>1. Tour' <= T
      BY <1>3, <2>6
    <3>2. QED
      BY <1>1, <2>3, <3>1, SlackNext
  <2>8. Slack(j, Tour)' = Slack(j, T)'
    BY <2>6 DEF Slack
  <2>9. age'[c] = 0
    BY <1>2, <2>1
  <2>10. Slack(j, D)' = Slack(i, D)
    BY <1>5, <2>3
  <2>11. 0 <= cfg'[j].interval + Slack(j, T)' /\ 0 <= s
    BY <2>1, <2>5, <2>7
  <2>12. lastPoll'[c] = lastPoll[c]
    BY <1>2
  <2>13. (age[cfg[j].chan] <= cfg[j].interval + Slack(j, Tour))'
    BY <2>8, <2>9, <2>11
  <2>14. (lastPoll[cfg[j].chan] # 0 =>
            /\ age[cfg[j].chan] <= Since(lastPoll[cfg[j].chan])
            /\ Since(lastPoll[cfg[j].chan]) <= I + Slack(j, D))'
    <3>1. Since(lastPoll[cfg[j].chan])' = s
      BY <1>2 DEF Since
    <3>2. QED
      BY <2>4, <2>9, <2>10, <2>11, <2>12, <3>1
  <2>15. QED
    BY <2>13, <2>14 DEF Timely
<1>7. ASSUME NEW j \in 1..Len(cfg'), ~cfg'[j].on
      PROVE  Timely(j, I, D)'
  BY <1>7 DEF Timely
<1>8. QED
  BY <1>6, <1>7 DEF Clocks

LEMMA ClocksRestarted ==
  ASSUME IInv, IInv', NEW I \in Nat, NEW D \in Nat, Tour <= D, Restart
  PROVE  Clocks(I, D)'
<1>1. ReaderTypeOK /\ ReaderTypeOK' /\ t0' \in 0..(Wrap - 1)
      /\ cfg' = cfg /\ lastPoll' = [c \in Channels |-> 0] /\ age' = [c \in Channels |-> 0]
  BY TypeParts, TypePartsNext DEF IInv, OwnType, Restart, ReaderReset
<1>2. Tour \in Nat /\ Tour' = Tour
  BY <1>1, TourStays
<1>3. ASSUME NEW j \in 1..Len(cfg) PROVE Timely(j, I, D)'
  <2>1. cfg[j].chan \in Channels /\ cfg[j].interval \in Nat
    BY <1>1, PositionType
  <2>2. PICK T \in Nat : T = Tour
    BY <1>2
  <2>3. Slack(j, T)' \in Nat
    <3>1. Tour' <= T /\ j \in Nat
      BY <1>1, <1>2, <2>2, PositionType
    <3>2. QED
      BY <1>1, <3>1, SlackNext
  <2>4. Slack(j, Tour)' = Slack(j, T)'
    BY <1>2, <2>2 DEF Slack
  <2>5. age'[cfg[j].chan] = 0 /\ lastPoll'[cfg[j].chan] = 0
    BY <1>1, <2>1
  <2>6. 0 <= cfg[j].interval + Slack(j, T)'
    BY <2>1, <2>3
  <2>7. QED
    BY <1>1, <2>4, <2>5, <2>6 DEF Timely
<1>4. QED
  BY <1>1, <1>3 DEF Clocks

OnTimeInv(I, D) == AvgInv /\ Callers /\ Turn /\ Clocks(I, D)

LEMMA TourFits ==
  ASSUME ReaderTypeOK, NEW I \in Nat, NEW D \in Nat, cfg \in Configs, Uniform(I, D)
  PROVE  Tour <= D
BY DEF Uniform, Tour

\* Every step keeps the clocks right.
LEMMA ClocksStep ==
  ASSUME NEW I \in Nat, NEW D \in Nat, Uniform(I, D),
         I + PollInterval + 2 * D + 3 * SendMax < Wrap,
         OnTimeInv(I, D), AvgInv', [Next]_vars
  PROVE  Clocks(I, D)'
<1>1. IInv /\ IInv' /\ ReaderTypeOK /\ cfg \in Configs /\ cfg' \in Configs
      /\ Callers /\ Turn /\ Clocks(I, D)
  BY DEF OnTimeInv, AvgInv, IInv, TypeOK
<1>2. Tour <= D
  BY <1>1, TourFits
<1>3. CASE UNCHANGED vars
  BY <1>1, <1>3
     DEF vars, sensorVars, loopVars, webVars, Clocks, Timely, Slack, Waited, Tour, Done,
         Since
<1>4. CASE Reading
  <2>1. CASE EndRead
    <3>1. ~(\E k \in 0..BusMax : Visiting(k))
      BY <2>1 DEF EndRead, Visiting
    <3>2. Passes(0) /\ Travels(0)
      BY <1>1, <1>4, <3>1, ReadingTravels DEF Travels
    <3>3. QED
      BY <1>1, <1>2, <3>2, ClocksTravel
  <2>2. UNCHANGED <<place, pc, t0, testState, webActive, lastReq>>
    BY <1>4 DEF Reading, loopVars, webVars
  <2>3. CASE SkipDevice
    <3>1. 0 \in 0..BusMax /\ now' = (now + 0) % Wrap
      BY <1>1, <2>3, StandsStill, ReaderAssumption DEF SkipDevice
    <3>2. Visiting(0)
      BY <2>2, <2>3, <3>1 DEF SkipDevice, AtDevice, Visiting
    <3>3. QED
      BY <1>1, <1>2, <2>3, <3>2, ClocksSkipped
  <2>4. ASSUME NEW d, NEW k \in 0..BusMax, Transaction(d, k)
        PROVE  Clocks(I, D)'
    <3>1. Visiting(k)
      BY <2>2, <2>4 DEF Transaction, AtDevice, Visiting
    <3>2. QED
      BY <1>1, <1>2, <2>4, <3>1, ClocksPolled
  <2>5. QED
    BY <1>4, <2>1, <2>3, <2>4 DEF Reading, Read, ReadFails, ReadOk, ReadLate, Answered
<1>5. CASE Restart
  BY <1>1, <1>2, <1>5, ClocksRestarted
<1>6. CASE Serving /\ PostConfig
  BY <1>1, <1>6, ClocksConfigured
<1>7. ASSUME NEW k, Passes(k), Travels(k)
      PROVE  Clocks(I, D)'
  BY <1>1, <1>2, <1>7, ClocksTravel
<1>8. QED
  BY <1>1, <1>3, <1>4, <1>5, <1>6, <1>7, Travelling

\* If all configurations poll the same channels and the tick counter does not
\* wrap around between two visits to a device, then no device waits for its
\* interval longer than one round beyond it in the working mode, whichever reads,
\* requests, sends, sleeps, configurations and power failures come between.
THEOREM DevicesOnTime ==
  ASSUME NEW I \in Nat, NEW D \in Nat, Uniform(I, D),
         I + PollInterval + 2 * D + 3 * SendMax < Wrap
  PROVE  Spec => []OnTime
<1>1. Init => Callers /\ Turn /\ Clocks(I, D)
  <2>1. SUFFICES ASSUME Init PROVE Callers /\ Turn /\ Clocks(I, D)
    OBVIOUS
  <2>2. IInv /\ ReaderTypeOK /\ t0 \in 0..(Wrap - 1)
    BY <2>1, InitInv, TypeParts DEF IInv, OwnType
  <2>3. Callers /\ Turn
    BY <2>1 DEF Init, ReaderInit, Callers, Turn
  <2>4. ASSUME NEW j \in 1..Len(cfg) PROVE Timely(j, I, D)
    <3>1. cfg[j].chan \in Channels /\ cfg[j].interval \in Nat
      BY <2>2, PositionType
    <3>2. age[cfg[j].chan] = 0 /\ lastPoll[cfg[j].chan] = 0
      BY <2>1, <3>1 DEF Init, ReaderInit
    <3>3. PICK T \in Nat : T = Tour
      BY <2>2, ReadLength
    <3>4. Slack(j, T) \in Nat
      <4>1. j \in Nat /\ Tour <= T
        BY <2>2, <3>3 DEF ReaderTypeOK
      <4>2. QED
        BY <2>2, <4>1, SlackType
    <3>5. Slack(j, Tour) = Slack(j, T)
      BY <3>3 DEF Slack
    <3>6. 0 <= cfg[j].interval + Slack(j, T)
      BY <3>1, <3>4
    <3>7. QED
      BY <3>2, <3>5, <3>6 DEF Timely
  <2>5. QED
    BY <2>3, <2>4 DEF Clocks
<1>2. AvgInv /\ AvgInv' /\ (Callers /\ Turn /\ Clocks(I, D)) /\ [Next]_vars
        => (Callers /\ Turn /\ Clocks(I, D))'
  BY CallersStep, TurnStep, ClocksStep DEF AvgInv, OnTimeInv
<1>3. AvgInv /\ (Callers /\ Turn /\ Clocks(I, D)) => OnTime
  <2>1. SUFFICES ASSUME AvgInv, Clocks(I, D), NEW d \in Devices, d.on
                 PROVE  age[d.chan] <= d.interval + Round
    BY DEF OnTime
  <2>2. ReaderTypeOK /\ t0 \in 0..(Wrap - 1)
    BY <2>1, TypeParts DEF AvgInv, IInv, OwnType
  <2>3. PICK j \in 1..Len(cfg) : cfg[j] = d
    BY <2>1 DEF Devices
  <2>4. age[d.chan] <= d.interval + Slack(j, Tour)
    BY <2>1, <2>3 DEF Clocks, Timely
  <2>5. d.chan \in Channels /\ d.interval \in Nat
    BY <2>2, <2>3, PositionType
  <2>6. age[d.chan] \in Nat
    BY <2>2, <2>5, ClockType
  <2>7. PICK T \in Nat : T = Tour
    BY <2>2, ReadLength
  <2>8. Slack(j, Tour) = Slack(j, T)
    BY <2>7 DEF Slack
  <2>9. Slack(j, T) \in Nat /\ Slack(j, T) <= PollInterval + 2 * T + 3 * SendMax
    <3>1. j \in Nat /\ Tour <= T
      BY <2>2, <2>7 DEF ReaderTypeOK
    <3>2. QED
      BY <2>2, <3>1, SlackType
  <2>10. Round = PollInterval + 2 * T + 3 * SendMax
    <3>1. 2 * Len(cfg) * BusMax = 2 * (Len(cfg) * BusMax)
      <4>1. Len(cfg) \in Nat /\ BusMax \in Nat
        BY <2>2, ReaderAssumption DEF ReaderTypeOK
      <4>2. QED
        BY <4>1
    <3>2. QED
      BY <2>7, <3>1 DEF Round, Tour
  <2>11. \A a, n, s, r \in Nat : a <= n + s /\ s <= r => a <= n + r
    OBVIOUS
  <2>12. PollInterval + 2 * T + 3 * SendMax \in Nat
    <3>1. PollInterval \in Nat /\ SendMax \in Nat
      BY LoopAssumption
    <3>2. QED
      BY <3>1
  <2>13. age[d.chan] <= d.interval + Slack(j, T)
    BY <2>4, <2>8
  <2>14. age[d.chan] <= d.interval + (PollInterval + 2 * T + 3 * SendMax)
    BY <2>5, <2>6, <2>9, <2>11, <2>12, <2>13
  <2>15. QED
    BY <2>10, <2>14
<1>4. QED
  BY <1>1, <1>2, <1>3, AvgInvariance, PTL DEF Spec

=============================================================================
