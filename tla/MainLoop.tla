------------------------------ MODULE MainLoop ------------------------------
(***************************************************************************)
(* App::run (Core/Src/app.cpp) around the sensor reader: one pass polls    *)
(* the sensors, stores the fresh values, sends, looks at the browser's     *)
(* idle timeout, runs a test send somebody asked for, and looks at the     *)
(* retry timers; then the loop serves the browser, waits or sleeps.        *)
(*                                                                         *)
(* place and pc say where the loop is, down to the calls at which a flag   *)
(* or a timer is read or set.  The card takes every line and the links are *)
(* open here: StoreForward and ChannelManager have their failures.  A send *)
(* takes up to SendMax ticks, a turn of the two waiting loops one, and a   *)
(* request none beyond what it reads from the sensors.                     *)
(***************************************************************************)
EXTENDS SensorReader

CONSTANTS
  PollInterval,     \* Cfg().poll_interval_sec, in ticks
  SendEvery,        \* Cfg().send_interval_polls
  IdleTimeout,      \* Cfg().web.web_idle_timeout_s, in ticks
  RetryGsm,         \* Cfg().backup_retry_gsm_sec, in ticks
  RetryIridium,     \* Cfg().backup_retry_iridium_sec, in ticks
  IridiumOld,       \* Cfg().iridium_enabled
  IridiumNew,       \* Cfg().channels.iridium_enabled
  Watchdog,         \* the period of the IWDG, in ticks
  Unfed,            \* the longest time from its last feed to the stop mode
  SendMax,          \* the longest send, in ticks
  Modes,            \* the positions of the mode switch: "debug", "sleep"
  Requests,         \* what a browser may ask for
  Resets            \* whether the power may fail

Flows ==
  [pass |-> <<"tick", "sync", "poll", "store", "send", "expire", "test",
              "retry", "iridium", "rest">>,
   web  |-> <<"head", "tick", "sync", "expire", "test", "delay">>,
   wait |-> <<"head", "tick", "expire", "test", "delay">>]

RequestKinds == {"denied", "visit", "test", "preview", "config"}

ASSUME LoopAssumption ==
  /\ {PollInterval, SendEvery, Watchdog} \subseteq Nat \ {0}
  /\ {IdleTimeout, RetryGsm, RetryIridium, Unfed, SendMax} \subseteq Nat
  /\ IridiumOld \in BOOLEAN /\ IridiumNew \in BOOLEAN /\ Resets \in BOOLEAN
  /\ Modes \subseteq {"debug", "sleep"}
  /\ Requests \subseteq RequestKinds

VARIABLES
  place,        \* "pass", the web loop or the wait loop
  pc,           \* the next step there
  mode,         \* App::m_mode
  t0,           \* the locals `now', `loopStart' and `t0'; 0 out of their scope
  webActive,    \* App::m_webActive
  lastReq,      \* App::m_webLastReqTick
  exclusive,    \* g_web_exclusive
  testState,    \* App::m_testState; "building" covers "sending"
  pollCounter,  \* App::m_pollCounter
  lastRetry,    \* App::m_lastBackupSendTick
  lastIridium,  \* s_lastIridiumRetryTick
  backlog,      \* anyBackupExists()
  stored,       \* history: how many records on the card hold the sample
  lost          \* history: the samples no record will ever hold

loopVars == <<place, pc, mode, t0>>
webVars  == <<webActive, lastReq, exclusive, testState>>
sendVars == <<pollCounter, lastRetry, lastIridium, backlog>>
history  == <<stored, lost>>
vars     == <<sensorVars, loopVars, webVars, sendVars, history>>

Ids(S) == {s.id : s \in S}

\* What is in RAM and not yet in a record.
OpenSamples == UNION {Ids(sum[c]) : c \in Channels}
FreshSamples == UNION {Ids(slot[c].val) : c \in {x \in Channels : fresh[x]}}
Unstored(S) == {i \in S : stored[i] = 0}

-----------------------------------------------------------------------------
(* Moving through the flow *)

\* One thread: nothing else runs during a read or a test send.
Synchronous == reader = "none" /\ testState # "building"

At(step) == pc = step /\ Synchronous

Position == CHOOSE i \in 1..Len(Flows[place]) : Flows[place][i] = pc

Step ==
  /\ pc' = Flows[place][(Position % Len(Flows[place])) + 1]
  /\ UNCHANGED <<place, mode>>

Advance == Step /\ UNCHANGED t0

Enter(where, step) ==
  /\ place' = where
  /\ pc' = step
  /\ UNCHANGED mode

\* The next pass; the time the loop began was a local of it.
NextPass == Enter("pass", "tick") /\ t0' = 0

-----------------------------------------------------------------------------
(* WebServer::tick *)

NoRequest ==
  /\ At("tick")
  /\ Advance
  /\ UNCHANGED <<sensorVars, webVars, sendVars, history>>

Asked(kind) ==
  /\ kind \in Requests
  /\ At("tick")
  /\ Advance
  /\ exclusive' = TRUE
  /\ UNCHANGED <<sendVars, history>>

\* Without the right password: send401, and the activity is not noted.
Denied ==
  /\ Asked("denied")
  /\ UNCHANGED <<sensorVars, webActive, lastReq, testState>>

Served(kind) ==
  /\ Asked(kind)
  /\ webActive' = TRUE
  /\ lastReq' = now

\* A page, a status, a file: anything without an effect on the loop.
Visit == Served("visit") /\ UNCHANGED <<sensorVars, testState>>

\* POST /api/test_send: triggerTestSend leaves a test in progress alone.
AskTest ==
  /\ Served("test")
  /\ testState' = IF testState = "building" THEN testState ELSE "reading"
  /\ UNCHANGED sensorVars

\* GET /api/test_payload: getTestPayload reads the sensors.
AskPreview ==
  /\ Served("preview")
  /\ BeginRead("preview")
  /\ UNCHANGED testState

\* POST /config with a text that parses.
PostConfig ==
  /\ Served("config")
  /\ \E c \in Configs : Configure(c)
  /\ UNCHANGED testState

ServerTick ==
  NoRequest \/ Denied \/ Visit \/ AskTest \/ AskPreview \/ PostConfig

-----------------------------------------------------------------------------
(* The sensors *)

\* A step of read().  The caller of a read outside the poll has no use for
\* the values that became fresh in it.
Reading ==
  /\ Read
  /\ lost' = IF reader \in {"test", "preview"} /\ reader' = "none"
             THEN lost \union Unstored(FreshSamples) ELSE lost
  /\ UNCHANGED <<loopVars, webVars, sendVars, stored>>

\* Mutant: g_web_exclusive is set and not cleared, as before the `FIX'.
SyncFlagSet ==
  /\ At("sync")
  /\ pc' = Flows[place][Position + 1]
  /\ mode' \in IF place = "pass" THEN Modes ELSE {mode}
  /\ exclusive' = (exclusive \/ webActive)
  /\ UNCHANGED <<sensorVars, place, t0, webActive, lastReq, testState,
                 sendVars, history>>

\* g_web_exclusive = m_webActive, and in a pass the mode switch is read.
SyncFlag ==
  /\ At("sync")
  /\ pc' = Flows[place][Position + 1]
  /\ mode' \in IF place = "pass" THEN Modes ELSE {mode}
  /\ exclusive' = webActive
  /\ UNCHANGED <<sensorVars, place, t0, webActive, lastReq, testState,
                 sendVars, history>>

Poll ==
  /\ At("poll")
  /\ BeginRead("loop")
  /\ Advance
  /\ UNCHANGED <<webVars, sendVars, history>>

Storable(c) == fresh[c] /\ slot[c].valid

\* One record of sample set slot[c].val for every channel of C.
AppendRecords(C) ==
  /\ stored' = [i \in DOMAIN stored |->
       stored[i] + Cardinality({c \in C : i \in Ids(slot[c].val)})]
  /\ backlog' = (backlog \/ C # {})
  /\ UNCHANGED <<sensorVars, webVars, pollCounter, lastRetry, lastIridium, lost>>

\* Mutant: the loop over the channels ends at the first one that is not due.
StoreUntil ==
  /\ At("store")
  /\ Advance
  /\ AppendRecords({c \in Channels : \A x \in Channels : x <= c => Storable(x)})

Store ==
  /\ At("store")
  /\ Advance
  /\ AppendRecords({c \in Channels : Storable(c)})

-----------------------------------------------------------------------------
(* Sending *)

\* retransmitBackup: some time passes, and the files may be gone.
Retransmit ==
  /\ \E k \in 0..SendMax : Elapse(k)
  /\ backlog' \in {backlog, FALSE}
  /\ UNCHANGED <<cfg, lastPoll, fresh, slot, sum, reader, at, late, taken,
                 webVars, history>>

NotYetSending ==
  /\ At("send")
  /\ pollCounter + 1 < SendEvery
  /\ Advance
  /\ pollCounter' = pollCounter + 1
  /\ UNCHANGED <<sensorVars, webVars, lastRetry, lastIridium, backlog, history>>

\* Mutant: a skipped send leaves the counter where it is.
PeriodicSkipCounting ==
  /\ At("send")
  /\ pollCounter + 1 >= SendEvery
  /\ webActive
  /\ Advance
  /\ pollCounter' = pollCounter + 1
  /\ UNCHANGED <<sensorVars, webVars, lastRetry, lastIridium, backlog, history>>

PeriodicSkip ==
  /\ At("send")
  /\ pollCounter + 1 >= SendEvery
  /\ webActive
  /\ Advance
  /\ pollCounter' = 0
  /\ UNCHANGED <<sensorVars, webVars, lastRetry, lastIridium, backlog, history>>

PeriodicSend ==
  /\ At("send")
  /\ pollCounter + 1 >= SendEvery
  /\ ~webActive
  /\ Advance
  /\ pollCounter' = 0
  /\ Retransmit
  /\ UNCHANGED <<lastRetry, lastIridium>>

NoBackups ==
  /\ At("retry")
  /\ ~backlog
  /\ pc' = "rest"
  /\ UNCHANGED <<sensorVars, place, mode, t0, webVars, sendVars, history>>

\* The first retry timer; `now' is read here and used for both timers.
RetryTimer ==
  /\ At("retry")
  /\ backlog
  /\ t0' = now
  /\ pc' = "iridium"
  /\ UNCHANGED <<place, mode, pollCounter, lastIridium>>

RetryDue == Since(lastRetry) >= RetryGsm

\* Not due; or due and then put off, by the browser or because Iridium is on.
RetrySkip ==
  /\ RetryTimer
  /\ RetryDue => webActive \/ (IridiumOld /\ IridiumNew)
  /\ lastRetry' = IF RetryDue THEN now ELSE lastRetry
  /\ UNCHANGED <<sensorVars, webVars, backlog, history>>

RetrySend ==
  /\ RetryTimer
  /\ RetryDue
  /\ ~webActive
  /\ ~(IridiumOld /\ IridiumNew)
  /\ lastRetry' = now
  /\ Retransmit

IridiumDue ==
  /\ IridiumOld \/ IridiumNew
  /\ (t0 - lastIridium) % Wrap >= RetryIridium

IridiumSkip ==
  /\ At("iridium")
  /\ IridiumDue => webActive
  /\ Step
  /\ t0' = 0
  /\ lastIridium' = IF IridiumDue THEN t0 ELSE lastIridium
  /\ UNCHANGED <<sensorVars, webVars, pollCounter, lastRetry, backlog, history>>

IridiumSend ==
  /\ At("iridium")
  /\ IridiumDue
  /\ ~webActive
  /\ Step
  /\ t0' = 0
  /\ lastIridium' = t0
  /\ Retransmit
  /\ UNCHANGED <<pollCounter, lastRetry>>

Send ==
  \/ NotYetSending \/ PeriodicSkip \/ PeriodicSend
  \/ NoBackups \/ RetrySkip \/ RetrySend \/ IridiumSkip \/ IridiumSend

-----------------------------------------------------------------------------
(* checkWebTimeout, processTestSend *)

Expired == webActive /\ Since(lastReq) >= IdleTimeout

\* Mutant: the loops that serve the browser leave the check to the pass.
ExpireInPass ==
  /\ At("expire")
  /\ Advance
  /\ webActive' = (webActive /\ (Expired => place # "pass"))
  /\ UNCHANGED <<sensorVars, lastReq, exclusive, testState, sendVars, history>>

Expire ==
  /\ At("expire")
  /\ Advance
  /\ webActive' = (webActive /\ ~Expired)
  /\ UNCHANGED <<sensorVars, lastReq, exclusive, testState, sendVars, history>>

NoTest ==
  /\ At("test")
  /\ testState # "reading"
  /\ Advance
  /\ UNCHANGED <<sensorVars, webVars, sendVars, history>>

\* Mutant: like every other send, a test waits for the browser to go.
BeginTestLater ==
  /\ At("test")
  /\ testState = "reading"
  /\ IF webActive
     THEN /\ Advance
          /\ UNCHANGED <<sensorVars, testState>>
     ELSE /\ BeginRead("test")
          /\ testState' = "building"
          /\ UNCHANGED loopVars
  /\ UNCHANGED <<webActive, lastReq, exclusive, sendVars, history>>

BeginTest ==
  /\ At("test")
  /\ testState = "reading"
  /\ BeginRead("test")
  /\ testState' = "building"
  /\ UNCHANGED <<loopVars, webActive, lastReq, exclusive, sendVars, history>>

\* k ticks on which a browser may have the device.
Spend(k) == IF webActive THEN Stall(k) ELSE Elapse(k)

\* buildOceanPayload and sendData; a payload nobody took goes to the card.
TestSend ==
  /\ testState = "building"
  /\ reader = "none"
  /\ \E k \in 0..SendMax : Spend(k)
  /\ \/ testState' = "success" /\ UNCHANGED backlog
     \/ testState' = "fail" /\ backlog' \in {backlog, TRUE}
  /\ Advance
  /\ UNCHANGED <<cfg, lastPoll, fresh, slot, sum, reader, at, late, taken,
                 webActive, lastReq, exclusive, pollCounter, lastRetry,
                 lastIridium, history>>

Test == NoTest \/ BeginTest \/ TestSend

-----------------------------------------------------------------------------
(* The end of a pass: serve the browser, sleep, or wait *)

EnterLoop ==
  /\ At("rest")
  /\ webActive \/ mode = "debug"
  /\ Enter(IF webActive THEN "web" ELSE "wait", "head")
  /\ t0' = now
  /\ UNCHANGED <<sensorVars, webVars, sendVars, history>>

LoopHead ==
  /\ At("head")
  /\ IF Since(t0) < PollInterval
     THEN Advance
     ELSE NextPass
  /\ UNCHANGED <<sensorVars, webVars, sendVars, history>>

\* HAL_Delay, then out of the web loop when the browser has gone.
WebDelay ==
  /\ At("delay")
  /\ place = "web"
  /\ Spend(1)
  /\ IF webActive THEN Advance ELSE NextPass
  /\ UNCHANGED <<cfg, lastPoll, fresh, slot, sum, reader, at, late, taken,
                 webVars, sendVars, history>>

WaitDelay ==
  /\ At("delay")
  /\ place = "wait"
  /\ ~webActive
  /\ Elapse(1)
  /\ Advance
  /\ UNCHANGED <<cfg, lastPoll, fresh, slot, sum, reader, at, late, taken,
                 webVars, sendVars, history>>

\* Out of the wait loop at once: the browser is active, or has connected.
WaitBreak ==
  /\ At("delay")
  /\ place = "wait"
  /\ NextPass
  /\ UNCHANGED <<sensorVars, webVars, sendVars, history>>

Asleep == At("rest") /\ ~webActive /\ mode = "sleep"

\* Stop mode with the tick suspended: time passes and HAL_GetTick() does not.
Sleep ==
  /\ Asleep
  /\ PollInterval < Watchdog
  /\ NextPass
  /\ UNCHANGED <<sensorVars, webVars, sendVars, history>>

Restart ==
  /\ ReaderReset
  /\ NextPass
  /\ webActive' = FALSE /\ lastReq' = 0 /\ exclusive' = FALSE
  /\ testState' = "idle"
  /\ pollCounter' = 0 /\ lastRetry' = 1 % Wrap /\ lastIridium' = 0
  /\ lost' = lost \union Unstored(OpenSamples \union FreshSamples)
  /\ UNCHANGED <<backlog, stored>>

\* The watchdog keeps counting in Stop mode, and nothing feeds it there.
SleepReset == Asleep /\ Unfed + PollInterval >= Watchdog /\ Restart

PowerLoss == Resets /\ Restart

Rest ==
  EnterLoop \/ LoopHead \/ WebDelay \/ WaitDelay \/ WaitBreak \/ Sleep \/ SleepReset

-----------------------------------------------------------------------------
Init ==
  /\ ReaderInit
  /\ place = "pass" /\ pc = "tick"
  /\ mode \in Modes
  /\ t0 = 0
  /\ webActive = FALSE /\ lastReq = 0 /\ exclusive = FALSE
  /\ testState = "idle"
  /\ pollCounter = 0 /\ lastRetry = 1 % Wrap /\ lastIridium = 0
  /\ backlog \in BOOLEAN
  /\ stored = [i \in 1..MaxSamples |-> 0]
  /\ lost = {}

Loop == ServerTick \/ Reading \/ SyncFlag \/ Poll \/ Store \/ Send \/ Expire \/ Test \/ Rest

Next == Loop \/ PowerLoss

Spec == Init /\ [][Next]_vars

\* The processor runs, and power failures come to an end.
FairSpec == Spec /\ WF_vars(Loop)

-----------------------------------------------------------------------------
(* Properties *)

TypeOK ==
  /\ ReaderTypeOK
  /\ place \in DOMAIN Flows
  /\ pc \in {Flows[place][i] : i \in 1..Len(Flows[place])}
  /\ mode \in Modes
  /\ {t0, lastReq, lastRetry, lastIridium} \subseteq 0..(Wrap - 1)
  /\ {webActive, exclusive, backlog} \subseteq BOOLEAN
  /\ testState \in {"idle", "reading", "building", "success", "fail"}
  /\ pollCounter \in 0..SendEvery
  /\ stored \in [1..MaxSamples -> Nat]
  /\ lost \subseteq 1..MaxSamples

\* No measurement is in two records, whatever reads come between two passes.
StoredOnce == \A i \in 1..MaxSamples : stored[i] <= 1

Awaiting == IF pc = "store" THEN FreshSamples ELSE {}

\* Every measurement the bus delivered is in a record, in an open window, or
\* about to be stored; except those that were in RAM when the power failed and
\* those of a window that a read outside the poll completed.
EverySampleStored ==
  reader = "none" =>
    \A i \in 1..taken : stored[i] = 1 \/ i \in OpenSamples \union Awaiting \union lost

\* The devices a channel has in any configuration.
DevicesOf(c) == {d \in UNION {{k[i] : i \in 1..Len(k)} : k \in Configs} : d.chan = c}

\* A value on its way to the card is one sample, or the mean of as many as the
\* window of its device asks for: of more only if the window was wider before,
\* and never of more than the widest window.  All of them come from the slaves
\* the channel has in some configuration.
AverageOfItsWindow ==
  At("store") =>
    \A c \in Channels : Storable(c) =>
      LET n == Cardinality(slot[c].val) IN
      /\ \E d \in Devices :
           /\ d.on /\ d.chan = c
           /\ IF d.window <= 1
              THEN n = 1
              ELSE n >= d.window /\ \E e \in DevicesOf(c) : n <= e.window
      /\ \A s \in slot[c].val :
           \E e \in DevicesOf(c) : SlaveOf[s.sensor] = SlaveOf[e.sensor]

\* The longest time between two visits of read() to a device.
Round == PollInterval + 2 * Len(cfg) * BusMax + 3 * SendMax

\* In the working mode no device waits for its interval longer than one round
\* beyond it, across every wrap of the counter.  Nothing is said of the time a
\* browser has the device, nor of Stop mode, where HAL_GetTick() stands still and
\* every interval is the longer for it.
OnTime ==
  \A d \in Devices : d.on => age[d.chan] <= d.interval + Round

\* The browser holds the device no longer than its idle timeout and the
\* longest stretch of the loop without a look at it.
IdleEnds ==
  webActive => Since(lastReq) <= IdleTimeout + 2 * Len(cfg) * BusMax + SendMax

Retransmits == PeriodicSend \/ RetrySend \/ IridiumSend

\* A request is noted by notifyWebActivity.
Browses == webActive' /\ (lastReq' # lastReq \/ ~webActive)

\* Once the browser is quiet and the switch is not at "sleep", the stored
\* measurements are sent again and again, and HTTPS does not refuse them all
\* because of a g_web_exclusive left behind.
QuietResumes ==
  <>[][~Browses]_vars /\ <>[](mode = "debug") =>
    []<><<Retransmits /\ ~exclusive>>_vars

\* A test that was asked for ends, however long the browser stays to watch.
TestEnds == testState = "reading" ~> testState \in {"success", "fail"}

\* README.md:269, a pass of the loop is SENSORS_POLL -> SEND_DATA -> SLEEP:
\* a device that sleeps between its polls sends again and again.
SleeperSends ==
  <>[][~Browses]_vars /\ <>[](mode = "sleep") => []<><<Retransmits>>_vars
=============================================================================
