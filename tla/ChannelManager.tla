--------------------------- MODULE ChannelManager ---------------------------
(***************************************************************************)
(* Class ChannelManager (Core/Src/channel_manager.cpp) as App::run uses    *)
(* it: sendData walks the chain of channels in order of priority, tick     *)
(* runs the watchdog and the recovery timer once per loop, and a new       *)
(* configuration from the browser makes App::reinitChannelManager start    *)
(* the manager again without clearing what it knows of the channels.       *)
(*                                                                         *)
(* HAL_GetTick() is a counter modulo Wrap, read in units coarse enough for *)
(* the model; a time stamp of 0 means "never", as in the code.  `age' is a *)
(* history variable: the true time since a channel last worked, which the  *)
(* code can only estimate from the wrapping counter.                       *)
(***************************************************************************)
EXTENDS Naturals, Sequences

CONSTANTS
  COUNT,           \* number of channels; channel 0 is the Ethernet
  Chains,          \* the values chain_order may be given by a configuration
  WATCHDOG_TIMEOUT,
  RECOVERY_INTERVAL,
  Wrap,            \* HAL_GetTick() is modulo Wrap
  MaxGap,          \* bound: the longest time between two calls of tick()
  Reconfigurable   \* may the browser post new configurations?

Channels == 0..(COUNT - 1)

ASSUME ParametersAssumption ==
  /\ COUNT \in Nat \ {0}
  /\ Chains \subseteq Seq(Nat) \ {<<>>}
  /\ WATCHDOG_TIMEOUT \in Nat
  /\ RECOVERY_INTERVAL \in Nat
  /\ Wrap \in Nat \ {0}
  /\ MaxGap \in Nat
  /\ WATCHDOG_TIMEOUT + MaxGap < Wrap
  /\ Reconfigurable \in BOOLEAN

VARIABLES
  enabled,            \* the channels whose ChannelState::enabled is set
  registered,         \* the channels that have a send function
  chain,              \* the chain of the configuration, by priority
  recoveryLen,        \* the places of the chain tick() looks at: the legacy chain_count,
                      \* shorter than the chain sendData uses while neither was ever
                      \* configured; 0 stands for one it takes no notice of, because
                      \* chain_enabled is false or chain_count is 1
  alive, last_success_tick, fail_count,
  m_lastRecoveryTick,
  m_lastSentChannel,
  now,                \* HAL_GetTick()
  pc,                 \* where the loop is: "tick", "idle" or in "send"
  pos,                \* the place in the chain sendData has reached
  up,                 \* the channels that carry data at the moment
  age,                \* history: time since the channel worked, up to Wrap
  gap                 \* history: time since the last tick()

config == <<enabled, registered, chain, recoveryLen>>
states == <<alive, last_success_tick, fail_count, age>>
clock == <<now, gap>>
vars == <<config, states, m_lastRecoveryTick, m_lastSentChannel, clock, pc, pos, up>>

\* Mutant: a difference that does not wrap.
SinceSigned(t) == IF now >= t THEN now - t ELSE 0

\* A wrap-around difference of two tick values, as uint32_t subtraction.
Since(t) == (now + Wrap - t) % Wrap

-----------------------------------------------------------------------------
(* Start and reconfiguration *)

Usable(c) == c \in enabled /\ c \in registered

RecoveryLens(order) == {0} \union 2..Len(order)

Init ==
  /\ enabled \in SUBSET Channels
  /\ registered = enabled
  /\ chain \in Chains
  /\ recoveryLen \in RecoveryLens(chain)
  /\ alive \in { {}, enabled \intersect {0} }
  /\ last_success_tick = [c \in Channels |-> IF c \in alive THEN 1 % Wrap ELSE 0]
  /\ fail_count = [c \in Channels |-> 0]
  /\ m_lastRecoveryTick = 1 % Wrap
  /\ m_lastSentChannel = 0
  /\ now = 1 % Wrap
  /\ pc = "tick"
  /\ pos = 0
  /\ up \in SUBSET Channels
  /\ age = [c \in Channels |-> 0]
  /\ gap = 0

\* Mutant: a configuration takes effect in the middle of a send.
ReinitAnytime ==
  /\ Reconfigurable
  /\ enabled' \in SUBSET Channels
  /\ registered' = registered \union enabled'
  /\ chain' \in Chains
  /\ recoveryLen' \in RecoveryLens(chain')
  /\ m_lastRecoveryTick' = now
  /\ UNCHANGED <<states, m_lastSentChannel, clock, pc, pos, up>>

\* init() loads the flags and keeps every ChannelState; registerChannel() sets
\* the functions; markAlive() is called for a ready Ethernet only.
Reinit ==
  /\ Reconfigurable
  /\ pc \in {"tick", "idle"}
  /\ enabled' \in SUBSET Channels
  /\ registered' = registered \union enabled'
  /\ chain' \in Chains
  /\ recoveryLen' \in RecoveryLens(chain')
  /\ m_lastRecoveryTick' = now
  /\ \/ UNCHANGED states
     \/ /\ 0 \in enabled'
        /\ alive' = alive \union {0}
        /\ last_success_tick' = [last_success_tick EXCEPT ![0] = now]
        /\ fail_count' = [fail_count EXCEPT ![0] = 0]
        /\ age' = [age EXCEPT ![0] = 0]
  /\ UNCHANGED <<m_lastSentChannel, clock, pc, pos, up>>

-----------------------------------------------------------------------------
(* Time and the outside world *)

Older(d) == [c \in Channels |-> IF age[c] + d < Wrap THEN age[c] + d ELSE Wrap]

\* 49.7 days at the code's width, so no pass of the loop lasts until the wrap.
Passes(d) ==
  /\ gap + d <= MaxGap
  /\ gap' = gap + d
  /\ now' = (now + d) % Wrap

\* The rest of the loop body and the wait, after which tick() runs again.
Wait(d) ==
  /\ pc = "idle"
  /\ pc' = "tick"
  /\ Passes(d)
  /\ age' = Older(d)
  /\ UNCHANGED <<config, alive, last_success_tick, fail_count>>
  /\ UNCHANGED <<m_lastRecoveryTick, m_lastSentChannel, pos, up>>

\* A link comes up or goes down.
LinkChanges ==
  /\ \E c \in Channels :
       up' = IF c \in up THEN up \ {c} ELSE up \union {c}
  /\ UNCHANGED <<config, states, m_lastRecoveryTick, m_lastSentChannel, clock, pc, pos>>

-----------------------------------------------------------------------------
(* tick *)

TimedOut(c) ==
  /\ c \in enabled /\ c \in alive
  /\ last_success_tick[c] # 0
  /\ Since(last_success_tick[c]) > WATCHDOG_TIMEOUT

RecoveryDue == Since(m_lastRecoveryTick) > RECOVERY_INTERVAL

\* The first place of the chain that holds an enabled channel.
IsFirstEnabled(i) ==
  /\ i \in 1..Len(chain) /\ chain[i] \in enabled
  /\ \A j \in 1..(i - 1) : chain[j] \notin enabled

\* The channels whose fail_count the recovery clears: the first enabled channel
\* of the chain, if it is dead.
Recovering(living) ==
  IF RecoveryDue
  THEN { c \in Channels : \E i \in 1..recoveryLen :
           IsFirstEnabled(i) /\ c = chain[i] /\ c \notin living }
  ELSE {}

Tick ==
  /\ pc = "tick"
  /\ pc' = "idle"
  /\ alive' = { c \in alive : ~TimedOut(c) }
  /\ fail_count' =
       [c \in Channels |-> IF c \in Recovering(alive') THEN 0 ELSE fail_count[c]]
  /\ m_lastRecoveryTick' = IF RecoveryDue THEN now ELSE m_lastRecoveryTick
  /\ gap' = 0
  /\ UNCHANGED <<config, last_success_tick, age, m_lastSentChannel, now, pos, up>>

-----------------------------------------------------------------------------
(* sendData *)

\* Mutant: a send starts with the channel that worked last.
StartSticky ==
  /\ pc = "idle"
  /\ pc' = "send"
  /\ pos' = IF \E i \in 1..Len(chain) : chain[i] = m_lastSentChannel
            THEN CHOOSE i \in 1..Len(chain) : chain[i] = m_lastSentChannel
            ELSE 1
  /\ UNCHANGED <<config, states, m_lastRecoveryTick, m_lastSentChannel, clock, up>>

StartSend ==
  /\ pc = "idle"
  /\ pc' = "send"
  /\ pos' = 1
  /\ UNCHANGED <<config, states, m_lastRecoveryTick, m_lastSentChannel, clock, up>>

AtChannel(c) == pc = "send" /\ pos \in 1..Len(chain) /\ c = chain[pos]

\* trySend returns false at once: no such channel, disabled or not registered.
TrySkip ==
  /\ pc = "send" /\ pos \in 1..Len(chain)
  /\ ~Usable(chain[pos])
  /\ pos' = pos + 1
  /\ UNCHANGED <<config, states, m_lastRecoveryTick, m_lastSentChannel, clock, pc, up>>

\* The send function answers 2xx, after some time.  Its being alive is not asked.
TryOk ==
  \E c \in Channels, d \in 0..1 :
    /\ AtChannel(c) /\ Usable(c) /\ c \in up
    /\ Passes(d)
    /\ alive' = alive \union {c}
    /\ last_success_tick' = [last_success_tick EXCEPT ![c] = now']
    /\ fail_count' = [fail_count EXCEPT ![c] = 0]
    /\ age' = [Older(d) EXCEPT ![c] = 0]
    /\ m_lastSentChannel' = c
    /\ pc' = "idle"
    /\ pos' = 0
    /\ UNCHANGED <<config, m_lastRecoveryTick, up>>

\* Mutant: the count is compared before it is incremented.
TryFailLate ==
  \E c \in Channels, d \in 0..1 :
    /\ AtChannel(c) /\ Usable(c) /\ c \notin up
    /\ Passes(d)
    /\ fail_count' = [fail_count EXCEPT ![c] = IF @ < 3 THEN @ + 1 ELSE @]
    /\ alive' = IF fail_count[c] >= 3 THEN alive \ {c} ELSE alive
    /\ age' = Older(d)
    /\ pos' = pos + 1
    /\ UNCHANGED <<config, last_success_tick, m_lastRecoveryTick, m_lastSentChannel, pc, up>>

\* It answers anything else.  Counts of 3 and more are alike.
TryFail ==
  \E c \in Channels, d \in 0..1 :
    /\ AtChannel(c) /\ Usable(c) /\ c \notin up
    /\ Passes(d)
    /\ fail_count' = [fail_count EXCEPT ![c] = IF @ < 3 THEN @ + 1 ELSE @]
    /\ alive' = IF fail_count'[c] >= 3 THEN alive \ {c} ELSE alive
    /\ age' = Older(d)
    /\ pos' = pos + 1
    /\ UNCHANGED <<config, last_success_tick, m_lastRecoveryTick, m_lastSentChannel, pc, up>>

\* The chain is exhausted: the payload goes to the backup (see StoreForward).
SaveToBackup ==
  /\ pc = "send" /\ pos > Len(chain)
  /\ pc' = "idle"
  /\ pos' = 0
  /\ UNCHANGED <<config, states, m_lastRecoveryTick, m_lastSentChannel, clock, up>>

SendData == StartSend \/ TrySkip \/ TryOk \/ TryFail \/ SaveToBackup

-----------------------------------------------------------------------------
Next ==
  \/ Reinit
  \/ LinkChanges
  \/ Tick
  \/ SendData
  \/ \E d \in 0..1 : Wait(d)

Spec == Init /\ [][Next]_vars

\* The loop goes on, sends are made again and again, and a call that was
\* started is finished.
FairSpec ==
  /\ Spec
  /\ WF_vars(Tick)
  /\ WF_vars(\E d \in 0..1 : Wait(d))
  /\ SF_vars(StartSend)
  /\ WF_vars(TrySkip \/ TryOk \/ TryFail \/ SaveToBackup)

-----------------------------------------------------------------------------
(* Properties *)

TypeOK ==
  /\ enabled \subseteq Channels
  /\ registered \subseteq Channels
  /\ chain \in Chains
  /\ recoveryLen \in 0..Len(chain)
  /\ alive \subseteq Channels
  /\ last_success_tick \in [Channels -> Nat]
  /\ fail_count \in [Channels -> 0..3]
  /\ m_lastRecoveryTick \in Nat
  /\ m_lastSentChannel \in Channels
  /\ now \in Nat
  /\ pc \in {"tick", "idle", "send"}
  /\ pos \in 0..(Len(chain) + 1)
  /\ up \subseteq Channels
  /\ age \in [Channels -> 0..Wrap]
  /\ gap \in 0..MaxGap

\* A channel that has failed three times running is never reported alive,
\* whatever mixture of sends, watchdog, recovery and reconfiguration comes by.
DeadAfterThree == \A c \in alive : fail_count[c] < 3

\* README.md:104, priority: no send passes over a channel that counts as alive.
\* Every enabled and living channel before the place where sendData stands was
\* tried in this call and failed.  (A failure count is cleared by a success, which
\* ends the call, or by the recovery, which never runs inside a call.)  Of dead
\* channels, which README.md:150 takes out of the chain, nothing is said.
PriorityRespected ==
  pc = "send" =>
    \A i \in 1..Len(chain) :
      i < pos /\ chain[i] \in enabled \intersect alive => fail_count[chain[i]] > 0

\* After the watchdog has run, no enabled channel is alive whose last success is
\* really longer ago than the timeout, although only wrapping stamps are kept.
AliveIsFresh ==
  [][ \A c \in alive' \intersect enabled :
        pc = "tick" /\ pc' = "idle" /\ last_success_tick[c] # 0 =>
          age[c] <= WATCHDOG_TIMEOUT ]_vars

\* README.md:319, fail-back: if the channel at the head of the chain works from
\* some moment on, then so do the sends, and they all go through it.
Failback ==
  chain[1] \in enabled /\ <>[](chain[1] \in up) => <>[](m_lastSentChannel = chain[1])

=============================================================================
