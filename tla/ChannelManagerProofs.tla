------------------------ MODULE ChannelManagerProofs ------------------------
(***************************************************************************)
(* The safety of the channel manager, for every number of channels, every  *)
(* set of chains and every width of the tick counter.                      *)
(***************************************************************************)
EXTENDS ChannelManager, TLAPS

-----------------------------------------------------------------------------
(* Arithmetic of the tick counter *)

LEMMA ModRange ==
  ASSUME NEW x \in Nat, NEW w \in Nat \ {0}
  PROVE  x % w \in 0..(w - 1)
OBVIOUS

\* A number below the modulus is its own remainder, and one below its double
\* is reduced by one modulus.
LEMMA ModSmall ==
  ASSUME NEW w \in Nat \ {0}, NEW x \in 0..(w - 1)
  PROVE  x % w = x /\ (x + w) % w = x
OBVIOUS

\* The distance of a stamp from the counter grows with the counter.
LEMMA SinceGrows ==
  ASSUME NEW w \in Nat \ {0}, NEW n \in 0..(w - 1), NEW t \in 0..(w - 1), NEW d \in 0..1,
         ((n + w - t) % w) + d < w
  PROVE  (((n + d) % w) + w - t) % w = ((n + w - t) % w) + d
<1>1. n + w - t = IF n >= t THEN (n - t) + w ELSE n + w - t
  OBVIOUS
<1>2. (n + w - t) % w = IF n >= t THEN n - t ELSE n + w - t
  BY ModSmall
<1>3. CASE n + d < w
  <2>1. (n + d) % w = n + d
    BY <1>3, ModSmall
  <2>2. CASE n + d >= t
    <3>1. n + d - t \in 0..(w - 1) /\ n + d + w - t = (n + d - t) + w
      BY <1>3, <2>2
    <3>2. (n + d + w - t) % w = n + d - t
      BY <3>1, ModSmall
    <3>3. QED
      BY <1>2, <2>1, <2>2, <3>2
  <2>3. CASE n + d < t
    <3>1. n + d + w - t \in 0..(w - 1) /\ n < t
      BY <2>3
    <3>2. (n + d + w - t) % w = n + d + w - t
      BY <3>1, ModSmall
    <3>3. (n + w - t) % w = n + w - t
      BY <1>2, <3>1
    <3>4. QED
      BY <2>1, <3>2, <3>3
  <2>4. QED
    BY <2>2, <2>3
<1>4. CASE n + d = w
  <2>1. n = w - 1 /\ d = 1
    BY <1>4
  <2>2. (n + d) % w = 0
    BY <1>4, ModSmall, 0 \in 0..(w - 1)
  <2>3. CASE t = 0
    BY <1>2, <2>1, <2>3
  <2>4. CASE t > 0
    <3>1. w - t \in 0..(w - 1)
      BY <2>4
    <3>2. (0 + w - t) % w = w - t
      BY <3>1, ModSmall
    <3>3. CASE n >= t
      BY <1>2, <2>1, <2>2, <3>2, <3>3
    <3>4. CASE n < t
      BY <2>1, <2>4, <3>4
    <3>5. QED
      BY <3>3, <3>4
  <2>5. QED
    BY <2>3, <2>4
<1>5. QED
  BY <1>3, <1>4

\* The same of the counter of this manager, and a stamp just taken.
LEMMA SinceOfWrap ==
  /\ \A n, t \in 0..(Wrap - 1), d \in 0..1 :
       ((n + Wrap - t) % Wrap) + d < Wrap =>
         (((n + d) % Wrap) + Wrap - t) % Wrap = ((n + Wrap - t) % Wrap) + d
  /\ \A n \in 0..(Wrap - 1) : (n + Wrap - n) % Wrap = 0
<1>1. \A n, t \in 0..(Wrap - 1), d \in 0..1 :
       ((n + Wrap - t) % Wrap) + d < Wrap =>
         (((n + d) % Wrap) + Wrap - t) % Wrap = ((n + Wrap - t) % Wrap) + d
  BY SinceGrows, ParametersAssumption
<1>2. Wrap % Wrap = 0
  BY ModSmall, ParametersAssumption, 0 \in 0..(Wrap - 1)
<1>3. \A n \in 0..(Wrap - 1) : n + Wrap - n = Wrap
  BY ParametersAssumption
<1>4. QED
  BY <1>1, <1>2, <1>3

-----------------------------------------------------------------------------
(* The inductive invariant *)

\* The tick values are values of the counter.
Clock ==
  /\ now \in 0..(Wrap - 1)
  /\ last_success_tick \in [Channels -> 0..(Wrap - 1)]

\* registerChannel() is called for every channel a configuration enables, so
\* TrySkip never passes over an enabled channel.
Registered == enabled \subseteq registered

\* sendData leaves no place behind.
Outside == pc # "send" => pos = 0

IInv == TypeOK /\ Clock /\ Registered /\ Outside /\ DeadAfterThree /\ PriorityRespected

LEMMA ChainIsSeq ==
  ASSUME TypeOK
  PROVE  chain \in Seq(Nat) /\ Len(chain) \in Nat \ {0}
BY ParametersAssumption DEF TypeOK

LEMMA OlderType ==
  ASSUME TypeOK, NEW d \in 0..1
  PROVE  Older(d) \in [Channels -> 0..Wrap]
BY ParametersAssumption DEF TypeOK, Older

LEMMA InitInv == Init => IInv
<1> SUFFICES ASSUME Init PROVE IInv
  OBVIOUS
<1>1. 1 % Wrap \in 0..(Wrap - 1) /\ 1 % Wrap \in Nat
  BY ModRange, ParametersAssumption
<1>2. chain \in Seq(Nat) /\ Len(chain) \in Nat
  BY ParametersAssumption DEF Init
<1>3. 0 \in Channels
  BY ParametersAssumption DEF Channels
<1>4. recoveryLen \in 0..Len(chain)
  BY <1>2 DEF Init, RecoveryLens
<1>5. alive \subseteq Channels
  BY DEF Init
<1>6. /\ last_success_tick \in [Channels -> 0..(Wrap - 1)]
      /\ last_success_tick \in [Channels -> Nat]
  <2>1. 0 \in 0..(Wrap - 1)
    BY ParametersAssumption
  <2>2. QED
    BY <1>1, <2>1 DEF Init
<1>7. TypeOK
  BY <1>1, <1>2, <1>3, <1>4, <1>5, <1>6, ParametersAssumption DEF Init, TypeOK
<1>8. Clock /\ Registered /\ Outside
  BY <1>1, <1>6 DEF Init, Clock, Registered, Outside
<1>9. DeadAfterThree /\ PriorityRespected
  BY <1>5 DEF Init, DeadAfterThree, PriorityRespected
<1>10. QED
  BY <1>7, <1>8, <1>9 DEF IInv

-----------------------------------------------------------------------------
(* Every action keeps it *)

LEMMA ReinitInv == ASSUME IInv, Reinit PROVE IInv'
<1>0. TypeOK /\ Clock /\ Registered /\ Outside /\ DeadAfterThree
  BY DEF IInv
<1>1. /\ chain' \in Chains /\ chain' \in Seq(Nat) /\ recoveryLen' \in 0..Len(chain')
      /\ Len(chain') \in Nat
  BY ParametersAssumption DEF Reinit, RecoveryLens
<1>2. pc # "send" /\ pos = 0 /\ UNCHANGED <<clock, m_lastSentChannel, pc, pos, up>>
  BY <1>0 DEF Reinit, Outside
<1>3. /\ enabled' \subseteq Channels /\ registered' = registered \union enabled'
      /\ m_lastRecoveryTick' = now
  BY DEF Reinit
<1>4. /\ alive' \subseteq Channels
      /\ last_success_tick' \in [Channels -> 0..(Wrap - 1)]
      /\ fail_count' \in [Channels -> 0..3]
      /\ age' \in [Channels -> 0..Wrap]
      /\ DeadAfterThree'
  <2>1. CASE UNCHANGED states
    BY <1>0, <2>1 DEF states, TypeOK, Clock, DeadAfterThree
  <2>2. CASE /\ 0 \in enabled'
             /\ alive' = alive \union {0}
             /\ last_success_tick' = [last_success_tick EXCEPT ![0] = now]
             /\ fail_count' = [fail_count EXCEPT ![0] = 0]
             /\ age' = [age EXCEPT ![0] = 0]
    <3>1. 0 \in Channels
      BY <1>3, <2>2
    <3>2. \A c \in alive' : fail_count'[c] < 3
      BY <1>0, <2>2, <3>1 DEF TypeOK, DeadAfterThree
    <3>3. QED
      BY <1>0, <2>2, <3>1, <3>2, ParametersAssumption DEF TypeOK, Clock, DeadAfterThree
  <2>3. QED
    BY <2>1, <2>2 DEF Reinit
<1>5. last_success_tick' \in [Channels -> Nat]
  BY <1>4, ParametersAssumption
<1>6. TypeOK'
  BY <1>0, <1>1, <1>2, <1>3, <1>4, <1>5 DEF TypeOK, clock
<1>7. Clock' /\ Registered' /\ Outside' /\ PriorityRespected'
  BY <1>0, <1>2, <1>3, <1>4 DEF Clock, Registered, Outside, PriorityRespected, clock
<1>8. QED
  BY <1>4, <1>6, <1>7 DEF IInv

LEMMA PassesType ==
  ASSUME TypeOK, NEW d \in 0..1, Passes(d)
  PROVE  now' \in 0..(Wrap - 1) /\ now' \in Nat /\ gap' \in 0..MaxGap
<1>1. now + d \in Nat /\ Wrap \in Nat \ {0}
  BY ParametersAssumption DEF TypeOK
<1>2. (now + d) % Wrap \in 0..(Wrap - 1)
  BY <1>1, ModRange
<1>3. QED
  BY <1>2, ParametersAssumption DEF TypeOK, Passes

LEMMA WaitInv == ASSUME IInv, NEW d \in 0..1, Wait(d) PROVE IInv'
<1>1. TypeOK'
  BY PassesType, OlderType DEF IInv, Wait, TypeOK, config
<1>2. Clock'
  BY PassesType DEF IInv, Wait, Clock
<1>3. Registered' /\ Outside' /\ DeadAfterThree' /\ PriorityRespected'
  BY DEF IInv, Wait, Registered, Outside, DeadAfterThree, PriorityRespected, config
<1>4. QED
  BY <1>1, <1>2, <1>3 DEF IInv

LEMMA TickInv == ASSUME IInv, Tick PROVE IInv'
<1>0. TypeOK /\ DeadAfterThree
  BY DEF IInv
<1> DEFINE recovering == Recovering(alive')
<1>a. /\ fail_count \in [Channels -> 0..3] /\ alive \subseteq Channels
      /\ fail_count' = [c \in Channels |-> IF c \in recovering THEN 0 ELSE fail_count[c]]
      /\ alive' \subseteq alive
  BY <1>0 DEF Tick, TypeOK
<1> HIDE DEF recovering
<1>1. /\ fail_count' \in [Channels -> 0..3]
      /\ \A c \in Channels : fail_count'[c] = 0 \/ fail_count'[c] = fail_count[c]
  BY <1>a
<1>2. DeadAfterThree'
  <2> SUFFICES ASSUME NEW c \in alive' PROVE fail_count'[c] < 3
    BY DEF DeadAfterThree
  <2>1. c \in alive /\ c \in Channels
    BY <1>a
  <2>2. QED
    BY <1>0, <1>1, <2>1 DEF DeadAfterThree
<1>3. TypeOK'
  BY <1>0, <1>1, <1>a, ParametersAssumption DEF Tick, TypeOK, config
<1>4. Clock' /\ Registered' /\ Outside' /\ PriorityRespected'
  BY DEF IInv, Tick, Clock, Registered, Outside, PriorityRespected, config
<1>5. QED
  BY <1>2, <1>3, <1>4 DEF IInv

LEMMA StartSendInv == ASSUME IInv, StartSend PROVE IInv'
<1>1. TypeOK'
  BY ChainIsSeq DEF IInv, StartSend, TypeOK, config, states, clock
<1>2. QED
  BY <1>1, ChainIsSeq DEF IInv, StartSend, Clock, Registered, Outside, DeadAfterThree,
     PriorityRespected, config, states, clock

LEMMA TrySkipInv == ASSUME IInv, TrySkip PROVE IInv'
<1>1. TypeOK'
  BY ChainIsSeq DEF IInv, TrySkip, TypeOK, config, states, clock
<1>2. chain[pos] \notin enabled
  BY DEF IInv, TrySkip, Usable, Registered
<1>3. PriorityRespected'
  BY <1>2, ChainIsSeq DEF IInv, TrySkip, PriorityRespected, config, states
<1>4. QED
  BY <1>1, <1>3 DEF IInv, TrySkip, Clock, Registered, Outside, DeadAfterThree,
     config, states, clock

LEMMA TryOkInv == ASSUME IInv, TryOk PROVE IInv'
<1>0. TypeOK /\ Clock /\ Registered /\ DeadAfterThree
  BY DEF IInv
<1>1. PICK c \in Channels, d \in 0..1 :
        /\ Passes(d)
        /\ alive' = alive \union {c}
        /\ last_success_tick' = [last_success_tick EXCEPT ![c] = now']
        /\ fail_count' = [fail_count EXCEPT ![c] = 0]
        /\ age' = [Older(d) EXCEPT ![c] = 0]
        /\ m_lastSentChannel' = c
        /\ pc' = "idle"
        /\ pos' = 0
        /\ UNCHANGED <<config, m_lastRecoveryTick, up>>
  BY DEF TryOk
<1>2. now' \in 0..(Wrap - 1) /\ now' \in Nat /\ gap' \in 0..MaxGap
  BY <1>0, <1>1, PassesType
<1>3. age' \in [Channels -> 0..Wrap]
  BY <1>0, <1>1, OlderType, ParametersAssumption
<1>4. /\ last_success_tick' \in [Channels -> 0..(Wrap - 1)]
      /\ last_success_tick' \in [Channels -> Nat]
      /\ fail_count' \in [Channels -> 0..3]
  BY <1>0, <1>1, <1>2 DEF TypeOK, Clock
<1>5. TypeOK'
  <2>1. alive' \subseteq Channels
    BY <1>0, <1>1 DEF TypeOK
  <2>2. chain' = chain /\ pos' \in 0..(Len(chain) + 1)
    BY <1>0, <1>1, ChainIsSeq DEF config
  <2>3. /\ enabled' \subseteq Channels /\ registered' \subseteq Channels
        /\ chain' \in Chains /\ recoveryLen' \in 0..Len(chain')
        /\ m_lastRecoveryTick' \in Nat /\ m_lastSentChannel' \in Channels
        /\ pc' = "idle" /\ up' \subseteq Channels
    BY <1>0, <1>1 DEF TypeOK, config
  <2>4. QED
    BY <1>2, <1>3, <1>4, <2>1, <2>2, <2>3 DEF TypeOK
<1>6. DeadAfterThree'
  <2> SUFFICES ASSUME NEW e \in alive' PROVE fail_count'[e] < 3
    BY DEF DeadAfterThree
  <2>1. e \in Channels /\ (e = c \/ e \in alive) /\ fail_count \in [Channels -> 0..3]
    BY <1>0, <1>1 DEF TypeOK
  <2>2. QED
    BY <1>0, <1>1, <2>1 DEF DeadAfterThree
<1>7. Clock' /\ Registered' /\ Outside' /\ PriorityRespected'
  BY <1>0, <1>1, <1>2, <1>4 DEF Clock, Registered, Outside, PriorityRespected, config
<1>8. QED
  BY <1>5, <1>6, <1>7 DEF IInv

LEMMA TryFailInv == ASSUME IInv, TryFail PROVE IInv'
<1>0. TypeOK /\ Clock /\ Registered /\ DeadAfterThree /\ PriorityRespected
  BY DEF IInv
<1>1. PICK c \in Channels, d \in 0..1 :
        /\ AtChannel(c)
        /\ Passes(d)
        /\ fail_count' = [fail_count EXCEPT ![c] = IF @ < 3 THEN @ + 1 ELSE @]
        /\ alive' = IF fail_count'[c] >= 3 THEN alive \ {c} ELSE alive
        /\ age' = Older(d)
        /\ pos' = pos + 1
        /\ UNCHANGED <<config, last_success_tick, m_lastRecoveryTick, m_lastSentChannel, pc, up>>
  BY DEF TryFail
<1>2. now' \in 0..(Wrap - 1) /\ now' \in Nat /\ gap' \in 0..MaxGap
  BY <1>0, <1>1, PassesType
<1>3. pc = "send" /\ pos \in 1..Len(chain) /\ c = chain[pos] /\ chain \in Seq(Nat)
  BY <1>0, <1>1, ChainIsSeq DEF AtChannel
<1>a. fail_count \in [Channels -> 0..3] /\ alive \subseteq Channels
  BY <1>0 DEF TypeOK
<1>4. /\ fail_count' \in [Channels -> 0..3]
      /\ fail_count'[c] > 0
      /\ \A e \in Channels : fail_count'[e] >= fail_count[e]
      /\ \A e \in Channels \ {c} : fail_count'[e] = fail_count[e]
  BY <1>1, <1>a
<1>5. TypeOK'
  <2>1. alive' \subseteq Channels
    BY <1>1, <1>a
  <2>2. chain' = chain /\ pos' \in 0..(Len(chain) + 1)
    BY <1>1, <1>3 DEF config
  <2>3. age' \in [Channels -> 0..Wrap]
    BY <1>0, <1>1, OlderType
  <2>4. /\ enabled' \subseteq Channels /\ registered' \subseteq Channels
        /\ chain' \in Chains /\ recoveryLen' \in 0..Len(chain')
        /\ last_success_tick' \in [Channels -> Nat]
        /\ m_lastRecoveryTick' \in Nat /\ m_lastSentChannel' \in Channels
        /\ pc' = "send" /\ up' \subseteq Channels
    BY <1>0, <1>1, <1>3 DEF TypeOK, config
  <2>5. QED
    BY <1>2, <1>4, <2>1, <2>2, <2>3, <2>4 DEF TypeOK
<1>6. DeadAfterThree'
  <2> SUFFICES ASSUME NEW e \in alive' PROVE fail_count'[e] < 3
    BY DEF DeadAfterThree
  <2>1. e \in alive /\ e \in Channels
    BY <1>1, <1>a
  <2>2. CASE e = c
    BY <1>1, <1>4, <2>2
  <2>3. CASE e # c
    BY <1>0, <1>4, <2>1, <2>3 DEF DeadAfterThree
  <2>4. QED
    BY <2>2, <2>3
<1>7. PriorityRespected'
  <2> SUFFICES ASSUME NEW i \in 1..Len(chain), i < pos + 1,
                      chain[i] \in enabled \intersect alive'
               PROVE  fail_count'[chain[i]] > 0
    BY <1>1 DEF PriorityRespected, config
  <2>1. chain[i] \in Channels /\ chain[i] \in enabled \intersect alive
    BY <1>0, <1>1, <1>a DEF TypeOK
  <2>2. CASE i = pos
    BY <1>3, <1>4, <2>2
  <2>3. CASE i < pos
    BY <1>0, <1>3, <1>4, <2>1, <2>3 DEF PriorityRespected, TypeOK
  <2>4. QED
    BY <1>3, <2>2, <2>3
<1>8. Clock' /\ Registered' /\ Outside'
  BY <1>0, <1>1, <1>2, <1>3 DEF Clock, Registered, Outside, config
<1>9. QED
  BY <1>5, <1>6, <1>7, <1>8 DEF IInv

LEMMA SaveInv == ASSUME IInv, SaveToBackup PROVE IInv'
<1>1. TypeOK'
  BY ChainIsSeq DEF IInv, SaveToBackup, TypeOK, config, states, clock
<1>2. QED
  BY <1>1 DEF IInv, SaveToBackup, Clock, Registered, Outside, DeadAfterThree,
     PriorityRespected, config, states, clock

LEMMA NextInv == IInv /\ [Next]_vars => IInv'
<1> SUFFICES ASSUME IInv, [Next]_vars PROVE IInv'
  OBVIOUS
<1>1. CASE LinkChanges
  <2>1. up' \subseteq Channels
    BY <1>1 DEF LinkChanges, IInv, TypeOK
  <2>2. UNCHANGED <<config, states, m_lastRecoveryTick, m_lastSentChannel, clock, pc, pos>>
    BY <1>1 DEF LinkChanges
  <2>3. QED
    BY <2>1, <2>2 DEF IInv, TypeOK, Clock, Registered, Outside, DeadAfterThree,
       PriorityRespected, config, states, clock
<1>2. CASE UNCHANGED vars
  BY <1>2 DEF IInv, TypeOK, Clock, Registered, Outside, DeadAfterThree, PriorityRespected,
     vars, config, states, clock
<1>3. CASE SendData
  BY <1>3, StartSendInv, TrySkipInv, TryOkInv, TryFailInv, SaveInv DEF SendData
<1>4. QED
  BY <1>1, <1>2, <1>3, ReinitInv, TickInv, WaitInv DEF Next

-----------------------------------------------------------------------------
(* What follows *)

\* The invariant holds for every set of chains and every width of the counter.
THEOREM Invariance == Spec => []IInv
<1>1. Init => IInv
  BY InitInv
<1>2. IInv /\ [Next]_vars => IInv'
  BY NextInv
<1>3. QED
  BY <1>1, <1>2, PTL DEF Spec

\* The manager's state keeps its type.
THEOREM TypeCorrect == Spec => []TypeOK
BY Invariance, PTL DEF IInv

\* A channel that has failed three times running is not reported alive.
THEOREM ThreeFailuresKill == Spec => []DeadAfterThree
BY Invariance, PTL DEF IInv

\* sendData passes over no enabled channel that counts as alive.
THEOREM ChainInOrder == Spec => []PriorityRespected
BY Invariance, PTL DEF IInv

-----------------------------------------------------------------------------
(* The watchdog and the wrapping stamps *)

\* A stamp tells the true age of a success as long as that is below the width
\* of the counter, and the watchdog keeps the age of an enabled living channel
\* below it.
Stamped ==
  \A c \in Channels :
    /\ last_success_tick[c] # 0 /\ age[c] < Wrap => Since(last_success_tick[c]) = age[c]
    /\ c \in alive \intersect enabled /\ last_success_tick[c] # 0 =>
         age[c] <= WATCHDOG_TIMEOUT + gap

LEMMA StampedInit == Init => Stamped
<1> SUFFICES ASSUME Init, NEW c \in Channels
             PROVE  /\ last_success_tick[c] # 0 /\ age[c] < Wrap =>
                         Since(last_success_tick[c]) = age[c]
                    /\ c \in alive \intersect enabled /\ last_success_tick[c] # 0 =>
                         age[c] <= WATCHDOG_TIMEOUT + gap
  BY DEF Stamped
<1>1. age[c] = 0 /\ gap = 0 /\ now = 1 % Wrap /\ last_success_tick[c] \in {0, 1 % Wrap}
  BY DEF Init
<1>2. now \in 0..(Wrap - 1)
  BY <1>1, ModRange, ParametersAssumption
<1>3. (now + Wrap - now) % Wrap = 0
  BY <1>2, ModSmall, ParametersAssumption, 0 \in 0..(Wrap - 1)
<1>4. QED
  BY <1>1, <1>3, ParametersAssumption DEF Since

\* Time passing moves counter and ages alike.
LEMMA StampedPasses ==
  ASSUME TypeOK, Clock, Stamped, NEW d \in 0..1, Passes(d), NEW c \in Channels
  PROVE  /\ last_success_tick[c] # 0 /\ Older(d)[c] < Wrap =>
              (now' + Wrap - last_success_tick[c]) % Wrap = Older(d)[c]
         /\ c \in alive \intersect enabled /\ last_success_tick[c] # 0 =>
              Older(d)[c] <= WATCHDOG_TIMEOUT + gap'
<1> DEFINE t == last_success_tick[c]
<1>1. /\ t \in 0..(Wrap - 1) /\ now \in 0..(Wrap - 1) /\ Wrap \in Nat \ {0}
      /\ age[c] \in 0..Wrap /\ gap \in Nat
  BY ParametersAssumption DEF TypeOK, Clock
<1>2. Older(d)[c] = IF age[c] + d < Wrap THEN age[c] + d ELSE Wrap
  BY DEF Older
<1>3. now' = (now + d) % Wrap /\ gap' = gap + d
  BY DEF Passes
<1>4. ASSUME t # 0, Older(d)[c] < Wrap
      PROVE  (now' + Wrap - t) % Wrap = Older(d)[c]
  <2>1. age[c] + d < Wrap /\ age[c] < Wrap /\ Older(d)[c] = age[c] + d
    BY <1>1, <1>2, <1>4
  <2>2. (now + Wrap - t) % Wrap = age[c]
    BY <1>4, <2>1 DEF Stamped, Since
  <2>3. QED
    <3>1. PICK n \in 0..(Wrap - 1), u \in 0..(Wrap - 1) : n = now /\ u = t
      BY <1>1
    <3>2. (n + Wrap - u) % Wrap = age[c]
      BY <2>2, <3>1
    <3>3. (((n + d) % Wrap) + Wrap - u) % Wrap = age[c] + d
      BY <2>1, <3>2, SinceOfWrap
    <3>4. QED
      BY <1>3, <2>1, <3>1, <3>3
<1>5. ASSUME c \in alive \intersect enabled, t # 0
      PROVE  Older(d)[c] <= WATCHDOG_TIMEOUT + gap'
  <2>1. age[c] <= WATCHDOG_TIMEOUT + gap
    BY <1>5 DEF Stamped
  <2>2. QED
    BY <1>1, <1>2, <1>3, <2>1, ParametersAssumption
<1>6. QED
  BY <1>4, <1>5

LEMMA StampedNext ==
  ASSUME ~Reconfigurable, IInv, Stamped, [Next]_vars
  PROVE  Stamped'
<1>0. TypeOK /\ Clock
  BY DEF IInv
<1> SUFFICES ASSUME NEW c \in Channels
             PROVE  /\ last_success_tick'[c] # 0 /\ age'[c] < Wrap =>
                         (now' + Wrap - last_success_tick'[c]) % Wrap = age'[c]
                    /\ c \in alive' \intersect enabled' /\ last_success_tick'[c] # 0 =>
                         age'[c] <= WATCHDOG_TIMEOUT + gap'
  BY DEF Stamped, Since
<1>1. /\ last_success_tick[c] # 0 /\ age[c] < Wrap =>
           (now + Wrap - last_success_tick[c]) % Wrap = age[c]
      /\ c \in alive \intersect enabled /\ last_success_tick[c] # 0 =>
           age[c] <= WATCHDOG_TIMEOUT + gap
  BY DEF Stamped, Since
<1>2. ASSUME NEW d \in 0..1, Wait(d)
      PROVE  /\ last_success_tick'[c] # 0 /\ age'[c] < Wrap =>
                  (now' + Wrap - last_success_tick'[c]) % Wrap = age'[c]
             /\ c \in alive' \intersect enabled' /\ last_success_tick'[c] # 0 =>
                  age'[c] <= WATCHDOG_TIMEOUT + gap'
  BY <1>0, <1>2, StampedPasses DEF Wait, config
<1>3. CASE TryFail
  <2>1. PICK d \in 0..1 : /\ Passes(d) /\ age' = Older(d) /\ alive' \subseteq alive
                          /\ UNCHANGED <<config, last_success_tick>>
    BY <1>3 DEF TryFail
  <2>2. QED
    BY <1>0, <2>1, StampedPasses DEF config
<1>4. CASE TryOk
  <2>1. PICK e \in Channels, d \in 0..1 :
          /\ Passes(d)
          /\ alive' = alive \union {e}
          /\ last_success_tick' = [last_success_tick EXCEPT ![e] = now']
          /\ age' = [Older(d) EXCEPT ![e] = 0]
          /\ UNCHANGED config
    BY <1>4 DEF TryOk
  <2>2. /\ Older(d) \in [Channels -> 0..Wrap]
        /\ now' \in 0..(Wrap - 1) /\ gap' \in Nat
    BY <1>0, <2>1, OlderType, PassesType, ParametersAssumption
  <2>3. CASE c = e
    <3>1. last_success_tick'[c] = now' /\ age'[c] = 0
      BY <1>0, <2>1, <2>2, <2>3 DEF TypeOK
    <3>2. (now' + Wrap - now') % Wrap = 0
      BY <2>2, SinceOfWrap
    <3>3. PICK g \in Nat : g = gap'
      BY <2>2
    <3>4. 0 <= WATCHDOG_TIMEOUT + g
      BY ParametersAssumption
    <3>5. last_success_tick'[c] # 0 /\ age'[c] < Wrap =>
            (now' + Wrap - last_success_tick'[c]) % Wrap = age'[c]
      BY <3>1, <3>2
    <3>6. c \in alive' \intersect enabled' /\ last_success_tick'[c] # 0 =>
            age'[c] <= WATCHDOG_TIMEOUT + gap'
      BY <3>1, <3>3, <3>4
    <3>7. QED
      BY <3>5, <3>6
  <2>4. CASE c # e
    <3>1. last_success_tick'[c] = last_success_tick[c] /\ age'[c] = Older(d)[c]
      BY <1>0, <2>1, <2>2, <2>4 DEF TypeOK
    <3>2. c \in alive' \intersect enabled' => c \in alive \intersect enabled
      BY <2>1, <2>4 DEF config
    <3>3. QED
      BY <1>0, <2>1, <3>1, <3>2, StampedPasses
  <2>5. QED
    BY <2>3, <2>4
<1>5. CASE Tick
  <2>1. /\ UNCHANGED <<enabled, last_success_tick, age, now>> /\ gap' = 0
        /\ alive' = { e \in alive : ~TimedOut(e) }
    BY <1>5 DEF Tick, config
  <2>2. ASSUME c \in alive' \intersect enabled', last_success_tick'[c] # 0
        PROVE  age'[c] <= WATCHDOG_TIMEOUT + gap'
    <3>1. c \in alive \intersect enabled /\ last_success_tick[c] # 0 /\ ~TimedOut(c)
      BY <2>1, <2>2
    <3>2. age[c] \in Nat /\ age[c] < Wrap
      BY <1>0, <1>1, <3>1, ParametersAssumption DEF TypeOK
    <3>3. age[c] <= WATCHDOG_TIMEOUT
      BY <1>1, <3>1, <3>2, ParametersAssumption DEF TimedOut, Since
    <3>4. QED
      BY <2>1, <3>3, ParametersAssumption
  <2>3. QED
    BY <1>1, <2>1, <2>2
<1>6. CASE LinkChanges \/ StartSend \/ TrySkip \/ SaveToBackup \/ UNCHANGED vars
  <2>1. UNCHANGED <<config, states, clock>>
    BY <1>6 DEF LinkChanges, StartSend, TrySkip, SaveToBackup, vars
  <2>2. QED
    BY <1>1, <2>1 DEF config, states, clock
<1>7. QED
  BY <1>2, <1>3, <1>4, <1>5, <1>6 DEF Next, SendData, Reinit

\* As long as no channel is switched off for 49.7 days and on again, a channel
\* the watchdog leaves alive has worked within the timeout, although the stamps
\* it is judged by wrap around.
THEOREM WatchdogIsExact ==
  ASSUME ~Reconfigurable
  PROVE  Spec => AliveIsFresh
<1>1. Init => IInv /\ Stamped
  BY InitInv, StampedInit
<1>2. (IInv /\ Stamped) /\ [Next]_vars => (IInv /\ Stamped)'
  BY NextInv, StampedNext
<1>3. ASSUME IInv, Stamped, IInv', Stamped', [Next]_vars
      PROVE  (\A c \in alive' \intersect enabled :
                pc = "tick" /\ pc' = "idle" /\ last_success_tick[c] # 0 =>
                  age[c] <= WATCHDOG_TIMEOUT) \/ UNCHANGED vars
  <2> SUFFICES ASSUME NEW c \in alive' \intersect enabled, pc = "tick", pc' = "idle",
                      last_success_tick[c] # 0, Next
               PROVE  age[c] <= WATCHDOG_TIMEOUT
    BY <1>3
  <2>1. Tick
    BY DEF Next, Reinit, LinkChanges, SendData, StartSend, TrySkip, TryOk, TryFail,
           AtChannel, SaveToBackup, Wait
  <2>2. /\ c \in alive' \intersect enabled' /\ last_success_tick'[c] # 0
        /\ age' = age /\ gap' = 0 /\ c \in Channels
    BY <1>3, <2>1 DEF Tick, config, IInv, TypeOK
  <2>3. QED
    BY <1>3, <2>2, ParametersAssumption DEF Stamped
<1>4. QED
  BY <1>1, <1>2, <1>3, PTL DEF Spec, AliveIsFresh
=============================================================================
