-------------------------- MODULE ModemSendProofs ---------------------------
(***************************************************************************)
(* What a send over the modem may rely on although the program remembers   *)
(* more than the modem does: for every set of protocols, failures outside  *)
(* at any point and any sequence of calls.                                 *)
(***************************************************************************)
EXTENDS ModemSend, TLAPS

-----------------------------------------------------------------------------
(* The inductive invariant *)

\* The modem is on exactly during a call made for it, and forgets when off.
Powered ==
  /\ power <=> pc # "idle" /\ via = "gsm"
  /\ power \/ (~service /\ ~broker)
  /\ pc \in {"init", "connect"} /\ via = "gsm" => ~service /\ ~broker
  /\ pc = "init" => via = "gsm"

\* The part of the call that is running belongs to the protocol configured.
Protocol ==
  /\ pc \in {"connect", "publish"} => protocol = "mqtt"
  /\ pc \in {"open", "await", "parse"} => protocol = "https"

\* After a needless failure the client knows that it has no session, until it
\* has one with a modem that is on.
Reconnects ==
  /\ needless /\ connected =>
       /\ via = "gsm" /\ protocol = "mqtt" /\ pc \in {"publish", "off"}
       /\ backend = "GSM" /\ power /\ broker
  /\ pc = "publish" /\ via = "gsm" /\ ~connected => fault
  /\ pc = "off" /\ via = "gsm" /\ protocol = "mqtt" /\ code = "none" /\ ~fault => ~connected

\* What httpsPost holds when it has seen data announced.
Announced ==
  /\ pc \in {"init", "connect", "publish", "open", "await"} => first = "none"
  /\ pc = "parse" /\ first = "data" => rx \in {served, "empty"}

\* Until its end a call has no code.
NoCode == pc \notin {"idle", "off"} => code = "none"

IInv ==
  /\ TypeOK /\ Powered /\ Protocol /\ Reconnects /\ Announced /\ NoCode
  /\ SecondTrySucceeds /\ AnnouncedIsOwn

LEMMA InitInv == Init => IInv
BY ProtocolsAssumption
   DEF Init, IInv, TypeOK, Backends, Statuses, Powered, Protocol, Reconnects, Announced, NoCode,
       SecondTrySucceeds, AnnouncedIsOwn

-----------------------------------------------------------------------------
(* Every action keeps it *)

LEMMA StartInv == ASSUME IInv, StartEth \/ StartGsm PROVE IInv'
<1>1. TypeOK'
  BY DEF IInv, TypeOK, StartEth, StartGsm, Begin, MqttEntry, client, modem
<1>2. Powered' /\ Protocol' /\ Reconnects'
  BY DEF IInv, TypeOK, Powered, Protocol, Reconnects, StartEth, StartGsm, Begin, MqttEntry,
         client, modem
<1>3. Announced' /\ NoCode' /\ SecondTrySucceeds' /\ AnnouncedIsOwn'
  BY DEF Announced, NoCode, SecondTrySucceeds, AnnouncedIsOwn, StartEth, StartGsm, Begin, MqttEntry
<1>4. QED
  BY <1>1, <1>2, <1>3 DEF IInv

LEMMA InitPhaseInv == ASSUME IInv, InitFails \/ InitOk PROVE IInv'
<1>1. TypeOK'
  <2>1. /\ fault' \in BOOLEAN /\ pc' \in {"off", "publish", "connect", "open"}
        /\ UNCHANGED <<protocol, connected, backend, started, rx, power, service, broker>>
        /\ UNCHANGED <<socket, via, code, served, first, needless>>
    BY DEF IInv, TypeOK, InitFails, InitOk, MqttEntry, client, modem, call
  <2>2. QED
    BY <2>1 DEF IInv, TypeOK
<1>2. Powered' /\ Protocol' /\ Reconnects'
  BY ProtocolsAssumption
     DEF IInv, TypeOK, Powered, Protocol, Reconnects, InitFails, InitOk, MqttEntry,
         client, modem, call
<1>3. Announced' /\ NoCode' /\ SecondTrySucceeds' /\ AnnouncedIsOwn'
  BY DEF IInv, Announced, NoCode, SecondTrySucceeds, AnnouncedIsOwn, InitFails, InitOk, MqttEntry,
         client, call
<1>4. QED
  BY <1>1, <1>2, <1>3 DEF IInv

LEMMA OffInv == ASSUME IInv, Off PROVE IInv'
<1>1. TypeOK'
  <2>1. /\ power' \in BOOLEAN /\ service' \in BOOLEAN /\ broker' \in BOOLEAN
    BY DEF IInv, TypeOK, Off, modem
  <2>2. needless' \in BOOLEAN
    BY DEF IInv, TypeOK, Off
  <2>3. /\ pc' = "idle"
        /\ UNCHANGED <<protocol, connected, backend, started, rx, socket>>
        /\ UNCHANGED <<via, code, served, first, fault>>
    BY DEF Off, client, call
  <2>4. QED
    BY <2>1, <2>2, <2>3 DEF IInv, TypeOK
<1>2. Powered' /\ Protocol' /\ Reconnects'
  BY DEF IInv, TypeOK, Powered, Protocol, Reconnects, Off, client, modem, call
<1>3. Announced' /\ NoCode' /\ SecondTrySucceeds' /\ AnnouncedIsOwn'
  BY DEF Announced, NoCode, SecondTrySucceeds, AnnouncedIsOwn, Off
<1>4. QED
  BY <1>1, <1>2, <1>3 DEF IInv

LEMMA ConnectEthInv == ASSUME IInv, ConnectEth PROVE IInv'
<1>1. TypeOK'
  BY DEF IInv, TypeOK, Backends, ConnectEth, modem
<1>2. Powered' /\ Protocol' /\ Reconnects'
  BY DEF IInv, TypeOK, Powered, Protocol, Reconnects, ConnectEth, modem
<1>3. Announced' /\ NoCode' /\ SecondTrySucceeds' /\ AnnouncedIsOwn'
  BY DEF IInv, Announced, NoCode, SecondTrySucceeds, AnnouncedIsOwn, ConnectEth
<1>4. QED
  BY <1>1, <1>2, <1>3 DEF IInv

\* The modem that a call for it has switched on runs no service yet.
LEMMA ConnectGsmInv == ASSUME IInv, ConnectGsm PROVE IInv'
<1>0. /\ pc = "connect" /\ backend' = "GSM" /\ protocol = "mqtt"
      /\ pc' = IF via = "gsm" \/ connected' THEN "publish" ELSE "off"
      /\ UNCHANGED <<protocol, rx, power, socket, via, code, served, first, needless>>
  BY DEF IInv, Protocol, ConnectGsm
<1>1. power <=> via = "gsm"
  BY <1>0 DEF IInv, Powered
<1>2. ~service
  BY <1>0, <1>1 DEF IInv, Powered
<1>3. \/ power /\ started' = TRUE /\ service' = TRUE /\ broker' = TRUE /\ connected' = TRUE
         /\ fault' = fault
      \/ power /\ started' = TRUE /\ service' = TRUE /\ broker' = FALSE /\ fault' = TRUE
         /\ connected' = connected
      \/ started' = FALSE /\ service' = FALSE /\ broker' = FALSE /\ connected' = connected
         /\ fault' = (power \/ fault)
  BY <1>2 DEF ConnectGsm, IInv, TypeOK
<1>4. power \in BOOLEAN /\ fault \in BOOLEAN /\ connected \in BOOLEAN
  BY DEF IInv, TypeOK
<1>5. TypeOK'
  BY <1>0, <1>3, <1>4 DEF IInv, TypeOK, Backends
<1>6. Powered' /\ Protocol'
  BY <1>0, <1>1, <1>3 DEF Powered, Protocol
<1>7. Reconnects'
  BY <1>0, <1>1, <1>3, <1>4 DEF IInv, Reconnects, NoCode
<1>8. Announced' /\ NoCode' /\ SecondTrySucceeds' /\ AnnouncedIsOwn'
  BY <1>0 DEF IInv, Announced, NoCode, SecondTrySucceeds, AnnouncedIsOwn
<1>9. QED
  BY <1>5, <1>6, <1>7, <1>8 DEF IInv

LEMMA PublishInv == ASSUME IInv, PublishOk \/ PublishFails PROVE IInv'
<1>1. TypeOK'
  <2>1. /\ fault' \in BOOLEAN /\ connected' \in BOOLEAN /\ pc' = "off"
        /\ code' \in Statuses \union {"none"} /\ served' \in Statuses \union {"none"}
        /\ UNCHANGED <<protocol, backend, started, rx, power, service, broker>>
        /\ UNCHANGED <<socket, via, first, needless>>
    <3>1. CASE PublishOk
      BY <3>1 DEF IInv, TypeOK, Statuses, PublishOk, client, modem
    <3>2. CASE PublishFails
      <4>1. fault' \in BOOLEAN
        BY <3>2 DEF IInv, TypeOK, PublishFails
      <4>2. QED
        BY <3>2, <4>1 DEF IInv, TypeOK, PublishFails, modem
    <3>3. QED
      BY <3>1, <3>2
  <2>2. QED
    BY <2>1 DEF IInv, TypeOK
<1>2. Powered' /\ Protocol'
  BY DEF IInv, Powered, Protocol, PublishOk, PublishFails, client, modem
<1>3. Reconnects' /\ SecondTrySucceeds'
  BY DEF IInv, TypeOK, Reconnects, SecondTrySucceeds, NoCode, PublishOk, PublishFails, Session,
         client, modem
<1>4. Announced' /\ NoCode' /\ AnnouncedIsOwn'
  BY DEF IInv, Announced, NoCode, AnnouncedIsOwn, Protocol, PublishOk, PublishFails
<1>5. QED
  BY <1>1, <1>2, <1>3, <1>4 DEF IInv

LEMMA HttpsInv == ASSUME IInv, Https PROVE IInv'
<1>1. TypeOK'
  <2>1. /\ fault' \in BOOLEAN /\ pc' \in {"off", "await", "parse"}
        /\ served' \in Statuses \union {"none"} /\ first' \in {"none", "data", "other"}
        /\ rx' \in Statuses \union {"empty"} /\ code' \in Statuses \union {"none"}
        /\ UNCHANGED <<protocol, connected, backend, started, power, service, broker>>
        /\ UNCHANGED <<socket, via, needless>>
    <3>1. CASE OpenFails
      BY <3>1 DEF IInv, TypeOK, OpenFails, client, modem
    <3>2. CASE SendBody
      BY <3>2 DEF IInv, TypeOK, SendBody, client, modem
    <3>3. CASE Receive
      BY <3>3 DEF IInv, TypeOK, Receive, client, modem
    <3>4. CASE Acknowledged
      BY <3>4 DEF IInv, TypeOK, Acknowledged, client, modem
    <3>5. CASE Parse
      BY <3>5 DEF IInv, TypeOK, Parse, client, modem
    <3>6. QED
      BY <3>1, <3>2, <3>3, <3>4, <3>5 DEF Https
  <2>2. QED
    BY <2>1 DEF IInv, TypeOK
<1>2. Powered' /\ Protocol' /\ Reconnects'
  BY DEF IInv, TypeOK, Powered, Protocol, Reconnects, Https, OpenFails, SendBody, Receive,
         Acknowledged, Parse, client, modem
<1>3. Announced' /\ NoCode' /\ SecondTrySucceeds' /\ AnnouncedIsOwn'
  BY DEF IInv, Announced, NoCode, Protocol, SecondTrySucceeds, AnnouncedIsOwn, Https, OpenFails,
         SendBody, Receive, Acknowledged, Parse, client, modem
<1>4. QED
  BY <1>1, <1>2, <1>3 DEF IInv

LEMMA BetweenInv ==
  ASSUME IInv, Stop \/ Reconfigure \/ SessionLost \/ Restart \/ UNCHANGED vars
  PROVE  IInv'
<1>1. TypeOK'
  BY DEF IInv, TypeOK, Backends, Stop, Reconfigure, SessionLost, Restart, vars, client, modem, call
<1>2. Powered' /\ Protocol' /\ Reconnects'
  BY DEF IInv, TypeOK, Powered, Protocol, Reconnects, Stop, Reconfigure, SessionLost, Restart,
         vars, client, modem, call
<1>3. Announced' /\ NoCode' /\ SecondTrySucceeds' /\ AnnouncedIsOwn'
  BY DEF IInv, Announced, NoCode, SecondTrySucceeds, AnnouncedIsOwn, Stop, Reconfigure,
         SessionLost, Restart, vars, client, modem, call
<1>4. QED
  BY <1>1, <1>2, <1>3 DEF IInv

LEMMA NextInv == IInv /\ [Next]_vars => IInv'
<1> SUFFICES ASSUME IInv, [Next]_vars PROVE IInv'
  OBVIOUS
<1>1. CASE Mqtt
  BY <1>1, ConnectEthInv, ConnectGsmInv, PublishInv DEF Mqtt
<1>2. QED
  BY <1>1, StartInv, InitPhaseInv, OffInv, HttpsInv, BetweenInv DEF Next

-----------------------------------------------------------------------------
(* What follows *)

THEOREM Invariance == Spec => []IInv
<1>1. Init => IInv
  BY InitInv
<1>2. IInv /\ [Next]_vars => IInv'
  BY NextInv
<1>3. QED
  BY <1>1, <1>2, PTL DEF Spec

\* The state keeps its type.
THEOREM TypeCorrect == Spec => []TypeOK
BY Invariance, PTL DEF IInv

\* An MQTT send over the modem never fails twice running for want of a session.
THEOREM NoSecondNeedlessFailure == Spec => []SecondTrySucceeds
BY Invariance, PTL DEF IInv

\* A status that httpsPost has seen announced is the answer to this payload.
THEOREM AnnouncedStatusIsOwn == Spec => []AnnouncedIsOwn
BY Invariance, PTL DEF IInv
=============================================================================
