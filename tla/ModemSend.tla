----------------------------- MODULE ModemSend ------------------------------
(***************************************************************************)
(* App::postViaGsm (Core/Src/app.cpp) with the MQTT client it shares with  *)
(* App::postViaEth and with the HTTPS dialogue of A7670CTls::httpsPost.    *)
(* Every call switches the modem on and off again; what the program        *)
(* remembers of it does not go with its power: m_connected and m_backend   *)
(* of MqttClient, m_mqttStarted of Air780E, and rx, the static buffer      *)
(* httpsPost looks for the answer in.                                      *)
(*                                                                         *)
(* An AT command is one step with its outcomes.  The server, the broker,   *)
(* the network and the modem are outside: each may fail at any of them,    *)
(* which sets `fault'.  HTTPS over the Ethernet shares nothing with this.  *)
(***************************************************************************)
EXTENDS Naturals

CONSTANT Protocols   \* the protocols a configuration may choose

ASSUME ProtocolsAssumption == Protocols \subseteq {"mqtt", "https"} /\ Protocols # {}

Backends == {"WIZNET", "GSM"}
Statuses == {"200", "500"}

VARIABLES
  protocol,               \* of the configuration
  connected, backend,     \* MqttClient: m_connected, m_backend
  started,                \* Air780E: m_mqttStarted
  rx,                     \* the status line in the static buffer, or "empty"
  power,                  \* is the modem on?
  service, broker,        \* in the modem: its MQTT service runs, it has a session
  socket,                 \* the W5500's session with the broker lives
  pc, via,                \* where the call is, and the channel it is made for
  code,                   \* what it returns: a status, or "none" for an error
  served,                 \* history: the status the server gave this payload, or "none"
  first,                  \* history: what httpsPost saw first after the body
  fault,                  \* history: something outside failed in this call
  needless                \* history: the MQTT send over the modem before this one
                          \* failed though nothing outside did

client == <<connected, backend, started>>
modem == <<power, service, broker>>
call == <<via, code, served, first, fault>>
vars == <<protocol, client, rx, modem, socket, pc, call, needless>>

Init ==
  /\ protocol \in Protocols
  /\ connected = FALSE /\ backend = "WIZNET" /\ started = FALSE
  /\ rx = "empty"
  /\ power = FALSE /\ service = FALSE /\ broker = FALSE
  /\ socket = FALSE
  /\ pc = "idle" /\ via = "none"
  /\ code = "none" /\ served = "none" /\ first = "none"
  /\ fault = FALSE /\ needless = FALSE

Begin(channel, at) ==
  /\ pc = "idle"
  /\ via' = channel
  /\ pc' = at
  /\ code' = "none" /\ served' = "none" /\ first' = "none"
  /\ fault' = FALSE

\* MQTT: connect() only if the client is not connected already.
MqttEntry == IF connected THEN "publish" ELSE "connect"

-----------------------------------------------------------------------------
(* postViaEth and postViaGsm *)

\* The Ethernet is ready (otherwise the call returns and has changed nothing).
StartEth ==
  /\ protocol = "mqtt"
  /\ Begin("eth", MqttEntry)
  /\ UNCHANGED <<protocol, client, rx, modem, socket, needless>>

StartGsm ==
  /\ Begin("gsm", "init")
  /\ power' = TRUE
  /\ UNCHANGED <<protocol, client, rx, service, broker, socket, needless>>

InitFails ==
  /\ pc = "init"
  /\ fault' = TRUE
  /\ pc' = "off"
  /\ UNCHANGED <<protocol, client, rx, modem, socket, via, code, served, first, needless>>

InitOk ==
  /\ pc = "init"
  /\ pc' = IF protocol = "mqtt" THEN MqttEntry ELSE "open"
  /\ UNCHANGED <<protocol, client, rx, modem, socket, call, needless>>

\* The return of a call; powerOff() ends whatever the modem was doing.
Off ==
  /\ pc = "off"
  /\ pc' = "idle"
  /\ IF via = "gsm"
       THEN power' = FALSE /\ service' = FALSE /\ broker' = FALSE
       ELSE UNCHANGED modem
  /\ needless' = IF via = "gsm" /\ protocol = "mqtt"
                   THEN code = "none" /\ ~fault ELSE needless
  /\ UNCHANGED <<protocol, client, rx, socket, call>>

-----------------------------------------------------------------------------
(* MqttClient.  disconnect() at the head of mqttConnect() has nothing to do,  *)
(* because the callers only connect when m_connected is clear.                *)

ConnectEth ==
  /\ pc = "connect" /\ via = "eth"
  /\ backend' = "WIZNET"
  /\ \/ /\ socket' = TRUE /\ connected' = TRUE /\ needless' = FALSE
        /\ pc' = "publish"
        /\ UNCHANGED fault
     \/ /\ socket' = FALSE /\ fault' = TRUE
        /\ pc' = "off"
        /\ UNCHANGED <<connected, needless>>
  /\ UNCHANGED <<protocol, started, rx, modem, via, code, served, first>>

\* Air780E::mqttConnect.  The network switch may choose the modem for a call
\* made for the Ethernet, when it is off and answers nothing.  A service the
\* driver started is stopped first; a second start is an error.
ConnectGsm ==
  /\ pc = "connect"
  /\ backend' = "GSM"
  /\ LET running == service /\ ~started IN
       \/ /\ power /\ ~running
          /\ started' = TRUE /\ service' = TRUE /\ broker' = TRUE
          /\ connected' = TRUE
          /\ UNCHANGED fault
       \/ /\ power /\ ~running
          /\ started' = TRUE /\ service' = TRUE /\ broker' = FALSE
          /\ fault' = TRUE
          /\ UNCHANGED connected
       \/ /\ started' = FALSE
          /\ service' = (power /\ running) /\ broker' = FALSE
          /\ fault' = ((power /\ ~running) \/ fault)
          /\ UNCHANGED connected
  \* sendViaMqtt gives up, postViaGsm publishes whatever connect() returned
  /\ pc' = IF via = "gsm" \/ connected' THEN "publish" ELSE "off"
  /\ UNCHANGED <<protocol, rx, power, socket, via, code, served, first, needless>>

\* Does the session the client believes in exist?
Session == IF backend = "WIZNET" THEN socket ELSE power /\ broker

PublishOk ==
  /\ pc = "publish" /\ connected /\ Session
  /\ code' = "200" /\ served' = "200"
  /\ pc' = "off"
  /\ UNCHANGED <<protocol, client, rx, modem, socket, via, first, fault, needless>>

\* Mutant: a failed publish leaves m_connected set.
PublishFailsKept ==
  /\ pc = "publish"
  /\ fault' = ((connected /\ Session) \/ fault)
  /\ pc' = "off"
  /\ UNCHANGED <<protocol, client, rx, modem, socket, via, code, served, first, needless>>

PublishFails ==
  /\ pc = "publish"
  /\ connected' = FALSE
  /\ fault' = ((connected /\ Session) \/ fault)
  /\ pc' = "off"
  /\ UNCHANGED <<protocol, backend, started, rx, modem, socket, via, code, served, first, needless>>

-----------------------------------------------------------------------------
(* A7670CTls::httpsPost *)

\* CCHSTART, CCHOPEN or the prompt of CCHSEND fails.
OpenFails ==
  /\ pc = "open"
  /\ fault' = TRUE
  /\ pc' = "off"
  /\ UNCHANGED <<protocol, client, rx, modem, socket, via, code, served, first, needless>>

\* The body goes out.  The server answers it, or it never gets there.
SendBody ==
  /\ pc = "open"
  /\ \/ served' \in Statuses /\ UNCHANGED fault
     \/ fault' = TRUE /\ UNCHANGED served
  /\ pc' = "await"
  /\ UNCHANGED <<protocol, client, rx, modem, socket, via, code, first, needless>>

\* Mutant: the announcement is not copied over the text of an earlier call.
ReceiveBehind ==
  /\ pc = "await"
  /\ served # "none"
  /\ first' = "data"
  /\ rx' \in {served, rx}
  /\ pc' = "parse"
  /\ UNCHANGED <<protocol, client, modem, socket, via, code, served, fault, needless>>

\* The first "+CCH" announces data.  The line replaces what rx held, and the
\* data are read behind it, unless an OK or a pause of 50 ms comes before them.
Receive ==
  /\ pc = "await"
  /\ served # "none"
  /\ first' = "data"
  /\ rx' \in {served, "empty"}
  /\ pc' = "parse"
  /\ UNCHANGED <<protocol, client, modem, socket, via, code, served, fault, needless>>

\* The first is the acknowledgement "+CCHSEND: 0,0", or an announcement without
\* its length ("DATA,0,<n>" is not in the buffer), or nothing comes in time.  rx
\* keeps what it holds: the loop that follows reads up to the colon of
\* "+CCHRECV:" and looks for the length, which comes behind it, in what it read.
Acknowledged ==
  /\ pc = "await"
  /\ first' = "other"
  /\ pc' = "parse"
  /\ UNCHANGED <<protocol, client, rx, modem, socket, via, code, served, fault, needless>>

\* Mutant: no test whether there is a status line.
ParseAnything ==
  /\ pc = "parse"
  /\ code' = rx
  /\ pc' = "off"
  /\ UNCHANGED <<protocol, client, rx, modem, socket, via, served, first, fault, needless>>

Parse ==
  /\ pc = "parse"
  /\ code' = IF rx = "empty" THEN "none" ELSE rx
  /\ pc' = "off"
  /\ UNCHANGED <<protocol, client, rx, modem, socket, via, served, first, fault, needless>>

-----------------------------------------------------------------------------
(* Between the calls *)

\* Before the stop mode the client disconnects; the modem is off by then.
Stop ==
  /\ pc = "idle" /\ connected
  /\ connected' = FALSE
  /\ IF backend = "GSM"
       THEN started' = FALSE /\ UNCHANGED socket
       ELSE socket' = FALSE /\ UNCHANGED started
  /\ UNCHANGED <<protocol, backend, rx, modem, pc, call, needless>>

Reconfigure ==
  /\ pc = "idle"
  /\ protocol' \in Protocols \ {protocol}
  /\ UNCHANGED <<client, rx, modem, socket, pc, call, needless>>

\* The broker or the cable ends the session of the W5500, which nobody notices.
SessionLost ==
  /\ socket
  /\ socket' = FALSE
  /\ UNCHANGED <<protocol, client, rx, modem, pc, call, needless>>

\* A reset; App::init switches the modem off and MqttClient::init runs.
Restart ==
  /\ connected' = FALSE /\ backend' = "WIZNET" /\ started' = FALSE
  /\ rx' = "empty"
  /\ power' = FALSE /\ service' = FALSE /\ broker' = FALSE
  /\ socket' = FALSE
  /\ pc' = "idle"
  /\ UNCHANGED <<protocol, call, needless>>

-----------------------------------------------------------------------------
Mqtt == ConnectEth \/ ConnectGsm \/ PublishOk \/ PublishFails
Https == OpenFails \/ SendBody \/ Receive \/ Acknowledged \/ Parse

Next ==
  \/ StartEth \/ StartGsm \/ InitFails \/ InitOk \/ Off
  \/ Mqtt
  \/ Https
  \/ Stop \/ Reconfigure \/ SessionLost \/ Restart

Spec == Init /\ [][Next]_vars

-----------------------------------------------------------------------------
(* Properties *)

TypeOK ==
  /\ protocol \in Protocols
  /\ connected \in BOOLEAN /\ backend \in Backends /\ started \in BOOLEAN
  /\ rx \in Statuses \union {"empty"}
  /\ power \in BOOLEAN /\ service \in BOOLEAN /\ broker \in BOOLEAN
  /\ socket \in BOOLEAN
  /\ pc \in {"idle", "init", "connect", "publish", "open", "await", "parse", "off"}
  /\ via \in {"none", "eth", "gsm"}
  /\ code \in Statuses \union {"none"}
  /\ served \in Statuses \union {"none"}
  /\ first \in {"none", "data", "other"}
  /\ fault \in BOOLEAN /\ needless \in BOOLEAN

\* After a send through the client that left m_connected set, the next one
\* over the modem fails, because the session went with the power.  It never
\* fails twice running for that reason (mqtt_client.cpp:208, m_connected =
\* false): of two MQTT sends over the modem, with none over the Ethernet that
\* connected in between, one succeeds unless something outside failed.
SecondTrySucceeds ==
  ~(needless /\ pc = "off" /\ via = "gsm" /\ protocol = "mqtt" /\ code = "none" /\ ~fault)

\* Once httpsPost has seen data announced with their length, it reports the status the server
\* gave to this very payload or none, whatever its buffer held before.
AnnouncedIsOwn ==
  pc = "off" /\ protocol = "https" /\ first = "data" => code \in {served, "none"}
=============================================================================
