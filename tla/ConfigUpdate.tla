---------------------------- MODULE ConfigUpdate ----------------------------
(***************************************************************************)
(* The two ways a new configuration reaches the device, and a reset at any *)
(* moment.  WebServer::handlePostConfig (Core/Src/web_server.cpp) gets the *)
(* body of a request; the UART bridge (Core/Src/cfg_uart_bridge.cpp) takes *)
(* one byte per call out of a receiver without a queue, first a command    *)
(* line, then as many bytes of JSON as the line has announced.             *)
(*                                                                         *)
(* A unit on the wire stands for the bytes of one whole line or of one     *)
(* key with its value, which is a cell of s_jsonBuf.                       *)
(***************************************************************************)
EXTENDS ConfigStore

CONSTANTS
  Texts,        \* the JSON a browser or a host may send
  BufSize,      \* sizeof(s_jsonBuf), in cells
  MaxMessages   \* bound: requests and messages altogether

ASSUME TextsAssumption == Texts \subseteq Seq([key : Keys, val : Nat]) \ {<<>>}
ASSUME BufferAssumption == BufSize \in Nat \ {0} /\ MaxMessages \in Nat

VARIABLES
  s_jsonNeed, s_jsonGot,
  s_jsonBuf,    \* static: cleared by a reset only
  junk,         \* s_line holds bytes that belong to no command
  wire,         \* what the host has sent and the device has not yet seen
  message,      \* history: the JSON of the host's last message
  overrun,      \* history: a unit was lost since the reset
  sent          \* requests and messages so far

uartVars == <<s_jsonNeed, s_jsonGot, s_jsonBuf, junk, overrun>>
hostVars == <<wire, message, sent>>
vars == <<storeVars, uartVars, hostVars>>

SetCfg(n) == [cmd |-> "SETCFG_JSON", n |-> n]
Reboot    == [cmd |-> "REBOOT",      n |-> 0]
IsCommand(unit) == "cmd" \in DOMAIN unit
AsCell(unit) == IF IsCommand(unit) THEN [key |-> "noise", val |-> 0] ELSE unit

Blank == [i \in 1..BufSize |-> NUL]

Init ==
  /\ StoreInit
  /\ s_jsonNeed = 0 /\ s_jsonGot = 0 /\ s_jsonBuf = Blank /\ junk = FALSE
  /\ wire = <<>> /\ message = <<>> /\ overrun = FALSE /\ sent = 0

\* What a reset does to RAM; the host's bytes keep coming.
ClearRam ==
  /\ s_jsonNeed' = 0 /\ s_jsonGot' = 0 /\ s_jsonBuf' = Blank
  /\ junk' = FALSE /\ overrun' = FALSE

\* saveToSd and its caller; the bridge resets the device after a success.
Save ==
  /\ SaveToSd
  /\ IF pc' = "boot" THEN ClearRam ELSE UNCHANGED uartVars
  /\ UNCHANGED hostVars

Start == Boot /\ UNCHANGED <<uartVars, hostVars>>

Crash ==
  /\ "crash" \in Faults
  /\ pc # "boot"
  /\ pc = "rename" => "window" \in Faults
  /\ damage' = IF pc = "rename" THEN damage \union {"window"} ELSE damage
  /\ pc' = "boot"
  /\ ram' = Default
  /\ ClearRam
  /\ UNCHANGED <<file, tmp, saving, who, acked, hostVars>>

-----------------------------------------------------------------------------
(* The browser *)

\* handlePostConfig, up to the save: the body is read into a copy.  A body that
\* did not arrive within 2 s is taken as it is.
Post ==
  /\ pc = "idle" /\ sent < MaxMessages
  /\ \E text \in Texts :
       \/ StartSave(LoadFromJson(ram, text), "web")
       \/ /\ "cut" \in Faults
          /\ \E n \in 1..(Len(text) - 1) :
               StartSave(LoadFromJson(ram, SubSeq(text, 1, n)), "web")
  /\ sent' = sent + 1
  /\ UNCHANGED <<ram, file, tmp, acked, damage, uartVars, wire, message>>

-----------------------------------------------------------------------------
(* The host on the UART *)

HostSends(units) ==
  /\ wire = <<>> /\ sent < MaxMessages
  /\ wire' = units
  /\ sent' = sent + 1
  /\ UNCHANGED <<storeVars, uartVars>>

HostSetsConfig ==
  \E text \in Texts : HostSends(<<SetCfg(Len(text))>> \o text) /\ message' = text

HostReboots == HostSends(<<Reboot>>) /\ message' = <<>>

\* The receiver holds one byte: what comes while nobody reads is lost.
Overrun ==
  /\ "overrun" \in Faults /\ wire # <<>>
  /\ wire' = Tail(wire)
  /\ overrun' = TRUE
  /\ UNCHANGED <<storeVars, s_jsonNeed, s_jsonGot, s_jsonBuf, junk, message, sent>>

-----------------------------------------------------------------------------
(* The UART bridge: CfgUartBridge_Tick *)

unit == Head(wire)

\* In line mode with a clean line, so that a command is understood.
Listening == pc = "idle" /\ wire # <<>> /\ s_jsonNeed = 0
Understands(cmd) == Listening /\ IsCommand(unit) /\ ~junk /\ unit.cmd = cmd
AwaitsJson == pc = "idle" /\ wire # <<>> /\ s_jsonNeed > 0

Received == wire' = Tail(wire) /\ UNCHANGED <<message, sent>>

\* JSON that nobody announced lands in the line buffer.
TickJunk ==
  /\ Listening /\ ~IsCommand(unit)
  /\ Received
  /\ junk' = TRUE
  /\ UNCHANGED <<storeVars, s_jsonNeed, s_jsonGot, s_jsonBuf, overrun>>

\* A line that begins with such bytes is ERR CMD, and so is an unknown one.
TickErrCmd ==
  /\ Listening /\ IsCommand(unit) /\ junk
  /\ Received
  /\ junk' = FALSE
  /\ UNCHANGED <<storeVars, s_jsonNeed, s_jsonGot, s_jsonBuf, overrun>>

\* Mutant: the announced length is not compared with the buffer.
TickSetCfgAnyLength ==
  /\ Understands("SETCFG_JSON")
  /\ Received
  /\ s_jsonNeed' = unit.n
  /\ s_jsonGot' = 0
  /\ UNCHANGED <<storeVars, s_jsonBuf, junk, overrun>>

TickSetCfg ==
  /\ Understands("SETCFG_JSON") /\ unit.n \in 1..BufSize
  /\ Received
  /\ s_jsonNeed' = unit.n
  /\ s_jsonGot' = 0
  /\ UNCHANGED <<storeVars, s_jsonBuf, junk, overrun>>

\* A length that s_jsonBuf does not hold: ERR LEN.
TickErrLen ==
  /\ Understands("SETCFG_JSON") /\ unit.n \notin 1..BufSize
  /\ Received
  /\ UNCHANGED <<storeVars, uartVars>>

TickReboot ==
  /\ Understands("REBOOT")
  /\ Received
  /\ pc' = "boot" /\ ram' = Default
  /\ ClearRam
  /\ UNCHANGED <<file, tmp, saving, who, acked, damage>>

\* Whatever comes while JSON is awaited is taken for JSON, a command too.
Stored == [s_jsonBuf EXCEPT ![s_jsonGot + 1] = AsCell(unit)]

TickJson ==
  /\ AwaitsJson /\ s_jsonGot + 1 < s_jsonNeed
  /\ Received
  /\ s_jsonBuf' = Stored
  /\ s_jsonGot' = s_jsonGot + 1
  /\ UNCHANGED <<storeVars, s_jsonNeed, junk, overrun>>

\* The memory behind a full buffer is read too; it holds anything.
Behind(buf) ==
  IF \E i \in 1..BufSize : buf[i] = NUL THEN {<<>>}
  ELSE {<<>>} \union { <<cell>> : cell \in [key : Keys, val : Values] }

\* Mutant: the last byte is counted and not stored.
TickLastJsonLost ==
  /\ AwaitsJson /\ s_jsonGot + 1 >= s_jsonNeed
  /\ Received
  /\ s_jsonNeed' = 0 /\ s_jsonGot' = 0
  /\ ram' = LoadFromJson(ram, s_jsonBuf)
  /\ StartSave(ram', "uart")
  /\ UNCHANGED <<file, tmp, acked, damage, s_jsonBuf, junk, overrun>>

\* The last byte: Cfg() itself is changed, then saved.
TickLastJson ==
  /\ AwaitsJson /\ s_jsonGot + 1 >= s_jsonNeed
  /\ Received
  /\ s_jsonBuf' = Stored
  /\ s_jsonNeed' = 0 /\ s_jsonGot' = 0
  /\ \E more \in Behind(s_jsonBuf') :
       ram' = LoadFromJson(ram, s_jsonBuf' \o more)
  /\ StartSave(ram', "uart")
  /\ UNCHANGED <<file, tmp, acked, damage, junk, overrun>>

Tick ==
  \/ TickJunk \/ TickErrCmd
  \/ TickSetCfg \/ TickErrLen \/ TickReboot
  \/ TickJson \/ TickLastJson

Next ==
  \/ Start \/ Save \/ Crash
  \/ Post
  \/ HostSetsConfig \/ HostReboots \/ Overrun
  \/ Tick

Spec == Init /\ [][Next]_vars

-----------------------------------------------------------------------------
(* Properties *)

TypeOK ==
  /\ StoreTypeOK
  /\ s_jsonNeed \in 0..BufSize
  /\ s_jsonGot \in 0..BufSize
  /\ s_jsonGot < s_jsonNeed \/ s_jsonNeed = 0
  /\ s_jsonBuf \in [1..BufSize -> Cell]
  /\ junk \in BOOLEAN
  /\ overrun \in BOOLEAN
  /\ sent \in 0..MaxMessages

\* The copies in seconds say what the intervals say.  They do not where an
\* interval, or the product of the two, does not fit in 16 bits, or where
\* poll_interval_s was set and send_interval_s was not.
CopiesAgree(c) ==
  /\ c.poll_interval_s = c.poll_interval_sec
  /\ c.send_interval_s > 0
  /\ c.send_interval_polls = Fixed(c.send_interval_s \div c.poll_interval_sec)

\* README.md:112 and 174, the configuration lives on the card: one that a user
\* was told is saved is what the next boot makes of the file, through any reset
\* and any failing call, until another one replaces it.  Excepted are the ones
\* whose text is longer than the buffer of loadFromSd, or whose intervals come
\* back as the copies say and not as they were; and three events: an f_close or
\* f_rename that fails, a reset between f_unlink and f_rename.
SavedSurvives ==
  damage = {} /\ acked # None =>
    IF pc = "rename" THEN tmp = Printed(saving)
    ELSE /\ file = Printed(acked)
         /\ CopiesAgree(acked) /\ acked.tail \notin LongTails
              => LoadFromImage(file) = acked

\* The file is never seen half written: it is missing or a whole configuration,
\* unless f_close failed unnoticed.
FileNeverTorn == "close" \notin damage => file # Torn

LoadsMessage == s_jsonNeed > 0 /\ s_jsonNeed' = 0 /\ pc' = "open"

\* The bridge assembles a message byte by byte between other work, lost lines,
\* posts and reboots.  If nothing of it was lost and no longer message has been
\* in the buffer since the reset, exactly what the host sent takes effect.
MessageExact ==
  [][ LoadsMessage /\ ~overrun /\ (\E i \in 1..BufSize : s_jsonBuf'[i] = NUL)
      /\ (\A i \in (Len(message) + 1)..BufSize : s_jsonBuf'[i] = NUL)
      => ram' = LoadFromJson(ram, message) ]_vars

-----------------------------------------------------------------------------
(* What the comments say and the code does not do *)

\* runtime_config.hpp:565, loadFromJson is given a NUL-terminated text: without
\* losses, what takes effect is the message and nothing the buffer held before.
OnlyTheMessage ==
  [][ LoadsMessage /\ ~overrun => ram' = LoadFromJson(ram, message) ]_vars
=============================================================================
