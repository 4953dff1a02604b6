----------------------------- MODULE ConfigStore -----------------------------
(***************************************************************************)
(* The runtime configuration (Core/Src/runtime_config.cpp): the object in  *)
(* RAM, the file runtime_config.json on the SD card, how App::init loads   *)
(* it and how saveToSd writes it through a .tmp file.                      *)
(*                                                                         *)
(* Of the configuration the model keeps `head', any of the plain settings; *)
(* `tail', the lists (register map, UART ports), of which saveToSd writes  *)
(* the longest last; and the two intervals, which exist twice: as          *)
(* poll_interval_sec and send_interval_polls, which the main loop uses,    *)
(* and as copies in seconds with 16 bits, which the web page shows.  All   *)
(* four are written to the card, and at boot the copies win.  The values   *)
(* of `head' and `tail' stand for what validateAndFix leaves of an input;  *)
(* 0 is the compiled-in default.                                           *)
(***************************************************************************)
EXTENDS Naturals, Sequences

CONSTANTS
  Values,      \* what the memory behind a buffer may set a part to
  LongTails,   \* the lists whose text is longer than the buffer loadFromSd reads into
  HugeTails,   \* the lists whose text is longer than the buffer saveToSd prints into
  Faults       \* the faults the environment may inject

\* mount, open, write, close, unlink, rename: that call fails.  crash: a reset
\* at any moment but between f_unlink and f_rename, which is "window".
\* overrun: the UART drops something.  cut: the body of a request stays short.
FaultKinds ==
  {"mount", "open", "write", "close", "unlink", "rename", "crash", "window",
   "overrun", "cut"}

Width == 65536        \* of the uint16_t copies

\* poll_interval_s and send_interval_s are members of meas.  validateAndFix leaves
\* no interval of 0.
Config ==
  [head : Nat, poll_interval_sec : Nat \ {0}, send_interval_polls : Nat \ {0},
   poll_interval_s : 0..(Width - 1), send_interval_s : 0..(Width - 1), tail : Nat]
Keys == {"head", "poll_interval_sec", "send_interval_polls",
         "poll_interval_s", "send_interval_s", "tail"}

\* config.hpp:169-170 and the initial values of meas: they do not agree.
Default ==
  [head |-> 0, poll_interval_sec |-> 5, send_interval_polls |-> 2,
   poll_interval_s |-> 60, send_interval_s |-> 300, tail |-> 0]

ASSUME ValuesAssumption == Values \subseteq Nat
ASSUME TailsAssumption ==
  /\ HugeTails \subseteq LongTails
  /\ LongTails \subseteq Nat \ {0}
ASSUME FaultsAssumption == Faults \subseteq FaultKinds

VARIABLES
  ram,       \* Cfg()
  file,      \* the text of runtime_config.json
  tmp,       \* the text of runtime_config.json.tmp
  saving,    \* the object saveToSd was called on
  who,       \* its caller: "boot", "web" or "uart"
  pc,        \* "boot", "idle", or the next step of saveToSd
  acked,     \* history: the configuration a user was last told is on the card
  damage     \* history: the lossy events so far

storeVars == <<ram, file, tmp, saving, who, pc, acked, damage>>

-----------------------------------------------------------------------------
(* The text of a configuration *)

NUL == [key |-> "NUL", val |-> 0]
Cell == [key : Keys \union {"noise", "NUL"}, val : Nat]

\* What a file name may stand for beside a text.
None == <<>>         \* no such file
Torn == <<NUL>>      \* a file whose last sector and length never reached the card

\* findKey is a strstr from the start of the text: the first occurrence counts,
\* and nothing behind a NUL does.  The length is not looked at.
IsFirst(text, k, i) ==
  /\ i \in 1..Len(text) /\ text[i].key = k
  /\ \A j \in 1..(i - 1) : text[j].key # k /\ text[j] # NUL

\* The value of a key, or v where the key is not found.
Get(text, k, v) ==
  IF \E i \in 1..Len(text) : IsFirst(text, k, i)
  THEN text[CHOOSE i \in 1..Len(text) : IsFirst(text, k, i)].val
  ELSE v

\* validateAndFix, on an interval.
Fixed(n) == IF n = 0 THEN 1 ELSE n

\* loadFromJson.  A setting that is not found keeps its value, a list that is not
\* found is emptied; there is no other check, whatever the text is.  The copies
\* are set from the exact intervals first; then the keys of the copies, which are
\* those of the web page, override both.
LoadFromJson(c, text) ==
  LET poll  == Get(text, "poll_interval_sec", c.poll_interval_sec)
      polls == Get(text, "send_interval_polls", c.send_interval_polls)
      pollS == Get(text, "poll_interval_s", 0)
      sendS == Get(text, "send_interval_s", 0)
      every == IF pollS > 0 THEN pollS ELSE poll
  IN  [head |-> Get(text, "head", c.head),
       poll_interval_sec |-> Fixed(every),
       send_interval_polls |->
         IF sendS = 0 THEN Fixed(polls)
         ELSE IF every = 0 THEN 1 ELSE Fixed(sendS \div every),
       poll_interval_s |-> IF every > 0 THEN every % Width ELSE c.poll_interval_s,
       send_interval_s |->
         IF sendS > 0 THEN sendS % Width
         ELSE IF polls > 0 THEN (polls * poll) % Width ELSE c.send_interval_s,
       tail |-> Get(text, "tail", 0)]

\* The text saveToSd prints: the exact intervals and the copies.
Printed(c) ==
  << [key |-> "head",                val |-> c.head],
     [key |-> "poll_interval_sec",   val |-> c.poll_interval_sec],
     [key |-> "send_interval_polls", val |-> c.send_interval_polls],
     [key |-> "poll_interval_s",     val |-> c.poll_interval_s],
     [key |-> "send_interval_s",     val |-> c.send_interval_s],
     [key |-> "tail",                val |-> c.tail] >>

\* loadFromSd reads 6143 bytes at most; the list at the end of a longer text
\* is not found whole, and what is found of it is modelled as an empty list.
ReadBack(text) ==
  IF text[Len(text)].val \in LongTails THEN SubSeq(text, 1, Len(text) - 1) ELSE text

LoadFromImage(text) == LoadFromJson(Default, ReadBack(text))

-----------------------------------------------------------------------------
(* saveToSd, in the steps a reset can cut *)

StartSave(c, caller) ==
  /\ saving' = c
  /\ who' = caller
  /\ pc' = "open"

\* What the caller does with the result.  handlePostConfig commits the object
\* to RAM whatever the result is and starts the channel manager again (Reinit
\* of ChannelManager); the UART bridge has changed RAM already, and
\* resets the device after a success; loadFromSd falls back to the defaults.
Finish(ok) ==
  /\ acked' = IF ok /\ who # "boot" THEN saving ELSE acked
  /\ ram' = IF who = "web" THEN saving ELSE ram
  /\ pc' = IF ok /\ who = "uart" THEN "boot" ELSE "idle"
  /\ UNCHANGED <<saving, who>>

\* Mutant: the new text goes straight into the file.
SaveInPlace ==
  /\ pc = "open" /\ saving.tail \notin HugeTails
  /\ tmp' = Torn /\ file' = Torn
  /\ pc' = "write"
  /\ UNCHANGED <<ram, saving, who, acked, damage>>

\* Mutant: the old file is removed before the new one is written.
SaveUnlinksFirst ==
  /\ pc = "open" /\ saving.tail \notin HugeTails
  /\ tmp' = Torn /\ file' = None
  /\ pc' = "write"
  /\ UNCHANGED <<ram, saving, who, acked, damage>>

SaveOpen ==
  /\ pc = "open"
  /\ saving.tail \notin HugeTails
  /\ tmp' = Torn
  /\ pc' = "write"
  /\ UNCHANGED <<ram, file, saving, who, acked, damage>>

\* The text does not fit, there is no card (FatFs tries to mount it at every
\* f_open after a failed f_mount), or the file cannot be created.
SaveOpenFails ==
  /\ pc = "open"
  /\ \/ /\ UNCHANGED tmp
        /\ saving.tail \in HugeTails \/ Faults \intersect {"mount", "open"} # {}
     \/ tmp' = None /\ "open" \in Faults
  /\ Finish(FALSE)
  /\ UNCHANGED <<file, damage>>

\* The chunks and f_close, whose result nobody looks at.
SaveWrite ==
  /\ pc = "write"
  /\ \/ tmp' = Printed(saving) /\ UNCHANGED damage
     \/ "close" \in Faults /\ tmp' = Torn /\ damage' = damage \union {"close"}
  /\ pc' = "unlink"
  /\ UNCHANGED <<ram, file, saving, who, acked>>

SaveWriteFails ==
  /\ pc = "write" /\ "write" \in Faults
  /\ tmp' = None
  /\ Finish(FALSE)
  /\ UNCHANGED <<file, damage>>

SaveUnlink ==
  /\ pc = "unlink"
  /\ file' = None
  /\ pc' = "rename"
  /\ UNCHANGED <<ram, tmp, saving, who, acked, damage>>

\* The old file stays, so f_rename answers FR_EXIST; the .tmp file stays too.
SaveUnlinkFails ==
  /\ pc = "unlink" /\ "unlink" \in Faults
  /\ file # None
  /\ Finish(FALSE)
  /\ UNCHANGED <<file, tmp, damage>>

SaveRename ==
  /\ pc = "rename"
  /\ file' = tmp
  /\ tmp' = None
  /\ Finish(TRUE)
  /\ UNCHANGED damage

\* Neither the old file nor the new one is left under its name.
SaveRenameFails ==
  /\ pc = "rename" /\ "rename" \in Faults
  /\ damage' = damage \union {"rename"}
  /\ Finish(FALSE)
  /\ UNCHANGED <<file, tmp>>

SaveToSd ==
  \/ SaveOpen \/ SaveOpenFails
  \/ SaveWrite \/ SaveWriteFails
  \/ SaveUnlink \/ SaveUnlinkFails
  \/ SaveRename \/ SaveRenameFails

-----------------------------------------------------------------------------
(* App::init and loadFromSd *)

\* No card: the defaults, and the file is not touched.
BootWithoutCard ==
  /\ pc = "boot" /\ "mount" \in Faults
  /\ ram' = Default
  /\ pc' = "idle"
  /\ UNCHANGED <<file, tmp, saving, who, acked, damage>>

BootLoads ==
  /\ pc = "boot" /\ file \notin {None, Torn}
  /\ ram' = LoadFromImage(file)
  /\ pc' = "idle"
  /\ UNCHANGED <<file, tmp, saving, who, acked, damage>>

\* The file cannot be opened or read, or it is empty: the defaults.
BootUnreadable ==
  /\ pc = "boot" /\ (file = Torn \/ ("open" \in Faults /\ file # None))
  /\ ram' = Default
  /\ pc' = "idle"
  /\ UNCHANGED <<file, tmp, saving, who, acked, damage>>

\* FR_NO_FILE: the defaults are written to the card.  A .tmp file that a reset
\* or a failed rename left behind is not looked at; saveToSd removes it.
BootCreates ==
  /\ pc = "boot" /\ file = None
  /\ ram' = Default
  /\ StartSave(Default, "boot")
  /\ UNCHANGED <<file, tmp, acked, damage>>

Boot == BootWithoutCard \/ BootLoads \/ BootUnreadable \/ BootCreates

\* A card comes with or without a configuration.
StoreInit ==
  /\ file \in {None, Printed(Default)}
  /\ ram = Default
  /\ tmp = None
  /\ saving = Default
  /\ who = "boot"
  /\ pc = "boot"
  /\ acked = None
  /\ damage = {}

StoreTypeOK ==
  /\ ram \in Config
  /\ file \in Seq(Cell)
  /\ tmp \in Seq(Cell)
  /\ saving \in Config
  /\ who \in {"boot", "web", "uart"}
  /\ pc \in {"boot", "idle", "open", "write", "unlink", "rename"}
  /\ acked \in Config \union {None}
  /\ damage \subseteq {"close", "rename", "window"}
=============================================================================
