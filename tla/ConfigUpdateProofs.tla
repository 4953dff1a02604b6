------------------------- MODULE ConfigUpdateProofs -------------------------
(***************************************************************************)
(* A configuration is never half written, a saved one is not lost, and the *)
(* one assembled byte by byte is the one the host sent: for every set of   *)
(* values, texts and faults, every buffer size and any number of messages. *)
(***************************************************************************)
EXTENDS ConfigUpdate, SequenceTheorems, TLAPS

-----------------------------------------------------------------------------
(* Texts and configurations *)

Pair == [key : Keys, val : Nat]
Unit == [cmd : {"SETCFG_JSON", "REBOOT"}, n : Nat] \union Pair

LEMMA DefaultConfig == Default \in Config
BY DEF Default, Config, Width

\* A cell that is found under a key holds a value.
LEMMA PairsAreCells ==
  /\ Pair \subseteq Cell
  /\ NUL \in Cell
  /\ \A u \in Cell : u.key \in Keys => u \in Pair /\ u # NUL
  /\ \A u \in Pair : u.key \in Keys /\ u.val \in Nat /\ u # NUL
BY DEF Pair, Cell, NUL, Keys

LEMMA WidthType == Width \in Nat /\ Width > 0
BY DEF Width

\* The text of a configuration, cell by cell.
LEMMA PrintedText ==
  ASSUME NEW c \in Config
  PROVE  /\ Printed(c) \in Seq(Pair) /\ Printed(c) \in Seq(Cell) /\ Len(Printed(c)) = 6
         /\ Printed(c)[1] = [key |-> "head",                val |-> c.head]
         /\ Printed(c)[2] = [key |-> "poll_interval_sec",   val |-> c.poll_interval_sec]
         /\ Printed(c)[3] = [key |-> "send_interval_polls", val |-> c.send_interval_polls]
         /\ Printed(c)[4] = [key |-> "poll_interval_s",     val |-> c.poll_interval_s]
         /\ Printed(c)[5] = [key |-> "send_interval_s",     val |-> c.send_interval_s]
         /\ Printed(c)[6] = [key |-> "tail",                val |-> c.tail]
<1>1. /\ c.head \in Nat /\ c.poll_interval_sec \in Nat /\ c.send_interval_polls \in Nat
      /\ c.poll_interval_s \in Nat /\ c.send_interval_s \in Nat /\ c.tail \in Nat
  <2>1. \A n \in 0..(Width - 1) : n \in Nat
    BY WidthType
  <2>2. QED
    BY <2>1 DEF Config
<1>2. \A k \in Keys : \A v \in Nat : [key |-> k, val |-> v] \in Pair
  BY DEF Pair
<1>3. Printed(c) \in Seq(Pair)
  BY <1>1, <1>2 DEF Printed, Keys
<1>4. Printed(c) \in Seq(Cell)
  BY <1>3, PairsAreCells
<1>5. QED
  BY <1>3, <1>4 DEF Printed

\* A missing file, a torn one and a text are three different things.
LEMMA ImagesDiffer ==
  /\ None # Torn /\ None \in Seq(Cell) /\ Torn \in Seq(Cell)
  /\ None \notin Config
  /\ \A c \in Config : Printed(c) # None /\ Printed(c) # Torn
<1>1. Len(None) = 0 /\ Len(Torn) = 1
  BY DEF None, Torn
<1>2. None \in Seq(Cell) /\ Torn \in Seq(Cell)
  BY PairsAreCells DEF None, Torn
<1>3. DOMAIN None = {} /\ \A c \in Config : "head" \in DOMAIN c
  BY DEF None, Config
<1>4. \A c \in Config : Len(Printed(c)) = 6
  BY PrintedText
<1>5. None # Torn /\ \A c \in Config : Printed(c) # None /\ Printed(c) # Torn
  BY <1>1, <1>4
<1>6. None \notin Config
  BY <1>3
<1>7. QED
  BY <1>2, <1>5, <1>6

LEMMA CommandsAreNoPairs ==
  /\ \A u \in Pair : ~IsCommand(u) /\ AsCell(u) = u
  /\ \A u \in Unit : AsCell(u) \in Cell
  /\ \A n \in Nat : SetCfg(n) \in Unit /\ IsCommand(SetCfg(n)) /\ SetCfg(n).n = n
                    /\ SetCfg(n).cmd = "SETCFG_JSON"
  /\ Reboot \in Unit /\ IsCommand(Reboot) /\ Reboot.cmd = "REBOOT"
<1>1. \A u \in Pair : DOMAIN u = {"key", "val"}
  BY DEF Pair
<1>2. \A u \in Pair : ~IsCommand(u) /\ AsCell(u) = u
  BY <1>1 DEF IsCommand, AsCell
<1>3. [key |-> "noise", val |-> 0] \in Cell
  BY DEF Cell
<1>4. \A u \in Unit : u \notin Pair => IsCommand(u)
  BY DEF Unit, IsCommand
<1>5. \A u \in Unit : AsCell(u) \in Cell
  BY <1>2, <1>3, <1>4, PairsAreCells DEF AsCell
<1>6. QED
  BY <1>2, <1>5 DEF SetCfg, Reboot, Unit, IsCommand

\* There is at most one first occurrence, and its value is what is found.
LEMMA FirstIsFound ==
  ASSUME NEW text, Len(text) \in Nat, NEW k, NEW v, NEW i, IsFirst(text, k, i)
  PROVE  Get(text, k, v) = text[i].val
<1>1. \A j : IsFirst(text, k, j) => j = i
  BY DEF IsFirst
<1>2. i \in 1..Len(text)
  BY DEF IsFirst
<1>3. (CHOOSE j \in 1..Len(text) : IsFirst(text, k, j)) = i
  BY <1>1, <1>2
<1>4. QED
  BY <1>2, <1>3 DEF Get

\* What is found under a key is a number.
LEMMA GetType ==
  ASSUME NEW text \in Seq(Cell), NEW k \in Keys, NEW v \in Nat
  PROVE  Get(text, k, v) \in Nat
<1>1. CASE \E i \in 1..Len(text) : IsFirst(text, k, i)
  <2>1. PICK i \in 1..Len(text) : IsFirst(text, k, i)
    BY <1>1
  <2>2. text[i] \in Cell
    BY <2>1
  <2>3. text[i].val \in Nat
    BY <2>2 DEF Cell
  <2>4. QED
    BY <2>1, <2>3, FirstIsFound
<1>2. CASE ~\E i \in 1..Len(text) : IsFirst(text, k, i)
  BY <1>2 DEF Get
<1>3. QED
  BY <1>1, <1>2

LEMMA DivisionType == \A a \in Nat : \A b \in Nat \ {0} : a \div b \in Nat
<1>1. TAKE a \in Nat, b \in Nat \ {0}
<1>2. a \div b \in Int
  OBVIOUS
<1>3. a \div b >= 0
  OBVIOUS
<1>4. QED
  BY <1>2, <1>3

LEMMA RemainderType == \A a \in Nat : a % Width \in 0..(Width - 1)
<1>1. TAKE a \in Nat
<1>2. a % Width \in Int
  BY WidthType
<1>3. a % Width >= 0
  BY WidthType
<1>4. a % Width < Width
  BY WidthType
<1>5. QED
  BY <1>2, <1>3, <1>4, WidthType

LEMMA Below == \A a \in Nat : a < Width => a % Width = a
<1>1. TAKE a \in Nat
<1>2. QED
  BY DEF Width

LEMMA SmallRemainder == \A a \in 0..(Width - 1) : a % Width = a
<1>1. TAKE a \in 0..(Width - 1)
<1>2. a \in Nat /\ a < Width
  BY WidthType
<1>3. QED
  BY <1>2, Below

\* loadFromJson makes a configuration of a configuration, whatever it is given.
LEMMA LoadType ==
  ASSUME NEW c \in Config, NEW text \in Seq(Cell)
  PROVE  LoadFromJson(c, text) \in Config
<1> DEFINE poll  == Get(text, "poll_interval_sec", c.poll_interval_sec)
           polls == Get(text, "send_interval_polls", c.send_interval_polls)
           pollS == Get(text, "poll_interval_s", 0)
           sendS == Get(text, "send_interval_s", 0)
           every == IF pollS > 0 THEN pollS ELSE poll
<1>1. /\ c.head \in Nat /\ c.poll_interval_sec \in Nat /\ c.send_interval_polls \in Nat
      /\ c.poll_interval_s \in 0..(Width - 1) /\ c.send_interval_s \in 0..(Width - 1)
  BY DEF Config
<1>2. \A k \in Keys : \A v \in Nat : Get(text, k, v) \in Nat
  BY GetType
<1>3. Get(text, "head", c.head) \in Nat /\ Get(text, "tail", 0) \in Nat
  BY <1>1, <1>2 DEF Keys
<1>4. poll \in Nat /\ polls \in Nat /\ pollS \in Nat /\ sendS \in Nat
  BY <1>1, <1>2 DEF Keys
<1>5. LoadFromJson(c, text) =
        [head |-> Get(text, "head", c.head),
         poll_interval_sec |-> Fixed(every),
         send_interval_polls |->
           IF sendS = 0 THEN Fixed(polls)
           ELSE IF every = 0 THEN 1 ELSE Fixed(sendS \div every),
         poll_interval_s |-> IF every > 0 THEN every % Width ELSE c.poll_interval_s,
         send_interval_s |->
           IF sendS > 0 THEN sendS % Width
           ELSE IF polls > 0 THEN (polls * poll) % Width ELSE c.send_interval_s,
         tail |-> Get(text, "tail", 0)]
  BY DEF LoadFromJson
<1> HIDE DEF poll, polls, pollS, sendS
<1>6. every \in Nat
  BY <1>4
<1> HIDE DEF every
<1>7. \A n \in Nat : Fixed(n) \in Nat \ {0}
  BY DEF Fixed
<1>8. (IF sendS = 0 THEN Fixed(polls)
       ELSE IF every = 0 THEN 1 ELSE Fixed(sendS \div every)) \in Nat \ {0}
  <2>1. every # 0 => sendS \div every \in Nat
    BY <1>4, <1>6, DivisionType
  <2>2. every # 0 => Fixed(sendS \div every) \in Nat \ {0}
    BY <1>7, <2>1
  <2>3. QED
    BY <1>4, <1>7, <2>2
<1>9. (IF every > 0 THEN every % Width ELSE c.poll_interval_s) \in 0..(Width - 1)
  BY <1>1, <1>6, RemainderType
<1>10. polls * poll \in Nat
  BY <1>4
<1>11. (IF sendS > 0 THEN sendS % Width
        ELSE IF polls > 0 THEN (polls * poll) % Width ELSE c.send_interval_s)
       \in 0..(Width - 1)
  BY <1>1, <1>4, <1>10, RemainderType
<1>12. QED
  BY <1>3, <1>5, <1>6, <1>7, <1>8, <1>9, <1>11 DEF Config

\* What lies behind a text, from a NUL on, is not looked at.
LEMMA LoadStopsAtNul ==
  ASSUME NEW c, NEW text \in Seq(Pair), NEW buf \in Seq(Cell),
         Len(buf) >= Len(text),
         \A i \in 1..Len(text) : buf[i] = text[i],
         \A i \in (Len(text) + 1)..Len(buf) : buf[i] = NUL
  PROVE  LoadFromJson(c, buf) = LoadFromJson(c, text)
<1>0. Len(text) \in Nat /\ Len(buf) \in Nat
  OBVIOUS
<1>1. ASSUME NEW k \in Keys, NEW i \in 1..Len(buf), IsFirst(buf, k, i)
      PROVE  i \in 1..Len(text) /\ IsFirst(text, k, i)
  <2>1. buf[i] # NUL
    BY <1>1, PairsAreCells DEF IsFirst
  <2>2. i \in 1..Len(text)
    BY <1>0, <2>1
  <2>3. QED
    BY <1>0, <1>1, <2>2 DEF IsFirst
<1>2. ASSUME NEW k \in Keys, NEW i \in 1..Len(text), IsFirst(text, k, i)
      PROVE  i \in 1..Len(buf) /\ IsFirst(buf, k, i)
  BY <1>0, <1>2 DEF IsFirst
<1>3. ASSUME NEW k \in Keys, NEW v
      PROVE  Get(buf, k, v) = Get(text, k, v)
  <2>1. CASE \E i \in 1..Len(text) : IsFirst(text, k, i)
    <3>1. PICK i \in 1..Len(text) : IsFirst(text, k, i)
      BY <2>1
    <3>2. IsFirst(buf, k, i) /\ buf[i] = text[i]
      BY <1>2, <3>1
    <3>3. QED
      BY <1>0, <3>1, <3>2, FirstIsFound
  <2>2. CASE ~\E i \in 1..Len(text) : IsFirst(text, k, i)
    BY <1>1, <2>2 DEF Get
  <2>3. QED
    BY <2>1, <2>2
<1>4. QED
  BY <1>3 DEF LoadFromJson, Keys

\* A configuration whose copies agree with its intervals, and whose text fits, is
\* what is read back of its text.
LEMMA ReloadsExactly ==
  ASSUME NEW c \in Config, CopiesAgree(c), c.tail \notin LongTails
  PROVE  LoadFromImage(Printed(c)) = c
<1> DEFINE text == Printed(c)
<1>1. /\ Len(text) = 6
      /\ text[1] = [key |-> "head",                val |-> c.head]
      /\ text[2] = [key |-> "poll_interval_sec",   val |-> c.poll_interval_sec]
      /\ text[3] = [key |-> "send_interval_polls", val |-> c.send_interval_polls]
      /\ text[4] = [key |-> "poll_interval_s",     val |-> c.poll_interval_s]
      /\ text[5] = [key |-> "send_interval_s",     val |-> c.send_interval_s]
      /\ text[6] = [key |-> "tail",                val |-> c.tail]
  BY PrintedText
<1> HIDE DEF text
<1>2. ReadBack(text) = text
  BY <1>1 DEF ReadBack
<1>3. /\ IsFirst(text, "head", 1) /\ IsFirst(text, "poll_interval_sec", 2)
      /\ IsFirst(text, "send_interval_polls", 3) /\ IsFirst(text, "poll_interval_s", 4)
      /\ IsFirst(text, "send_interval_s", 5) /\ IsFirst(text, "tail", 6)
  BY <1>1 DEF IsFirst, NUL
<1>4. \A v : /\ Get(text, "head", v) = c.head
             /\ Get(text, "poll_interval_sec", v) = c.poll_interval_sec
             /\ Get(text, "send_interval_polls", v) = c.send_interval_polls
             /\ Get(text, "poll_interval_s", v) = c.poll_interval_s
             /\ Get(text, "send_interval_s", v) = c.send_interval_s
             /\ Get(text, "tail", v) = c.tail
  BY <1>1, <1>3, FirstIsFound
<1>5. /\ c.poll_interval_s = c.poll_interval_sec
      /\ c.send_interval_s > 0
      /\ c.send_interval_polls = Fixed(c.send_interval_s \div c.poll_interval_sec)
      /\ c.poll_interval_sec \in Nat \ {0}
      /\ c.poll_interval_s \in 0..(Width - 1) /\ c.send_interval_s \in 0..(Width - 1)
  BY DEF CopiesAgree, Config
<1>6. /\ c.poll_interval_s > 0 /\ c.poll_interval_s # 0 /\ c.send_interval_s # 0
      /\ Fixed(c.poll_interval_s) = c.poll_interval_s
      /\ c.poll_interval_s % Width = c.poll_interval_s
      /\ c.send_interval_s % Width = c.send_interval_s
  <2>1. \A n \in 0..(Width - 1) : n % Width = n
    BY SmallRemainder
  <2>2. c.poll_interval_s > 0 /\ c.poll_interval_s # 0 /\ c.send_interval_s # 0
    BY <1>5
  <2>3. QED
    BY <1>5, <2>1, <2>2 DEF Fixed
<1>7. LoadFromJson(Default, text) =
        [head |-> c.head,
         poll_interval_sec |-> c.poll_interval_sec,
         send_interval_polls |-> c.send_interval_polls,
         poll_interval_s |-> c.poll_interval_s,
         send_interval_s |-> c.send_interval_s,
         tail |-> c.tail]
  <2>1. Fixed(c.send_interval_polls) = c.send_interval_polls
        /\ Fixed(Fixed(c.send_interval_s \div c.poll_interval_sec))
             = Fixed(c.send_interval_s \div c.poll_interval_sec)
    BY DEF Fixed, Config
  <2>2. LoadFromJson(Default, text).send_interval_polls = c.send_interval_polls
    BY <1>4, <1>5, <1>6, <2>1 DEF LoadFromJson
  <2>3. LoadFromJson(Default, text).send_interval_s = c.send_interval_s
    BY <1>4, <1>5, <1>6 DEF LoadFromJson
  <2>4. QED
    BY <1>4, <1>5, <1>6, <2>2, <2>3 DEF LoadFromJson
<1>8. QED
  BY <1>2, <1>7 DEF LoadFromImage, Config, text

LEMMA ImageType ==
  ASSUME NEW text \in Seq(Cell), text # None
  PROVE  LoadFromImage(text) \in Config
<1>1. ReadBack(text) \in Seq(Cell)
  <2>1. Len(text) \in Nat \ {0}
    BY DEF None
  <2>2. SubSeq(text, 1, Len(text) - 1) \in Seq(Cell)
    BY <2>1
  <2>3. QED
    BY <2>2 DEF ReadBack
<1>2. QED
  BY <1>1, LoadType, DefaultConfig DEF LoadFromImage

-----------------------------------------------------------------------------
(* The store: the invariant of what saveToSd and the boot do *)

\* What is about to take the place of the file is whole, or f_close failed.
Prepared ==
  pc \in {"unlink", "rename"} => tmp = Printed(saving) \/ (tmp = Torn /\ "close" \in damage)

\* The boot only writes the defaults when no configuration was ever saved.
Fresh ==
  damage = {} /\ who = "boot" /\ pc \in {"open", "write", "unlink", "rename"} => acked = None

\* What a user was told is saved is the text on the card.
Saved ==
  damage = {} /\ acked # None =>
    IF pc = "rename" THEN tmp = Printed(saving) ELSE file = Printed(acked)

StoreInv == StoreTypeOK /\ Prepared /\ Fresh /\ Saved /\ FileNeverTorn

LEMMA StoreInit0 == StoreInit => StoreInv
<1> SUFFICES ASSUME StoreInit PROVE StoreInv
  OBVIOUS
<1>1. file \in Seq(Cell) /\ file # Torn /\ tmp \in Seq(Cell)
  BY DefaultConfig, PrintedText, ImagesDiffer DEF StoreInit
<1>2. StoreTypeOK
  BY <1>1, DefaultConfig DEF StoreInit, StoreTypeOK
<1>3. QED
  BY <1>1, <1>2 DEF StoreInit, StoreInv, Prepared, Fresh, Saved, FileNeverTorn

\* A call of saveToSd begins, of the boot only when no file was ever saved.
LEMMA StartSaveInv ==
  ASSUME StoreInv, NEW c \in Config, NEW caller \in {"boot", "web", "uart"},
         pc # "rename", ram' \in Config,
         StartSave(c, caller), UNCHANGED <<file, tmp, acked, damage>>,
         caller = "boot" /\ damage = {} => acked = None
  PROVE  StoreInv'
<1>1. saving' = c /\ who' = caller /\ pc' = "open"
  BY DEF StartSave
<1>2. StoreTypeOK'
  BY <1>1 DEF StoreInv, StoreTypeOK
<1>3. Prepared' /\ Fresh'
  BY <1>1 DEF StoreInv, Prepared, Fresh
<1>4. Saved' /\ FileNeverTorn'
  BY <1>1 DEF StoreInv, Saved, FileNeverTorn
<1>5. QED
  BY <1>2, <1>3, <1>4 DEF StoreInv

\* A call ends without having touched the file.
LEMMA FailInv ==
  ASSUME StoreInv, pc # "rename", Finish(FALSE), UNCHANGED <<file, damage>>,
         tmp' \in Seq(Cell)
  PROVE  StoreInv'
<1>1. acked' = acked /\ pc' = "idle" /\ saving' = saving /\ who' = who
      /\ ram' \in {saving, ram}
  BY DEF Finish
<1>2. QED
  BY <1>1 DEF StoreInv, StoreTypeOK, Prepared, Fresh, Saved, FileNeverTorn

LEMMA SaveInv == ASSUME StoreInv, SaveToSd PROVE StoreInv'
<1>0. /\ StoreTypeOK /\ Prepared /\ Fresh /\ Saved /\ FileNeverTorn
      /\ None \in Seq(Cell) /\ Torn \in Seq(Cell)
  BY ImagesDiffer DEF StoreInv
<1>1. CASE SaveOpen
  BY <1>0, <1>1 DEF SaveOpen, StoreInv, StoreTypeOK, Prepared, Fresh, Saved, FileNeverTorn
<1>2. CASE SaveOpenFails
  BY <1>0, <1>2, FailInv DEF SaveOpenFails, StoreTypeOK
<1>3. CASE SaveWrite
  <2>1. /\ pc = "write" /\ pc' = "unlink" /\ UNCHANGED <<ram, file, saving, who, acked>>
        /\ \/ tmp' = Printed(saving) /\ damage' = damage
           \/ tmp' = Torn /\ damage' = damage \union {"close"}
    BY <1>3 DEF SaveWrite
  <2>2. StoreTypeOK'
    BY <1>0, <2>1, PrintedText DEF StoreTypeOK
  <2>3. Prepared' /\ Fresh' /\ Saved' /\ FileNeverTorn'
    BY <1>0, <2>1 DEF Prepared, Fresh, Saved, FileNeverTorn
  <2>4. QED
    BY <2>2, <2>3 DEF StoreInv
<1>4. CASE SaveWriteFails
  BY <1>0, <1>4, FailInv DEF SaveWriteFails
<1>5. CASE SaveUnlink
  <2>1. /\ pc = "unlink" /\ pc' = "rename" /\ file' = None
        /\ UNCHANGED <<ram, tmp, saving, who, acked, damage>>
    BY <1>5 DEF SaveUnlink
  <2>2. StoreTypeOK' /\ Prepared' /\ Fresh'
    BY <1>0, <2>1 DEF StoreTypeOK, Prepared, Fresh
  <2>3. Saved'
    BY <1>0, <2>1 DEF Saved, Prepared
  <2>4. FileNeverTorn'
    BY <2>1, ImagesDiffer DEF FileNeverTorn
  <2>5. QED
    BY <2>2, <2>3, <2>4 DEF StoreInv
<1>6. CASE SaveUnlinkFails
  BY <1>0, <1>6, FailInv DEF SaveUnlinkFails, StoreTypeOK
<1>7. CASE SaveRename
  <2>1. /\ pc = "rename" /\ file' = tmp /\ tmp' = None /\ damage' = damage
        /\ acked' = IF who # "boot" THEN saving ELSE acked
        /\ ram' \in {saving, ram} /\ pc' \in {"boot", "idle"}
        /\ UNCHANGED <<saving, who>>
    BY <1>7 DEF SaveRename, Finish
  <2>2. StoreTypeOK'
    BY <1>0, <2>1 DEF StoreTypeOK
  <2>3. Prepared' /\ Fresh'
    BY <2>1 DEF Prepared, Fresh
  <2>4. Saved'
    BY <1>0, <2>1 DEF Saved, Prepared, Fresh, StoreTypeOK
  <2>5. FileNeverTorn'
    BY <1>0, <2>1, ImagesDiffer DEF FileNeverTorn, Prepared, StoreTypeOK
  <2>6. QED
    BY <2>2, <2>3, <2>4, <2>5 DEF StoreInv
<1>8. CASE SaveRenameFails
  <2>1. /\ pc = "rename" /\ pc' = "idle" /\ damage' = damage \union {"rename"}
        /\ acked' = acked /\ ram' \in {saving, ram}
        /\ UNCHANGED <<file, tmp, saving, who>>
    BY <1>8 DEF SaveRenameFails, Finish
  <2>2. StoreTypeOK' /\ Prepared' /\ Fresh' /\ Saved' /\ FileNeverTorn'
    BY <1>0, <2>1 DEF StoreTypeOK, Prepared, Fresh, Saved, FileNeverTorn
  <2>3. QED
    BY <2>2 DEF StoreInv
<1>9. QED
  BY <1>1, <1>2, <1>3, <1>4, <1>5, <1>6, <1>7, <1>8 DEF SaveToSd

LEMMA BootInv == ASSUME StoreInv, Boot PROVE StoreInv'
<1>0. StoreTypeOK /\ Saved
  BY DEF StoreInv
<1>1. CASE BootCreates
  <2>1. damage = {} => acked = None
    <3>1. pc = "boot" /\ file = None
      BY <1>1 DEF BootCreates
    <3>2. acked \in Config \union {None}
      BY <1>0 DEF StoreTypeOK
    <3>3. QED
      BY <1>0, <3>1, <3>2, ImagesDiffer DEF Saved
  <2>2. QED
    BY <1>1, <2>1, DefaultConfig, StartSaveInv DEF BootCreates
<1>2. CASE BootWithoutCard \/ BootLoads \/ BootUnreadable
  <2>1. /\ pc = "boot" /\ pc' = "idle" /\ UNCHANGED <<file, tmp, saving, who, acked, damage>>
    BY <1>2 DEF BootWithoutCard, BootLoads, BootUnreadable
  <2>2. ram' \in Config
    BY <1>0, <1>2, DefaultConfig, ImageType
       DEF BootWithoutCard, BootLoads, BootUnreadable, StoreTypeOK
  <2>3. QED
    BY <2>1, <2>2
       DEF StoreInv, StoreTypeOK, Prepared, Fresh, Saved, FileNeverTorn
<1>3. QED
  BY <1>1, <1>2 DEF Boot

\* A reset, at any moment.
LEMMA ResetInv ==
  ASSUME StoreInv, pc' = "boot", ram' = Default, UNCHANGED <<file, tmp, saving, who, acked>>,
         damage' = IF pc = "rename" THEN damage \union {"window"} ELSE damage
  PROVE  StoreInv'
<1>1. StoreTypeOK'
  BY DefaultConfig DEF StoreInv, StoreTypeOK
<1>2. QED
  BY <1>1 DEF StoreInv, Prepared, Fresh, Saved, FileNeverTorn

-----------------------------------------------------------------------------
(* The wire and the message being assembled *)

\* The first k pairs of the message are gone, the rest is on the wire.
Pending(k) ==
  /\ k \in 0..Len(message)
  /\ Len(wire) = Len(message) - k
  /\ \A i \in 1..Len(wire) : wire[i] = message[k + i]

\* The whole message is on the wire, behind its command.
Whole ==
  /\ Len(wire) = Len(message) + 1
  /\ wire[1] = SetCfg(Len(message))
  /\ \A i \in 1..Len(message) : wire[i + 1] = message[i]

Rebooting == Len(wire) = 1 /\ wire[1] = Reboot

WireInv ==
  /\ message \in Seq(Pair)
  /\ wire \in Seq(Unit)
  /\ Rebooting \/ Whole \/ \E k \in 0..Len(message) : Pending(k)

\* If nothing was lost, the buffer holds the part of the message that has come.
Assembled ==
  s_jsonNeed > 0 /\ ~overrun =>
    /\ s_jsonNeed = Len(message)
    /\ Pending(s_jsonGot)
    /\ \A i \in 1..s_jsonGot : s_jsonBuf[i] = message[i]

UartTypeOK ==
  /\ s_jsonNeed \in 0..BufSize
  /\ s_jsonGot \in 0..BufSize
  /\ s_jsonGot < s_jsonNeed \/ s_jsonNeed = 0
  /\ s_jsonBuf \in [1..BufSize -> Cell]
  /\ junk \in BOOLEAN
  /\ overrun \in BOOLEAN
  /\ sent \in 0..MaxMessages

IInv == StoreInv /\ UartTypeOK /\ WireInv /\ Assembled

LEMMA TypeFromInv == IInv => TypeOK
BY DEF IInv, StoreInv, UartTypeOK, TypeOK

LEMMA SavedFromInv == IInv => SavedSurvives
<1> SUFFICES ASSUME IInv, damage = {}, acked # None
             PROVE  IF pc = "rename" THEN tmp = Printed(saving)
                    ELSE /\ file = Printed(acked)
                         /\ CopiesAgree(acked) /\ acked.tail \notin LongTails
                              => LoadFromImage(file) = acked
  BY DEF SavedSurvives
<1>1. IF pc = "rename" THEN tmp = Printed(saving) ELSE file = Printed(acked)
  BY DEF IInv, StoreInv, Saved
<1>2. acked \in Config
  BY DEF IInv, StoreInv, StoreTypeOK
<1>3. QED
  BY <1>1, <1>2, ReloadsExactly

\* Taking one unit off the wire.
LEMMA TailOfWire ==
  ASSUME WireInv, wire # <<>>, wire' = Tail(wire), message' = message
  PROVE  /\ WireInv' /\ unit \in Unit
         /\ unit = wire[1]
         /\ \A k \in 0..Len(message) : Pending(k) =>
              /\ k + 1 \in 0..Len(message)
              /\ unit = message[k + 1] /\ unit \in Pair
              /\ \A n \in Nat : n = k + 1 => Pending(n)'
         /\ Whole => unit = SetCfg(Len(message)) /\ \A n \in Nat : n = 0 => Pending(n)'
<1>0. /\ message \in Seq(Pair) /\ wire \in Seq(Unit) /\ Len(message) \in Nat
      /\ Len(wire) \in Nat \ {0} /\ message' = message
  BY DEF WireInv
<1>1. /\ wire' \in Seq(Unit) /\ Len(wire') = Len(wire) - 1
      /\ \A i \in 1..Len(wire') : wire'[i] = wire[i + 1]
      /\ unit = wire[1] /\ unit \in Unit
  BY <1>0, HeadTailProperties DEF unit
<1>2. ASSUME NEW k \in 0..Len(message), Pending(k)
      PROVE  /\ k + 1 \in 0..Len(message)
             /\ unit = message[k + 1] /\ unit \in Pair
             /\ \A n \in Nat : n = k + 1 => Pending(n)'
  <2>1. Len(wire) = Len(message) - k /\ \A i \in 1..Len(wire) : wire[i] = message[k + i]
    BY <1>2 DEF Pending
  <2>2. k + 1 \in 1..Len(message) /\ wire[1] = message[k + 1]
    BY <1>0, <2>1
  <2>3. Len(wire') = Len(message) - (k + 1)
    BY <1>0, <1>1, <2>1
  <2>4. \A i \in 1..Len(wire') : wire'[i] = message[(k + 1) + i]
    BY <1>0, <1>1, <2>1
  <2>5. QED
    BY <1>0, <1>1, <2>2, <2>3, <2>4 DEF Pending
<1>3. ASSUME Whole
      PROVE  unit = SetCfg(Len(message)) /\ \A n \in Nat : n = 0 => Pending(n)'
  BY <1>0, <1>1, <1>3 DEF Whole, Pending
<1>4. ASSUME Rebooting PROVE \A n \in Nat : n = Len(message) => Pending(n)'
  BY <1>0, <1>1, <1>4 DEF Rebooting, Pending
<1>5. Rebooting' \/ Whole' \/ \E k \in 0..Len(message') : Pending(k)'
  <2>1. CASE Rebooting
    BY <1>0, <1>4, <2>1
  <2>2. CASE Whole
    BY <1>0, <1>3, <2>2
  <2>3. CASE \E k \in 0..Len(message) : Pending(k)
    BY <1>0, <1>2, <2>3
  <2>4. QED
    BY <2>1, <2>2, <2>3 DEF WireInv
<1>6. WireInv'
  BY <1>0, <1>1, <1>5 DEF WireInv
<1>7. QED
  BY <1>1, <1>2, <1>3, <1>6

\* A SETCFG_JSON comes in front of its whole message and tells its length.
LEMMA CommandIsWhole ==
  ASSUME WireInv, Understands("SETCFG_JSON")
  PROVE  Whole /\ unit.n = Len(message)
<1>1. /\ wire # <<>> /\ IsCommand(unit) /\ unit.cmd = "SETCFG_JSON" /\ unit = wire[1]
      /\ message \in Seq(Pair) /\ wire \in Seq(Unit)
  BY HeadTailProperties DEF Understands, Listening, WireInv, unit
<1>2. ~Rebooting
  BY <1>1, CommandsAreNoPairs DEF Rebooting
<1>3. ASSUME NEW k \in 0..Len(message), Pending(k) PROVE FALSE
  <2>1. Len(wire) \in Nat \ {0} /\ Len(message) \in Nat
    BY <1>1
  <2>2. k + 1 \in 1..Len(message) /\ wire[1] = message[k + 1]
    BY <1>3, <2>1 DEF Pending
  <2>3. QED
    BY <1>1, <2>2, CommandsAreNoPairs
<1>4. Whole
  BY <1>2, <1>3 DEF WireInv
<1>5. QED
  BY <1>1, <1>4, CommandsAreNoPairs DEF Whole

-----------------------------------------------------------------------------
(* The invariant is inductive *)

LEMMA BufferIsSeq ==
  /\ Blank \in [1..BufSize -> Cell]
  /\ \A buf \in [1..BufSize -> Cell] : buf \in Seq(Cell) /\ Len(buf) = BufSize
BY BufferAssumption, PairsAreCells DEF Blank

LEMMA InitInv == Init => IInv
<1> SUFFICES ASSUME Init PROVE IInv
  OBVIOUS
<1>1. StoreInv
  BY StoreInit0 DEF Init
<1>2. UartTypeOK
  <2>1. 0 \in 0..BufSize /\ 0 \in 0..MaxMessages
    BY BufferAssumption
  <2>2. QED
    BY <2>1, BufferIsSeq DEF Init, UartTypeOK
<1>3. Pending(0)
  BY DEF Init, Pending
<1>4. WireInv
  <2>1. Len(message) = 0
    BY DEF Init
  <2>2. QED
    BY <1>3, <2>1 DEF Init, WireInv
<1>5. Assembled
  BY DEF Init, Assembled
<1>6. QED
  BY <1>1, <1>2, <1>4, <1>5 DEF IInv

\* A reset forgets the message.
LEMMA ClearInv ==
  ASSUME UartTypeOK, ClearRam, sent' = sent
  PROVE  UartTypeOK' /\ Assembled'
<1>1. 0 \in 0..BufSize
  BY BufferAssumption
<1>2. UartTypeOK'
  BY <1>1, BufferIsSeq DEF ClearRam, UartTypeOK
<1>3. ~(s_jsonNeed' > 0)
  BY DEF ClearRam
<1>4. QED
  BY <1>2, <1>3 DEF Assembled

\* A step that leaves the bridge and the host alone.
LEMMA BridgeStays ==
  ASSUME IInv, UNCHANGED <<uartVars, hostVars>>
  PROVE  UartTypeOK' /\ WireInv' /\ Assembled'
BY DEF IInv, UartTypeOK, WireInv, Rebooting, Whole, Pending, Assembled, uartVars, hostVars

LEMMA StoreStays ==
  ASSUME IInv, UNCHANGED storeVars
  PROVE  StoreInv'
BY DEF IInv, StoreInv, StoreTypeOK, Prepared, Fresh, Saved, FileNeverTorn, storeVars

LEMMA WireStays ==
  ASSUME IInv, UNCHANGED <<wire, message>>
  PROVE  WireInv'
BY DEF IInv, WireInv, Rebooting, Whole, Pending

LEMMA SaveStepInv == ASSUME IInv, Save PROVE IInv'
<1>1. StoreInv' /\ UNCHANGED hostVars
  BY SaveInv DEF IInv, Save
<1>2. CASE pc' = "boot"
  BY <1>1, <1>2, ClearInv, WireStays DEF Save, IInv, hostVars
<1>3. CASE pc' # "boot"
  BY <1>1, <1>3, BridgeStays DEF Save, IInv
<1>4. QED
  BY <1>2, <1>3

LEMMA CrashInv == ASSUME IInv, Crash PROVE IInv'
<1>1. StoreInv'
  BY ResetInv DEF IInv, Crash
<1>2. UartTypeOK' /\ Assembled' /\ WireInv'
  BY ClearInv, WireStays DEF IInv, Crash, hostVars
<1>3. QED
  BY <1>1, <1>2 DEF IInv

LEMMA TextsAreCells == \A text \in Texts : text \in Seq(Pair) /\ text \in Seq(Cell)
<1>1. ASSUME NEW text \in Texts PROVE text \in Seq(Pair) /\ text \in Seq(Cell)
  <2>1. text \in Seq(Pair)
    BY TextsAssumption DEF Pair
  <2>2. QED
    BY <2>1, PairsAreCells
<1>2. QED
  BY <1>1

LEMMA PostInv == ASSUME IInv, Post PROVE IInv'
<1>0. /\ pc = "idle" /\ sent < MaxMessages /\ sent' = sent + 1
      /\ UNCHANGED <<ram, file, tmp, acked, damage, uartVars, wire, message>>
  BY DEF Post
<1>1. PICK body \in Seq(Cell) : StartSave(LoadFromJson(ram, body), "web")
  <2>1. PICK text \in Texts :
           \/ StartSave(LoadFromJson(ram, text), "web")
           \/ \E n \in 1..(Len(text) - 1) :
                StartSave(LoadFromJson(ram, SubSeq(text, 1, n)), "web")
    BY DEF Post
  <2>2. \A n \in 1..(Len(text) - 1) : SubSeq(text, 1, n) \in Seq(Cell)
    BY TextsAreCells
  <2>3. QED
    BY <2>1, <2>2, TextsAreCells
<1>2. ram \in Config
  BY DEF IInv, StoreInv, StoreTypeOK
<1>3. PICK c \in Config : c = LoadFromJson(ram, body)
  BY <1>2, LoadType
<1>4. StoreInv'
  BY <1>0, <1>1, <1>2, <1>3, StartSaveInv DEF IInv
<1>5. WireInv'
  BY <1>0, WireStays
<1>6. UartTypeOK'
  BY <1>0, BufferAssumption DEF IInv, UartTypeOK, uartVars
<1>7. Assembled'
  BY <1>0 DEF IInv, Assembled, Pending, uartVars
<1>8. QED
  BY <1>4, <1>5, <1>6, <1>7 DEF IInv

\* The host only sends when the wire is empty, and no message is then awaited
\* without something having been lost.
LEMMA HostSendsInv ==
  ASSUME IInv, NEW units \in Seq(Unit), HostSends(units), WireInv'
  PROVE  IInv'
<1>1. /\ wire = <<>> /\ sent < MaxMessages /\ sent' = sent + 1
      /\ UNCHANGED <<storeVars, uartVars>>
  BY DEF HostSends
<1>2. StoreInv'
  BY <1>1, StoreStays
<1>3. UartTypeOK'
  BY <1>1, BufferAssumption DEF IInv, UartTypeOK, uartVars
<1>4. s_jsonNeed = 0 \/ overrun
  <2>1. message \in Seq(Pair) /\ Len(message) \in Nat /\ Len(wire) = 0
    BY <1>1 DEF IInv, WireInv
  <2>2. s_jsonNeed \in Nat /\ s_jsonGot \in Nat
        /\ (s_jsonGot < s_jsonNeed \/ s_jsonNeed = 0) /\ overrun \in BOOLEAN
    BY BufferAssumption DEF IInv, UartTypeOK
  <2>3. QED
    BY <2>1, <2>2 DEF IInv, Assembled, Pending
<1>5. Assembled'
  BY <1>1, <1>4 DEF Assembled, uartVars
<1>6. QED
  BY <1>2, <1>3, <1>5 DEF IInv

LEMMA HostInv == ASSUME IInv, HostSetsConfig \/ HostReboots PROVE IInv'
<1>1. CASE HostSetsConfig
  <2>1. PICK text \in Texts : HostSends(<<SetCfg(Len(text))>> \o text) /\ message' = text
    BY <1>1 DEF HostSetsConfig
  <2>2. text \in Seq(Pair) /\ text \in Seq(Unit) /\ SetCfg(Len(text)) \in Unit
    BY TextsAreCells, CommandsAreNoPairs DEF Unit
  <2> DEFINE units == <<SetCfg(Len(text))>> \o text
  <2>3. /\ units \in Seq(Unit) /\ Len(units) = Len(text) + 1
        /\ units[1] = SetCfg(Len(text))
        /\ \A i \in 1..Len(text) : units[i + 1] = text[i]
    BY <2>2
  <2> HIDE DEF units
  <2>4. wire' = units
    BY <2>1 DEF HostSends, units
  <2>5. WireInv'
    BY <2>1, <2>2, <2>3, <2>4 DEF WireInv, Whole
  <2>6. QED
    BY <2>1, <2>3, <2>5, HostSendsInv DEF units
<1>2. CASE HostReboots
  <2>1. HostSends(<<Reboot>>) /\ message' = <<>> /\ wire' = <<Reboot>>
    BY <1>2 DEF HostReboots, HostSends
  <2>2. <<Reboot>> \in Seq(Unit) /\ Len(<<Reboot>>) = 1 /\ <<Reboot>>[1] = Reboot
    BY CommandsAreNoPairs
  <2>3. WireInv'
    BY <2>1, <2>2 DEF WireInv, Rebooting
  <2>4. QED
    BY <2>1, <2>2, <2>3, HostSendsInv
<1>3. QED
  BY <1>1, <1>2

LEMMA OverrunInv == ASSUME IInv, Overrun PROVE IInv'
<1>1. /\ wire # <<>> /\ wire' = Tail(wire) /\ overrun' = TRUE
      /\ UNCHANGED <<storeVars, s_jsonNeed, s_jsonGot, s_jsonBuf, junk, message, sent>>
  BY DEF Overrun
<1>2. WireInv'
  BY <1>1, TailOfWire DEF IInv
<1>3. UartTypeOK' /\ Assembled'
  BY <1>1 DEF IInv, UartTypeOK, Assembled
<1>4. QED
  BY <1>1, <1>2, <1>3, StoreStays DEF IInv

\* The bytes the bridge drops or answers with an error.
LEMMA TickIdleInv == ASSUME IInv, TickJunk \/ TickErrCmd \/ TickErrLen PROVE IInv'
<1>1. /\ wire # <<>> /\ wire' = Tail(wire) /\ UNCHANGED <<message, sent>>
      /\ s_jsonNeed = 0 /\ junk' \in {TRUE, FALSE, junk}
      /\ UNCHANGED <<storeVars, s_jsonNeed, s_jsonGot, s_jsonBuf, overrun>>
  BY DEF TickJunk, TickErrCmd, TickErrLen, Understands, Listening, Received, uartVars
<1>2. WireInv'
  BY <1>1, TailOfWire DEF IInv
<1>3. junk' \in BOOLEAN
  BY <1>1 DEF IInv, UartTypeOK
<1>4. UartTypeOK'
  BY <1>1, <1>3 DEF IInv, UartTypeOK
<1>5. Assembled'
  BY <1>1 DEF Assembled
<1>6. QED
  BY <1>1, <1>2, <1>4, <1>5, StoreStays DEF IInv

LEMMA TickRebootInv == ASSUME IInv, TickReboot PROVE IInv'
<1>1. /\ wire # <<>> /\ wire' = Tail(wire) /\ UNCHANGED <<message, sent>>
      /\ pc = "idle" /\ pc' = "boot" /\ ram' = Default /\ ClearRam
      /\ UNCHANGED <<file, tmp, saving, who, acked, damage>>
  BY DEF TickReboot, Understands, Listening, Received
<1>2. WireInv'
  BY <1>1, TailOfWire DEF IInv
<1>3. UartTypeOK' /\ Assembled'
  BY <1>1, ClearInv DEF IInv
<1>4. StoreInv'
  BY <1>1, ResetInv DEF IInv
<1>5. QED
  BY <1>2, <1>3, <1>4 DEF IInv

LEMMA TickSetCfgInv == ASSUME IInv, TickSetCfg PROVE IInv'
<1>1. /\ wire # <<>> /\ wire' = Tail(wire) /\ UNCHANGED <<message, sent>>
      /\ unit.n \in 1..BufSize /\ s_jsonNeed' = unit.n /\ s_jsonGot' = 0
      /\ UNCHANGED <<storeVars, s_jsonBuf, junk, overrun>>
  BY DEF TickSetCfg, Understands, Listening, Received
<1>2. Whole /\ unit.n = Len(message)
  BY CommandIsWhole DEF IInv, TickSetCfg
<1>3. WireInv' /\ \A n \in Nat : n = 0 => Pending(n)'
  BY <1>1, <1>2, TailOfWire DEF IInv
<1>4. UartTypeOK'
  BY <1>1, BufferAssumption DEF IInv, UartTypeOK
<1>5. Assembled'
  BY <1>1, <1>2, <1>3 DEF Assembled, Pending
<1>6. QED
  BY <1>1, <1>3, <1>4, <1>5, StoreStays DEF IInv

\* A unit of JSON goes to its place.
LEMMA StoredUnit ==
  ASSUME IInv, AwaitsJson, Received
  PROVE  /\ WireInv' /\ Stored \in [1..BufSize -> Cell]
         /\ s_jsonGot \in Nat /\ s_jsonGot + 1 \in 1..BufSize /\ s_jsonGot < s_jsonNeed
         /\ ~overrun =>
              /\ s_jsonNeed = Len(message) /\ s_jsonGot + 1 \in 1..Len(message)
              /\ \A n \in Nat : n = s_jsonGot + 1 => Pending(n)'
              /\ \A i \in 1..(s_jsonGot + 1) : Stored[i] = message[i]
         /\ \A i \in (s_jsonGot + 2)..BufSize : Stored[i] = s_jsonBuf[i]
<1>1. /\ wire # <<>> /\ wire' = Tail(wire) /\ message' = message
      /\ s_jsonNeed > 0
  BY DEF AwaitsJson, Received
<1>2. /\ s_jsonGot \in 0..BufSize /\ s_jsonNeed \in 0..BufSize /\ s_jsonGot < s_jsonNeed
      /\ s_jsonBuf \in [1..BufSize -> Cell] /\ BufSize \in Nat
  BY <1>1, BufferAssumption DEF IInv, UartTypeOK
<1>3. WireInv' /\ AsCell(unit) \in Cell
  BY <1>1, TailOfWire, CommandsAreNoPairs DEF IInv
<1>4. Stored \in [1..BufSize -> Cell]
  BY <1>2, <1>3 DEF Stored
<1>5. s_jsonGot + 1 \in 1..BufSize
  BY <1>2
<1>6. ASSUME ~overrun
      PROVE  /\ s_jsonNeed = Len(message) /\ s_jsonGot + 1 \in 1..Len(message)
             /\ \A n \in Nat : n = s_jsonGot + 1 => Pending(n)'
             /\ \A i \in 1..(s_jsonGot + 1) : Stored[i] = message[i]
  <2>1. /\ s_jsonNeed = Len(message) /\ Pending(s_jsonGot) /\ s_jsonGot \in 0..Len(message)
        /\ \A i \in 1..s_jsonGot : s_jsonBuf[i] = message[i]
    BY <1>1, <1>6 DEF IInv, Assembled, Pending
  <2>2. PICK k \in 0..Len(message) : k = s_jsonGot /\ Pending(k)
    BY <2>1
  <2>3. /\ k + 1 \in 0..Len(message)
        /\ unit = message[k + 1] /\ unit \in Pair
        /\ \A n \in Nat : n = k + 1 => Pending(n)'
    BY <1>1, <2>2, TailOfWire DEF IInv
  <2>4. AsCell(unit) = message[s_jsonGot + 1]
    BY <2>2, <2>3, CommandsAreNoPairs
  <2>5. \A i \in 1..(s_jsonGot + 1) : Stored[i] = message[i]
    BY <1>2, <1>5, <2>1, <2>4 DEF Stored
  <2>6. QED
    BY <1>2, <2>1, <2>2, <2>3, <2>5
<1>7. \A i \in (s_jsonGot + 2)..BufSize : Stored[i] = s_jsonBuf[i]
  BY <1>2 DEF Stored
<1>8. QED
  BY <1>2, <1>3, <1>4, <1>5, <1>6, <1>7

LEMMA TickJsonInv == ASSUME IInv, TickJson PROVE IInv'
<1>1. /\ AwaitsJson /\ Received /\ s_jsonGot + 1 < s_jsonNeed /\ sent' = sent
      /\ s_jsonBuf' = Stored /\ s_jsonGot' = s_jsonGot + 1 /\ message' = message
      /\ UNCHANGED <<storeVars, s_jsonNeed, junk, overrun>>
  BY DEF TickJson, Received
<1>2. /\ WireInv' /\ Stored \in [1..BufSize -> Cell]
      /\ s_jsonGot \in Nat /\ s_jsonGot + 1 \in 1..BufSize
      /\ ~overrun =>
           /\ s_jsonNeed = Len(message)
           /\ \A n \in Nat : n = s_jsonGot + 1 => Pending(n)'
           /\ \A i \in 1..(s_jsonGot + 1) : Stored[i] = message[i]
  BY <1>1, StoredUnit
<1>3. UartTypeOK'
  BY <1>1, <1>2, BufferAssumption DEF IInv, UartTypeOK
<1>4. Assembled'
  <2>1. PICK n \in Nat : n = s_jsonGot'
    BY <1>1, <1>2
  <2>2. ~overrun => Pending(n)'
    BY <1>1, <1>2, <2>1
  <2>3. QED
    BY <1>1, <1>2, <2>1, <2>2 DEF Assembled, Pending
<1>5. QED
  BY <1>1, <1>2, <1>3, <1>4, StoreStays DEF IInv

LEMMA TextInBuffer ==
  ASSUME NEW buf \in [1..BufSize -> Cell], NEW more \in Behind(buf)
  PROVE  buf \o more \in Seq(Cell)
<1>1. more \in Seq(Cell)
  <2>1. more = <<>> \/ \E cell \in Pair : more = <<cell>>
    BY ValuesAssumption DEF Behind, Pair
  <2>2. \A cell \in Cell : <<cell>> \in Seq(Cell)
    OBVIOUS
  <2>3. <<>> \in Seq(Cell)
    OBVIOUS
  <2>4. QED
    BY <2>1, <2>2, <2>3, PairsAreCells
<1>2. QED
  BY <1>1, BufferIsSeq

LEMMA TickLastJsonInv == ASSUME IInv, TickLastJson PROVE IInv'
<1>1. /\ AwaitsJson /\ Received /\ pc = "idle" /\ sent' = sent
      /\ s_jsonBuf' = Stored /\ s_jsonNeed' = 0 /\ s_jsonGot' = 0
      /\ StartSave(ram', "uart")
      /\ UNCHANGED <<file, tmp, acked, damage, junk, overrun>>
  BY DEF TickLastJson, Received, AwaitsJson
<1>2. WireInv' /\ Stored \in [1..BufSize -> Cell]
  BY <1>1, StoredUnit
<1>3. PICK more \in Behind(Stored) : ram' = LoadFromJson(ram, Stored \o more)
  BY <1>1 DEF TickLastJson
<1>4. ram' \in Config
  BY <1>2, <1>3, TextInBuffer, LoadType DEF IInv, StoreInv, StoreTypeOK
<1>5. PICK c \in Config : c = ram'
  BY <1>4
<1>6. StartSave(c, "uart")
  BY <1>1, <1>5 DEF StartSave
<1>7. StoreInv'
  BY <1>1, <1>4, <1>6, StartSaveInv DEF IInv
<1>8. UartTypeOK' /\ Assembled'
  BY <1>1, <1>2, BufferAssumption DEF IInv, UartTypeOK, Assembled
<1>9. QED
  BY <1>2, <1>7, <1>8 DEF IInv

LEMMA NextInv == IInv /\ [Next]_vars => IInv'
<1> SUFFICES ASSUME IInv, [Next]_vars PROVE IInv'
  OBVIOUS
<1>1. CASE Start
  BY <1>1, BootInv, BridgeStays DEF Start, IInv
<1>2. CASE UNCHANGED vars
  BY <1>2, StoreStays, BridgeStays DEF vars, IInv
<1>3. CASE Tick
  BY <1>3, TickIdleInv, TickRebootInv, TickSetCfgInv, TickJsonInv, TickLastJsonInv DEF Tick
<1>4. QED
  BY <1>1, <1>2, <1>3, SaveStepInv, CrashInv, PostInv, HostInv, OverrunInv DEF Next

-----------------------------------------------------------------------------
(* What follows *)

THEOREM Invariance == Spec => []IInv
<1>1. Init => IInv
  BY InitInv
<1>2. IInv /\ [Next]_vars => IInv'
  BY NextInv
<1>3. QED
  BY <1>1, <1>2, PTL DEF Spec

\* The state keeps its type; s_jsonGot stays inside s_jsonBuf.
THEOREM TypeCorrect == Spec => []TypeOK
<1>1. IInv => TypeOK
  BY TypeFromInv
<1>2. QED
  BY <1>1, Invariance, PTL

\* A configuration a user was told is saved outlives every reset and failing
\* call but the three lossy events.
THEOREM SavedStaysSaved == Spec => []SavedSurvives
BY Invariance, SavedFromInv, PTL

\* The file is never half written unless f_close failed unnoticed.
THEOREM NeverTorn == Spec => []FileNeverTorn
BY Invariance, PTL DEF IInv, StoreInv

\* What takes effect is the message that was sent, if no unit of it was lost
\* and the buffer held nothing behind it.
THEOREM BridgeExact == Spec => MessageExact
<1>1. ASSUME IInv, [Next]_vars
      PROVE  (LoadsMessage /\ ~overrun /\ (\E i \in 1..BufSize : s_jsonBuf'[i] = NUL)
              /\ (\A i \in (Len(message) + 1)..BufSize : s_jsonBuf'[i] = NUL)
              => ram' = LoadFromJson(ram, message)) \/ UNCHANGED vars
  <2> SUFFICES ASSUME LoadsMessage, ~overrun, Next, \E i \in 1..BufSize : s_jsonBuf'[i] = NUL,
                      \A i \in (Len(message) + 1)..BufSize : s_jsonBuf'[i] = NUL
               PROVE  ram' = LoadFromJson(ram, message)
    BY <1>1
  <2>1. TickLastJson
    <3>0. s_jsonNeed > 0 /\ s_jsonNeed' = 0 /\ pc' = "open"
      BY DEF LoadsMessage
    <3>1. ~(UNCHANGED s_jsonNeed) /\ pc' # "boot"
      BY <3>0
    <3>2. ~Start /\ ~Save /\ ~Crash /\ ~Post
      BY <3>1 DEF Start, Save, Crash, Post, uartVars
    <3>3. ~HostSetsConfig /\ ~HostReboots /\ ~Overrun
      BY <3>1 DEF HostSetsConfig, HostReboots, HostSends, Overrun, uartVars
    <3>4. ~TickJunk /\ ~TickErrCmd /\ ~TickErrLen /\ ~TickReboot /\ ~TickJson
      BY <3>1 DEF TickJunk, TickErrCmd, TickErrLen, TickReboot, TickJson, uartVars
    <3>5. ~TickSetCfg
      BY <3>0 DEF TickSetCfg, Understands, Listening
    <3>6. QED
      BY <3>2, <3>3, <3>4, <3>5 DEF Next, Tick
  <2>2. /\ AwaitsJson /\ Received /\ s_jsonBuf' = Stored /\ s_jsonGot + 1 >= s_jsonNeed
    BY <2>1 DEF TickLastJson
  <2>3. /\ Stored \in [1..BufSize -> Cell]
        /\ s_jsonGot \in Nat /\ s_jsonGot < s_jsonNeed /\ s_jsonGot + 1 \in 1..BufSize
        /\ s_jsonNeed = Len(message)
        /\ \A i \in 1..(s_jsonGot + 1) : Stored[i] = message[i]
    BY <1>1, <2>2, StoredUnit
  <2>4. Len(message) = s_jsonGot + 1 /\ message \in Seq(Pair)
    BY <1>1, <2>2, <2>3 DEF IInv, WireInv
  <2>5. PICK more \in Behind(Stored) : ram' = LoadFromJson(ram, Stored \o more)
    BY <2>1 DEF TickLastJson
  <2>6. more = <<>>
    BY <2>2, <2>5 DEF Behind
  <2>7. Stored \in Seq(Cell) /\ Len(Stored) = BufSize
    BY <2>3, BufferIsSeq
  <2>8. Stored \o more = Stored
    BY <2>6, <2>7
  <2>9. ram \in Config
    BY <1>1 DEF IInv, StoreInv, StoreTypeOK
  <2>10. LoadFromJson(ram, Stored) = LoadFromJson(ram, message)
    BY <2>2, <2>3, <2>4, <2>7, <2>9, LoadStopsAtNul, BufferAssumption
  <2>11. QED
    BY <2>5, <2>8, <2>10
<1>2. QED
  BY <1>1, Invariance, PTL DEF Spec, MessageExact
=============================================================================
