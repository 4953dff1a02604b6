---------------------------- MODULE StoreForward ----------------------------
(***************************************************************************)
(* The telemetry pipeline of App::run (Core/Src/app.cpp): every fresh      *)
(* reading is appended to the backup file of its channel, and              *)
(* App::retransmitBackup drains the files, one chunk at a time, through    *)
(* ChannelManager::sendData, which appends a chunk nobody took to the file *)
(* selected at that moment.                                                *)
(*                                                                         *)
(* The measurements written to the file of channel c are numbered 1, 2, ...*)
(* in order: taken[c] of them have been written.  got[c] is the set of     *)
(* those the server has received.  Both are history variables; the code    *)
(* keeps neither.                                                          *)
(*                                                                         *)
(* The program is one thread: the only thing that interleaves with its     *)
(* steps is a reset, so a step is what runs between two points at which a  *)
(* reset or a failing call makes a difference.                             *)
(***************************************************************************)
EXTENDS SdBackup

CONSTANTS
  MaxMeas,       \* bound: measurements written per channel
  MaxSize        \* bound: a test send may only save to a file shorter than this

ASSUME BoundsAssumption == MaxMeas \in Nat /\ MaxSize \in Nat

VARIABLES
  pc,        \* where App::run is
  idx,       \* the loop index: the channel being written, the file being sent
  lines,     \* the number of whole lines of the chunk being sent
  ended,     \* how that chunk ends
  caller,    \* the pc retransmitBackup returns to
  sdOk,      \* App::m_sdOk
  anyFail,   \* anyWriteFail of this poll
  taken,
  got

appVars == <<pc, idx, lines, ended, caller, sdOk, anyFail, taken, got>>
vars == <<sdVars, appVars>>

PCs == {"boot", "poll", "periodic", "test", "retry", "iridium", "rest",
        "scan", "read", "send", "consume", "unlink", "rename"}

Init ==
  /\ SdInit
  /\ pc = "boot"
  /\ idx = 0
  /\ lines = 0
  /\ ended = "line"
  /\ caller = "rest"
  /\ sdOk = FALSE
  /\ anyFail = FALSE
  /\ taken = [c \in Files |-> 0]
  /\ got = [c \in Files |-> {}]

-----------------------------------------------------------------------------
(* Boot and reset *)

\* App::init: select backup.jsn, mount the card, enter the main loop.
Boot ==
  /\ pc = "boot"
  /\ filename' = 0
  /\ Mount
  /\ sdOk' = mounted'
  /\ pc' = "poll"
  /\ idx' = 1
  /\ UNCHANGED <<lines, ended, caller, anyFail, taken, got>>

\* The watchdog bites or the power goes: what is on the card stays.
Crash ==
  /\ "crash" \in Faults
  /\ pc # "boot"
  /\ pc = "rename" => "window" \in Faults
  /\ pc' = "boot"
  /\ idx' = 0 /\ lines' = 0 /\ ended' = "line" /\ caller' = "rest"
  /\ sdOk' = FALSE /\ anyFail' = FALSE
  /\ mounted' = FALSE /\ broken' = FALSE /\ filename' = 0
  /\ damage' = IF pc = "rename" THEN damage \union {"window"} ELSE damage
  /\ UNCHANGED <<content, present, staged, taken, got>>

-----------------------------------------------------------------------------
(* Poll: write each fresh reading to the file of its channel *)

PollStep(c) ==
  /\ pc = "poll" /\ idx = c /\ sdOk
  /\ filename' = c
  /\ idx' = idx + 1
  /\ UNCHANGED <<pc, lines, ended, caller, sdOk, got>>

PollStore ==
  \E c \in 1..Channels :
    /\ PollStep(c)
    /\ taken[c] < MaxMeas
    /\ AppendLine(c, Record(taken[c] + 1))
    /\ taken' = [taken EXCEPT ![c] = @ + 1]
    /\ UNCHANGED anyFail

PollStoreFails ==
  \E c \in 1..Channels :
    /\ PollStep(c)
    /\ AppendFails(c, Record(taken[c] + 1))
    /\ anyFail' = TRUE
    /\ UNCHANGED taken

\* f_sync fails after the whole line reached the card: it is written and
\* appendLine still reports failure.
PollStoreUnsynced ==
  \E c \in 1..Channels :
    /\ "append" \in Faults
    /\ PollStep(c)
    /\ taken[c] < MaxMeas
    /\ AppendLine(c, Record(taken[c] + 1))
    /\ taken' = [taken EXCEPT ![c] = @ + 1]
    /\ anyFail' = TRUE

\* No fresh valid reading of this channel in this cycle, or no usable card.
PollSkip ==
  /\ pc = "poll" /\ idx \in 1..Channels
  /\ idx' = idx + 1
  /\ UNCHANGED <<sdVars, pc, lines, ended, caller, sdOk, anyFail, taken, got>>

PollDone ==
  /\ pc = "poll" /\ idx = Channels + 1
  /\ sdOk' = (sdOk /\ ~anyFail)
  /\ anyFail' = FALSE
  /\ pc' = "periodic"
  /\ UNCHANGED <<sdVars, idx, lines, ended, caller, taken, got>>

-----------------------------------------------------------------------------
(* The rest of the loop body: the periodic send, the test send, the two     *)
(* retry timers, and the wait.  Which timers are due is left open.          *)

Goto(from, to) ==
  /\ pc = from
  /\ pc' = to
  /\ UNCHANGED <<sdVars, idx, lines, ended, caller, sdOk, anyFail, taken, got>>

\* Mutant: the drain starts with the first channel and forgets backup.jsn.
CallRetransmitChannels(from, return) ==
  /\ pc = from
  /\ pc' = "scan"
  /\ idx' = 1
  /\ caller' = return
  /\ UNCHANGED <<lines, ended, sdOk, anyFail, taken, got>>

CallRetransmit(from, return) ==
  /\ pc = from
  /\ pc' = "scan"
  /\ idx' = 0
  /\ caller' = return
  /\ UNCHANGED <<lines, ended, sdOk, anyFail, taken, got>>

PeriodicSend == CallRetransmit("periodic", "test") /\ UNCHANGED sdVars
PeriodicSkip == Goto("periodic", "test")
TestSkip     == Goto("test", "retry")

\* anyBackupExists leaves the first file that exists selected, or the last one.
ProbeBackups ==
  /\ \E f \in Files :
       /\ Exists(f) \/ f = Channels
       /\ \A e \in Files : e < f => ~Exists(e)
       /\ filename' = f
  /\ UNCHANGED <<content, present, staged, mounted, broken, damage>>

RetrySend ==
  /\ \E f \in Files : Exists(f)
  /\ CallRetransmit("retry", "iridium")
  /\ ProbeBackups

RetrySkip ==
  /\ pc = "retry"
  /\ pc' = IF \E f \in Files : Exists(f) THEN "iridium" ELSE "rest"
  /\ ProbeBackups
  /\ UNCHANGED <<idx, lines, ended, caller, sdOk, anyFail, taken, got>>

IridiumSend == CallRetransmit("iridium", "rest") /\ UNCHANGED sdVars
IridiumSkip == Goto("iridium", "rest")

\* App::runTestSend, from the loop body or from the web and debug waits: its
\* payload is no measurement of a channel, and a failure saves it to a file.
TestSend ==
  /\ pc \in {"test", "rest"}
  /\ pc' = IF pc = "test" THEN "retry" ELSE pc
  /\ \/ UNCHANGED sdVars
     \/ /\ Size(content[filename], Len(content[filename])) < MaxSize
        /\ \/ AppendLine(filename, Foreign)
           \/ AppendFails(filename, Foreign)
        /\ UNCHANGED filename
  /\ UNCHANGED <<idx, lines, ended, caller, sdOk, anyFail, taken, got>>

NextPoll ==
  /\ pc = "rest"
  /\ pc' = "poll"
  /\ idx' = 1
  /\ UNCHANGED <<lines, ended, caller, sdOk, anyFail, taken, got>>

Wait == NextPoll /\ UNCHANGED sdVars

\* PowerManager::enterStopMode unmounts the card and mounts it again.
Sleep == NextPoll /\ Mount /\ UNCHANGED filename

-----------------------------------------------------------------------------
(* App::retransmitBackup *)

Return ==
  /\ pc' = caller
  /\ UNCHANGED <<idx, caller, sdOk, anyFail, taken>>

\* Mutant: the first file that is missing ends the whole transfer.
ScanExisting ==
  /\ pc = "scan" /\ idx \in Files
  /\ filename' = idx
  /\ \/ Exists(idx) /\ pc' = "read" /\ UNCHANGED idx
     \/ ~Exists(idx) /\ pc' = caller /\ UNCHANGED idx
  /\ UNCHANGED <<content, present, staged, mounted, broken, damage>>
  /\ UNCHANGED <<lines, ended, caller, sdOk, anyFail, taken, got>>

\* The for loop and the while (exists()) loop inside it: go on with this file
\* while it exists, else with the next.
ScanFile ==
  /\ pc = "scan" /\ idx \in Files
  /\ filename' = idx
  /\ \/ Exists(idx) /\ pc' = "read" /\ UNCHANGED idx
     \/ ~Exists(idx) /\ idx' = idx + 1 /\ UNCHANGED pc
  /\ UNCHANGED <<content, present, staged, mounted, broken, damage>>
  /\ UNCHANGED <<lines, ended, caller, sdOk, anyFail, taken, got>>

ScanDone ==
  /\ pc = "scan" /\ idx = Channels + 1
  /\ Return
  /\ UNCHANGED <<sdVars, lines, ended, got>>

ReadChunk ==
  /\ pc = "read"
  /\ \E n \in 1..Len(content[idx]) : IsChunk(content[idx], n) /\ lines' = n
  /\ ended' = "line"
  /\ pc' = "send"
  /\ UNCHANGED <<sdVars, idx, caller, sdOk, anyFail, taken, got>>

\* f_gets fails once it has returned something: the loop ends as it does at the
\* end of the file, and what was collected is a chunk.
ReadBreaks(kind) ==
  /\ kind \in Faults
  /\ pc = "read"
  /\ damage' = damage \union {kind}
  /\ pc' = "send"
  /\ UNCHANGED <<content, present, staged, mounted, broken, filename>>
  /\ UNCHANGED <<idx, caller, sdOk, anyFail, taken, got>>

\* Between two lines, or at the end of line of the last.
ReadShort ==
  /\ ReadBreaks("short")
  /\ \E n \in 1..Len(content[idx]) :
       /\ Fits(content[idx], n)
       /\ lines' = n
       /\ ended' = IF n = Len(content[idx]) THEN "text" ELSE "line"

\* Inside a line, of which f_gets returned the beginning.
ReadCut ==
  /\ ReadBreaks("cut")
  /\ \E n \in 0..(Len(content[idx]) - 1) :
       /\ Fits(content[idx], n)
       /\ lines' = n
  /\ ended' = "cut"

\* Mutant: the next file is read without asking whether there is one.
ReadNext ==
  /\ pc = "read"
  /\ content[idx] = <<>> \/ "read" \in Faults
  /\ idx' = idx + 1
  /\ UNCHANGED <<sdVars, pc, lines, ended, caller, sdOk, anyFail, taken, got>>

\* A file that cannot be opened, or of which no line can be read, is left for
\* the next call.
ReadFails ==
  /\ pc = "read"
  /\ content[idx] = <<>> \/ "read" \in Faults
  /\ idx' = idx + 1
  /\ pc' = "scan"
  /\ UNCHANGED <<sdVars, lines, ended, caller, sdOk, anyFail, taken, got>>

Chunk == IdsUpTo(content[idx], lines)

Deliver == got' = [got EXCEPT ![idx] = @ \union Chunk]

\* A chunk with a piece of a line at its end is acknowledged like any other; the
\* server may read what comes before the piece, or nothing.
SendOk ==
  /\ pc = "send"
  /\ Deliver \/ (ended = "cut" /\ UNCHANGED got)
  /\ pc' = "consume"
  /\ UNCHANGED <<sdVars, idx, lines, ended, caller, sdOk, anyFail, taken>>

\* sendViaIridium transmits the last value only and still answers 200, and a
\* POST over the modem may be answered with the status of an earlier one
\* (Acknowledged of ModemSend).
SendHollow ==
  /\ pc = "send"
  /\ "hollow" \in Faults
  /\ damage' = damage \union {"hollow"}
  /\ pc' = "consume"
  /\ UNCHANGED <<content, present, staged, mounted, broken, filename>>
  /\ UNCHANGED <<idx, lines, ended, caller, sdOk, anyFail, taken, got>>

\* Mutant: the result of sendData is ignored and the chunk consumed.
SendIgnored ==
  /\ pc = "send"
  /\ LET line == ChunkLine(content[idx], lines, ended) IN
       AppendLine(filename, line) \/ AppendFails(filename, line)
  /\ pc' = "consume"
  /\ UNCHANGED <<filename, idx, lines, ended, caller, sdOk, anyFail, taken, got>>

\* Every channel failed: sendData appends the chunk to the selected file, if
\* it is short enough to be a line, and retransmitBackup gives up.
SendFails ==
  /\ pc = "send"
  /\ \/ UNCHANGED got
     \/ "lostAck" \in Faults /\ Deliver
  /\ LET line == ChunkLine(content[idx], lines, ended) IN
       AppendLine(filename, line) \/ AppendFails(filename, line)
  /\ UNCHANGED filename
  /\ Return
  /\ lines' = 0
  /\ ended' = "line"

\* consumePrefix.  Whatever it returns, the loop goes on with exists().
Consumed ==
  /\ pc' = "scan"
  /\ lines' = 0
  /\ ended' = "line"
  /\ UNCHANGED <<filename, idx, caller, sdOk, anyFail, taken, got>>

ConsumeStep(from, to) ==
  /\ pc = from
  /\ pc' = to
  /\ UNCHANGED <<filename, idx, lines, ended, caller, sdOk, anyFail, taken, got>>

\* The chunk reaches to the last byte of the file.
WholeFile == lines = Len(content[idx]) /\ ended = "line"

ConsumeAll ==
  /\ pc = "consume" /\ WholeFile
  /\ UnlinkAll(idx)
  /\ Consumed

ConsumeCopy ==
  /\ pc = "consume" /\ ~WholeFile
  /\ CopyTail(idx, lines, ended) \/ CopyUnclosed(idx)
  /\ ConsumeStep("consume", "unlink")

\* The source cannot be opened, unlinked or copied: the file stays.
ConsumeFails ==
  /\ pc = "consume"
  /\ "copy" \in Faults \/ (WholeFile /\ "unlink" \in Faults)
  /\ UNCHANGED <<content, present, staged, mounted, broken, damage>>
  /\ Consumed

ConsumeUnlink ==
  /\ ConsumeStep("unlink", "rename")
  /\ UnlinkAll(idx)

ConsumeUnlinkFails == pc = "unlink" /\ UnlinkFails(idx) /\ Consumed
ConsumeRename      == pc = "rename" /\ RenameTmp(idx)   /\ Consumed
ConsumeRenameFails == pc = "rename" /\ RenameFails(idx) /\ Consumed

-----------------------------------------------------------------------------
Poll == PollStore \/ PollStoreFails \/ PollStoreUnsynced \/ PollSkip \/ PollDone

LoopBody ==
  \/ PeriodicSend \/ PeriodicSkip
  \/ TestSend \/ TestSkip
  \/ RetrySend \/ RetrySkip
  \/ IridiumSend \/ IridiumSkip
  \/ Wait \/ Sleep

Consume ==
  \/ ConsumeAll \/ ConsumeCopy \/ ConsumeFails
  \/ ConsumeUnlink \/ ConsumeUnlinkFails
  \/ ConsumeRename \/ ConsumeRenameFails

Retransmit ==
  \/ ScanFile \/ ScanDone
  \/ ReadChunk \/ ReadShort \/ ReadCut \/ ReadFails
  \/ SendOk \/ SendHollow \/ SendFails
  \/ Consume

Next == Boot \/ Crash \/ Poll \/ LoopBody \/ Retransmit

Spec == Init /\ [][Next]_vars

\* The loop never stops for good (the watchdog resets a program that does),
\* the send timer fires and the browser leaves now and then, and a channel
\* that is tried again and again carries a chunk in the end.
FairSpec ==
  /\ Spec
  /\ WF_vars(Boot \/ Poll \/ Retransmit)
  /\ WF_vars(LoopBody)
  /\ WF_vars(Wait)
  /\ SF_vars(PeriodicSend)
  /\ SF_vars(SendOk)

-----------------------------------------------------------------------------
(* Properties *)

\* The type invariant.  The server only has measurements that were written,
\* and the loop index is a file wherever the code uses it as one.
TypeOK ==
  /\ SdTypeOK
  /\ pc \in PCs
  /\ idx \in 0..(Channels + 1)
  /\ lines \in Nat
  /\ ended \in Ends
  /\ caller \in {"test", "iridium", "rest"}
  /\ sdOk \in BOOLEAN
  /\ anyFail \in BOOLEAN
  /\ taken \in [Files -> Nat]
  /\ got \in [Files -> SUBSET Nat]
  /\ pc \in {"read", "send", "consume", "unlink", "rename"} => idx \in Files

\* What the card still holds of file f.  Between f_unlink and f_rename that is
\* the copy in the .tmp file, which the running program is about to rename.
Held(f) == IF pc = "rename" /\ idx = f THEN staged[f] ELSE content[f]

\* Every measurement written to the card has reached the server or is still
\* on the card.
NothingLost ==
  \A c \in Files : \A id \in 1..taken[c] :
    id \in got[c] \/ id \in Ids(Held(c))

\* None of the lossy events happened: a rotation, a torn line, a read error
\* inside a line of a chunk, a failed close or rename of a copy, a reset between
\* unlink and rename, a hollow success.
Intact == damage \subseteq {"short"}

\* ... as long as no lossy event happened.  Any other failing call or reset, at
\* any point, costs no data.
NoSilentLoss == Intact => NothingLost

\* Without such an event the server receives the measurements of a channel in
\* the order they were made: when one arrives, all earlier ones have.
DeliveredInOrder ==
  Intact => \A c \in Files : \A id \in got[c] : 1..id \subseteq got[c]

\* README.md:95, the files are drained strictly one after the other: when a chunk
\* of a file goes out, nothing is left in the files before it.
SequentialDrain ==
  pc = "send" => \A f \in Files : f < idx => content[f] = <<>>

\* No torn line, and no chunk that a read error ended before it was full.
Unbroken == damage \intersect {"torn", "short", "cut"} = {}

\* README.md:95, lines that are deleted are not sent again: a line saved by a
\* failed send is always deleted together with the lines it repeats.  A torn line
\* may grow to any length and part the two, and so may a read error that ends a
\* chunk before it is full.
ConsumedForGood ==
  Unbroken /\ pc = "consume" =>
    LET s == content[idx] IN
    \A i \in 1..lines, j \in (lines + 1)..Len(s) : s[i].ids \intersect s[j].ids = {}

\* What the pipeline promises to the outside is the abstract measurement log:
\* the server holds a prefix of what was taken until a lossy event spoils it,
\* and it never loses or invents anything.
Log == INSTANCE MeasurementLog WITH Sources <- Files, intact <- Intact
ImplementsLog == Log!Spec

\* A measurement on the card reaches the server in the end.
EveryMeasurementDelivered ==
  \A c \in Files : \A id \in 1..MaxMeas : taken[c] >= id ~> id \in got[c]

=============================================================================
