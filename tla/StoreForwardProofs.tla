------------------------- MODULE StoreForwardProofs -------------------------
(***************************************************************************)
(* Type correctness of StoreForward and the theorem that no measurement is *)
(* lost without a lossy event, for every number of channels, every size    *)
(* limit and every set of faults.                                          *)
(***************************************************************************)
EXTENDS StoreForward, TLAPS

-----------------------------------------------------------------------------
(* Lines, chunks and files *)

\* The records and chunks the code writes are lines.
LEMMA LinesAreLines ==
  /\ \A id \in Nat : Record(id) \in Line
  /\ Foreign \in Line
  /\ TornPiece \in Line
BY DEF Record, Foreign, TornPiece, Line, Kinds

\* Emptying a file leaves files.
LEMMA EmptyFile ==
  ASSUME NEW F, NEW g \in [F -> Seq(Line)], NEW f
  PROVE  [g EXCEPT ![f] = <<>>] \in [F -> Seq(Line)]
<1>1. <<>> \in Seq(Line)
  OBVIOUS
<1>2. \A e \in F : [g EXCEPT ![f] = <<>>][e] \in Seq(Line)
  BY <1>1
<1>3. QED
  BY <1>1, <1>2

\* Measurements are numbered.
LEMMA IdsAreNumbers ==
  ASSUME NEW s \in Seq(Line), NEW n \in 0..Len(s)
  PROVE  IdsUpTo(s, n) \subseteq Nat
<1>1. ASSUME NEW i \in 1..n PROVE s[i].ids \subseteq Nat
  <2>1. i \in 1..Len(s)
    OBVIOUS
  <2>2. s[i] \in Line
    BY <2>1
  <2>3. QED
    BY <2>2 DEF Line
<1>2. QED
  BY <1>1 DEF IdsUpTo

\* A chunk is a line once its length has been found acceptable.
LEMMA ChunkIsLine ==
  ASSUME NEW s \in Seq(Line), NEW n \in 0..Len(s), NEW end \in Ends,
         ChunkLine(s, n, end).len \in Nat
  PROVE  ChunkLine(s, n, end) \in Line
BY IdsAreNumbers DEF ChunkLine, Line, Kinds

\* What is left of a file once a chunk is dropped.
LEMMA RemainderType ==
  ASSUME NEW s \in Seq(Line), NEW n \in 0..Len(s), NEW end \in Ends,
         end = "cut" => n < Len(s)
  PROVE  /\ Remainder(s, n, end) \in Seq(Line)
         /\ end # "cut" => Remainder(s, n, end) = SubSeq(s, n + 1, Len(s))
<1> DEFINE t == SubSeq(s, n + 1, Len(s))
<1>1. t \in Seq(Line) /\ Len(t) = Len(s) - n
  OBVIOUS
<1>2. ASSUME end = "cut" PROVE [t EXCEPT ![1] = RestOf(t[1])] \in Seq(Line)
  <2> HIDE DEF t
  <2>1. 1 \in 1..Len(t)
    BY <1>1, <1>2
  <2>2. t[1] \in Line
    BY <1>1, <2>1
  <2>3. RestOf(t[1]) \in Line
    BY <2>2 DEF RestOf, Line, Kinds
  <2> DEFINE r == RestOf(t[1])
  <2>4. r \in Line
    BY <2>3
  <2> HIDE DEF r
  <2>5. [t EXCEPT ![1] = r] \in Seq(Line)
    BY <1>1, <2>1, <2>4
  <2>6. QED
    BY <2>5 DEF r
<1>3. QED
  BY <1>1, <1>2 DEF Remainder

\* Writing to a file leaves a sequence of lines.
LEMMA WriteType ==
  ASSUME NEW s \in Seq(Line), NEW line \in Line
  PROVE  Write(s, line) \in Seq(Line)
<1>1. CASE EndsTorn(s)
  <2>1. Len(s) \in 1..Len(s) /\ s[Len(s)] \in Line
    BY <1>1 DEF EndsTorn
  <2> DEFINE garbled == [ids |-> {}, len |-> s[Len(s)].len + line.len,
                         kind |-> IF line.kind = "torn" THEN "torn" ELSE "garbled"]
  <2>2. garbled \in Line
    BY <2>1 DEF Line, Kinds
  <2>3. [s EXCEPT ![Len(s)] = garbled] \in Seq(Line)
    BY <2>1, <2>2
  <2>4. QED
    BY <1>1, <2>3 DEF Write
<1>2. CASE ~EndsTorn(s)
  BY <1>2 DEF Write
<1>3. QED
  BY <1>1, <1>2

\* Appending a line adds its measurements and no others.
LEMMA IdsOfAppend ==
  ASSUME NEW s \in Seq(Line), NEW line \in Line
  PROVE  Ids(Append(s, line)) = Ids(s) \union line.ids
<1> DEFINE t == Append(s, line)
<1>1. /\ t \in Seq(Line) /\ Len(t) = Len(s) + 1 /\ Len(s) \in Nat
      /\ \A i \in 1..Len(s) : t[i] = s[i]
      /\ t[Len(t)] = line
  OBVIOUS
<1>2. ASSUME NEW x \in Ids(t) PROVE x \in Ids(s) \union line.ids
  <2>1. PICK i \in 1..Len(t) : x \in t[i].ids
    BY <1>2 DEF Ids, IdsUpTo
  <2>2. i \in 1..Len(s) \/ i = Len(t)
    BY <1>1, <2>1
  <2>3. QED
    BY <1>1, <2>1, <2>2 DEF Ids, IdsUpTo
<1>3. ASSUME NEW x \in Ids(s) \union line.ids PROVE x \in Ids(t)
  <2>1. CASE x \in Ids(s)
    <3>1. PICK i \in 1..Len(s) : x \in s[i].ids
      BY <2>1 DEF Ids, IdsUpTo
    <3>2. i \in 1..Len(t) /\ x \in t[i].ids
      BY <1>1, <3>1
    <3>3. QED
      BY <3>2 DEF Ids, IdsUpTo
  <2>2. CASE x \in line.ids
    <3>1. Len(t) \in 1..Len(t) /\ x \in t[Len(t)].ids
      BY <1>1, <2>2
    <3>2. QED
      BY <3>1 DEF Ids, IdsUpTo
  <2>3. QED
    BY <1>3, <2>1, <2>2
<1>4. QED
  BY <1>2, <1>3

\* The measurements of a file are those of its first n lines and of the rest.
LEMMA IdsOfTail ==
  ASSUME NEW s \in Seq(Line), NEW n \in 0..Len(s)
  PROVE  /\ SubSeq(s, n + 1, Len(s)) \in Seq(Line)
         /\ \A x \in Ids(s) : x \in IdsUpTo(s, n) \/ x \in Ids(SubSeq(s, n + 1, Len(s)))
<1> DEFINE t == SubSeq(s, n + 1, Len(s))
<1>1. /\ t \in Seq(Line) /\ Len(t) = Len(s) - n
      /\ \A i \in 1..Len(t) : t[i] = s[n + i]
  OBVIOUS
<1>2. ASSUME NEW x \in Ids(s) PROVE x \in IdsUpTo(s, n) \/ x \in Ids(t)
  <2>1. PICK i \in 1..Len(s) : x \in s[i].ids
    BY <1>2 DEF Ids, IdsUpTo
  <2>2. CASE i \in 1..n
    BY <2>1, <2>2 DEF IdsUpTo
  <2>3. CASE i \in (n + 1)..Len(s)
    <3>1. i - n \in 1..Len(t) /\ t[i - n] = s[i]
      BY <1>1, <2>3
    <3>2. QED
      BY <2>1, <3>1 DEF Ids, IdsUpTo
  <2>4. QED
    BY <2>1, <2>2, <2>3
<1>3. QED
  BY <1>1, <1>2

-----------------------------------------------------------------------------
(* The inductive invariant *)

\* The chunk being sent or consumed is a prefix of the file it was read from, and
\* only a read error lets it end inside a line.
Sending ==
  pc \in {"send", "consume", "unlink"} =>
    IF ended = "cut"
    THEN lines \in 0..(Len(content[idx]) - 1) /\ "cut" \in damage
    ELSE lines \in 1..Len(content[idx])

\* When the old file is about to be unlinked, its tail is in the copy.
Staging ==
  Intact /\ pc = "unlink" => staged[idx] = Remainder(content[idx], lines, ended)

\* What is being consumed has been received.
Received == Intact /\ pc \in {"consume", "unlink"} => Chunk \subseteq got[idx]

\* No file ends in the middle of a line.
Clean == Intact => \A f \in Files : ~EndsTorn(Held(f))

TypeInv == TypeOK /\ Sending
SafeInv == Staging /\ Received /\ Clean /\ NoSilentLoss
IInv    == TypeInv /\ SafeInv

-----------------------------------------------------------------------------
(* Type correctness *)

\* What an append leaves alone and what it leaves of the types.
LEMMA AppendType ==
  ASSUME SdTypeOK, NEW f \in Files, NEW line, line.len \in Nat => line \in Line,
         AppendLine(f, line) \/ AppendFails(f, line)
  PROVE  /\ content' \in [Files -> Seq(Line)]
         /\ present' \subseteq Files
         /\ damage' \subseteq FaultKinds \union {"rotate"}
         /\ UNCHANGED <<staged, mounted, broken>>
<1>1. Rotated(f) \in Seq(Line) /\ RotationDamage(f) \subseteq {"rotate"}
  BY DEF SdTypeOK, Rotated, RotationDamage
<1>2. CASE AppendLine(f, line)
  <2>1. line \in Line
    BY <1>2, SizesAssumption DEF AppendLine
  <2>2. Write(Rotated(f), line) \in Seq(Line)
    BY <1>1, <2>1, WriteType
  <2>3. QED
    BY <1>1, <1>2, <2>2 DEF AppendLine, SdTypeOK
<1>3. CASE AppendRejected(line)
  BY <1>3 DEF AppendRejected, SdTypeOK
<1>4. CASE AppendAborted(f, line)
  BY <1>1, <1>4 DEF AppendAborted, SdTypeOK
<1>5. CASE AppendTorn(f, line)
  <2>1. Write(Rotated(f), TornPiece) \in Seq(Line)
    BY <1>1, LinesAreLines, WriteType
  <2>2. QED
    BY <1>1, <1>5, <2>1 DEF AppendTorn, SdTypeOK, FaultKinds
<1>6. QED
  BY <1>2, <1>3, <1>4, <1>5 DEF AppendFails

\* The chunk that is being sent is made of numbered measurements.
LEMMA ChunkType ==
  ASSUME TypeInv, pc \in {"send", "consume", "unlink"}
  PROVE  /\ Chunk \subseteq Nat
         /\ LET line == ChunkLine(content[idx], lines, ended) IN line.len \in Nat => line \in Line
<1>1. /\ idx \in Files /\ content[idx] \in Seq(Line)
      /\ lines \in 0..Len(content[idx]) /\ ended \in Ends
  BY DEF TypeInv, TypeOK, SdTypeOK, Sending
<1>2. Chunk \subseteq Nat
  BY <1>1, IdsAreNumbers DEF Chunk
<1>3. QED
  BY <1>1, <1>2, ChunkIsLine

\* The type invariant in the four parts the provers take one at a time.
BoolsOK == {mounted, broken, sdOk, anyFail} \subseteq BOOLEAN
DamageOK == damage \subseteq FaultKinds \union {"rotate"}
DataOK ==
  /\ content \in [Files -> Seq(Line)]
  /\ present \subseteq Files
  /\ staged \in [Files -> Seq(Line)]
  /\ taken \in [Files -> Nat]
  /\ got \in [Files -> SUBSET Nat]
ControlOK ==
  /\ filename \in Files
  /\ pc \in PCs
  /\ idx \in 0..(Channels + 1)
  /\ lines \in Nat
  /\ ended \in Ends
  /\ caller \in {"test", "iridium", "rest"}
  /\ pc \in {"read", "send", "consume", "unlink", "rename"} => idx \in Files

LEMMA TypeParts == TypeOK <=> BoolsOK /\ DamageOK /\ DataOK /\ ControlOK
BY DEF TypeOK, SdTypeOK, BoolsOK, DamageOK, DataOK, ControlOK

LEMMA TypePartsNext == TypeOK' <=> BoolsOK' /\ DamageOK' /\ DataOK' /\ ControlOK'
BY DEF TypeOK, SdTypeOK, BoolsOK, DamageOK, DataOK, ControlOK

LEMMA TypeInit == Init => TypeInv
<1> SUFFICES ASSUME Init PROVE TypeInv
  OBVIOUS
<1>1. BoolsOK /\ DamageOK
  BY DEF Init, SdInit, BoolsOK, DamageOK
<1>2. DataOK
  BY DEF Init, SdInit, DataOK
<1>3. ControlOK
  BY ChannelsAssumption DEF Init, SdInit, ControlOK, PCs, Files
<1>4. QED
  BY <1>1, <1>2, <1>3, TypeParts DEF Init, TypeInv, Sending

\* What the four actions that append a line do to the card.
LEMMA AppendingSteps ==
  ASSUME TypeInv,
         PollStore \/ PollStoreFails \/ PollStoreUnsynced \/ TestSend \/ SendFails
  PROVE  /\ content' \in [Files -> Seq(Line)]
         /\ present' \subseteq Files
         /\ DamageOK'
         /\ UNCHANGED <<staged, mounted, broken>>
<1>1. SdTypeOK /\ filename \in Files /\ \A c \in 1..Channels : taken[c] + 1 \in Nat /\ c \in Files
  BY ChannelsAssumption DEF TypeInv, TypeOK, SdTypeOK, Files
<1>2. CASE PollStore \/ PollStoreFails \/ PollStoreUnsynced
  <2>1. PICK c \in 1..Channels : \/ AppendLine(c, Record(taken[c] + 1))
                                \/ AppendFails(c, Record(taken[c] + 1))
    BY <1>2 DEF PollStore, PollStoreFails, PollStoreUnsynced
  <2>2. Record(taken[c] + 1) \in Line
    BY <1>1, LinesAreLines
  <2>3. QED
    BY <1>1, <2>1, <2>2, AppendType DEF DamageOK
<1>3. CASE TestSend
  <2>1. CASE UNCHANGED sdVars
    BY <1>1, <2>1 DEF sdVars, SdTypeOK, DamageOK
  <2>2. CASE AppendLine(filename, Foreign) \/ AppendFails(filename, Foreign)
    BY <1>1, <2>2, AppendType, LinesAreLines DEF DamageOK
  <2>3. QED
    BY <1>3, <2>1, <2>2 DEF TestSend
<1>4. CASE SendFails
  <2> DEFINE line == ChunkLine(content[idx], lines, ended)
  <2>1. line.len \in Nat => line \in Line
    BY <1>4, ChunkType DEF SendFails
  <2>2. AppendLine(filename, line) \/ AppendFails(filename, line)
    BY <1>4 DEF SendFails
  <2> HIDE DEF line
  <2>3. QED
    BY <1>1, <2>1, <2>2, AppendType DEF DamageOK
<1>5. QED
  BY <1>2, <1>3, <1>4

LEMMA BoolsStep == TypeInv /\ Next => BoolsOK'
<1> SUFFICES ASSUME TypeInv, Next PROVE BoolsOK'
  OBVIOUS
<1>0. {mounted, broken, sdOk, anyFail} \subseteq BOOLEAN
  BY DEF TypeInv, TypeOK, SdTypeOK
<1>1. CASE Boot
  <2>1. mounted' \in BOOLEAN /\ broken' \in BOOLEAN
    BY <1>0, <1>1 DEF Boot, Mount
  <2>2. QED
    BY <1>0, <1>1, <2>1 DEF Boot, BoolsOK
<1>2. CASE Crash
  BY <1>2 DEF Crash, BoolsOK
<1>3. CASE PollStore \/ PollStoreFails \/ PollStoreUnsynced \/ TestSend \/ SendFails
  <2>1. UNCHANGED <<mounted, broken, sdOk>> /\ anyFail' \in {anyFail, TRUE}
    BY <1>3, AppendingSteps
    DEF PollStore, PollStoreFails, PollStoreUnsynced, PollStep, TestSend, SendFails, Return
  <2>2. QED
    BY <1>0, <2>1 DEF BoolsOK
<1>4. CASE PollDone
  <2>1. sdOk' \in BOOLEAN
    BY <1>4 DEF PollDone
  <2>2. UNCHANGED <<mounted, broken>> /\ anyFail' = FALSE
    BY <1>4 DEF PollDone, sdVars
  <2>3. QED
    BY <1>0, <2>1, <2>2 DEF BoolsOK
<1>5. CASE Sleep
  <2>1. mounted' \in BOOLEAN /\ broken' \in BOOLEAN
    BY <1>0, <1>5 DEF Sleep, Mount
  <2>2. QED
    BY <1>0, <1>5, <2>1 DEF Sleep, NextPoll, BoolsOK
<1>6. CASE \/ PollSkip \/ PeriodicSend \/ PeriodicSkip \/ TestSkip
           \/ RetrySend \/ RetrySkip \/ IridiumSend \/ IridiumSkip \/ Wait
  <2>1. UNCHANGED <<mounted, broken, sdOk, anyFail>>
    BY <1>6 DEF PollSkip, PeriodicSend, PeriodicSkip, TestSkip, RetrySend, RetrySkip,
       IridiumSend, IridiumSkip, Wait, NextPoll, CallRetransmit, ProbeBackups, Goto, sdVars
  <2>2. QED
    BY <1>0, <2>1 DEF BoolsOK
<1>7. CASE \/ ScanFile \/ ScanDone \/ ReadChunk \/ ReadShort \/ ReadCut \/ ReadFails
           \/ SendOk \/ SendHollow \/ Consume
  <2>1. UNCHANGED <<mounted, broken, sdOk, anyFail>>
    BY <1>7 DEF ScanFile, ScanDone, Return, ReadChunk, ReadShort, ReadCut, ReadBreaks,
                ReadFails, SendOk, SendHollow,
       Consume, ConsumeAll, ConsumeCopy, ConsumeFails, ConsumeUnlink, ConsumeUnlinkFails,
       ConsumeRename, ConsumeRenameFails, Consumed, ConsumeStep, UnlinkAll, CopyTail,
       UnlinkFails, RenameTmp, RenameFails, sdVars, CopyUnclosed
  <2>2. QED
    BY <1>0, <2>1 DEF BoolsOK
<1>8. QED
  BY <1>1, <1>2, <1>3, <1>4, <1>5, <1>6, <1>7 DEF Next, Poll, LoopBody, Retransmit

LEMMA DamageStep == TypeInv /\ Next => DamageOK'
<1> SUFFICES ASSUME TypeInv, Next PROVE DamageOK'
  OBVIOUS
<1>0. damage \subseteq FaultKinds \union {"rotate"}
  BY DEF TypeInv, TypeOK, SdTypeOK
<1>1. CASE PollStore \/ PollStoreFails \/ PollStoreUnsynced \/ TestSend \/ SendFails
  BY <1>1, AppendingSteps
<1>2. CASE Crash
  <2>1. damage' \subseteq damage \union {"window"}
    BY <1>2 DEF Crash
  <2>2. QED
    BY <1>0, <2>1 DEF DamageOK, FaultKinds
<1>3. CASE SendHollow
  BY <1>0, <1>3 DEF SendHollow, DamageOK, FaultKinds
<1>4. CASE ConsumeRenameFails
  BY <1>0, <1>4 DEF ConsumeRenameFails, RenameFails, DamageOK, FaultKinds
<1>5. CASE \/ Boot \/ PollSkip \/ PollDone \/ PeriodicSend \/ PeriodicSkip \/ TestSkip
           \/ RetrySend \/ RetrySkip \/ IridiumSend \/ IridiumSkip \/ Wait \/ Sleep
  <2>1. damage' = damage
    BY <1>5 DEF Boot, Mount, PollSkip, PollDone, PeriodicSend, PeriodicSkip, TestSkip,
       RetrySend, RetrySkip, IridiumSend, IridiumSkip, Wait, Sleep, NextPoll,
       CallRetransmit, ProbeBackups, Goto, sdVars
  <2>2. QED
    BY <1>0, <2>1 DEF DamageOK
<1>6. CASE \/ ScanFile \/ ScanDone \/ ReadChunk \/ ReadFails \/ SendOk
           \/ ConsumeAll \/ ConsumeCopy \/ ConsumeFails \/ ConsumeUnlink
           \/ ConsumeUnlinkFails \/ ConsumeRename
  <2>1. damage' \subseteq damage \union {"close"}
    BY <1>6 DEF ScanFile, ScanDone, ReadChunk, ReadFails, SendOk,
       ConsumeAll, ConsumeCopy, ConsumeFails, ConsumeUnlink, ConsumeUnlinkFails,
       ConsumeRename, UnlinkAll, CopyTail, UnlinkFails, RenameTmp, sdVars, CopyUnclosed
  <2>2. QED
    BY <1>0, <2>1 DEF DamageOK, FaultKinds
<1>7. CASE ReadShort \/ ReadCut
  BY <1>0, <1>7 DEF ReadShort, ReadCut, ReadBreaks, DamageOK, FaultKinds
<1>8. QED
  BY <1>1, <1>2, <1>3, <1>4, <1>5, <1>6, <1>7 DEF Next, Poll, LoopBody, Retransmit, Consume

LEMMA DataStep == TypeInv /\ Next => DataOK'
<1> SUFFICES ASSUME TypeInv, Next PROVE DataOK'
  OBVIOUS
<1>0. DataOK
  BY TypeParts DEF TypeInv
<1>1. CASE PollStore \/ PollStoreFails \/ PollStoreUnsynced \/ TestSend \/ SendFails
  <2>1. /\ content' \in [Files -> Seq(Line)] /\ present' \subseteq Files
        /\ staged' = staged
    BY <1>1, AppendingSteps
  <2>2. taken' = taken \/ \E c \in 1..Channels : taken' = [taken EXCEPT ![c] = @ + 1]
    <3>1. CASE PollStore \/ PollStoreFails \/ PollStoreUnsynced
      BY <3>1 DEF PollStore, PollStoreFails, PollStoreUnsynced
    <3>2. CASE TestSend \/ SendFails
      BY <3>2 DEF TestSend, SendFails, Return
    <3>3. QED
      BY <1>1, <3>1, <3>2
  <2>3. taken' \in [Files -> Nat]
    <3>1. ASSUME NEW c \in 1..Channels, taken' = [taken EXCEPT ![c] = @ + 1]
          PROVE  taken' \in [Files -> Nat]
      <4>1. c \in Files
        BY ChannelsAssumption DEF Files
      <4>2. QED
        BY <1>0, <3>1, <4>1 DEF DataOK
    <3>2. CASE taken' = taken
      BY <1>0, <3>2 DEF DataOK
    <3>3. QED
      BY <2>2, <3>1, <3>2
  <2>4. got' \in [Files -> SUBSET Nat]
    <3>1. CASE SendFails
      BY <1>0, <3>1, ChunkType DEF SendFails, Deliver, DataOK
    <3>2. CASE PollStore \/ PollStoreFails \/ PollStoreUnsynced \/ TestSend
      <4>1. got' = got
        BY <3>2 DEF PollStore, PollStoreFails, PollStoreUnsynced, PollStep, TestSend
      <4>2. QED
        BY <1>0, <4>1 DEF DataOK
    <3>3. QED
      BY <1>1, <3>1, <3>2
  <2>5. QED
    BY <2>1, <2>3, <2>4, <1>0 DEF DataOK
<1>2. CASE \/ Boot \/ Crash \/ PollSkip \/ PollDone \/ PeriodicSend \/ PeriodicSkip
           \/ TestSkip \/ RetrySend \/ RetrySkip \/ IridiumSend \/ IridiumSkip
           \/ Wait \/ Sleep
  <2>1. UNCHANGED <<content, present, staged, taken, got>>
    BY <1>2 DEF Boot, Mount, Crash, PollSkip, PollDone, PeriodicSend, PeriodicSkip,
       TestSkip, RetrySend, RetrySkip, IridiumSend, IridiumSkip, Wait, Sleep, NextPoll,
       CallRetransmit, ProbeBackups, Goto, sdVars
  <2>2. QED
    BY <1>0, <2>1 DEF DataOK
<1>3. CASE \/ ScanFile \/ ScanDone \/ ReadChunk \/ ReadShort \/ ReadCut \/ ReadFails
           \/ SendHollow \/ ConsumeFails
  <2>1. UNCHANGED <<content, present, staged, taken, got>>
    BY <1>3 DEF ScanFile, ScanDone, Return, ReadChunk, ReadShort, ReadCut, ReadBreaks,
       ReadFails, SendHollow,
       ConsumeFails, Consumed, sdVars
  <2>2. QED
    BY <1>0, <2>1 DEF DataOK
<1>4. CASE SendOk
  <2>1. got' \in [Files -> SUBSET Nat]
    BY <1>0, <1>4, ChunkType DEF SendOk, Deliver, DataOK
  <2>2. QED
    BY <1>0, <1>4, <2>1 DEF SendOk, sdVars, DataOK
<1>5. CASE ConsumeAll \/ ConsumeUnlink
  <2>1. /\ content' = [content EXCEPT ![idx] = <<>>] /\ present' \subseteq present
        /\ UNCHANGED <<staged, taken, got>>
    BY <1>5 DEF ConsumeAll, ConsumeUnlink, UnlinkAll, Consumed, ConsumeStep
  <2>2. content' \in [Files -> Seq(Line)]
    BY <1>0, <2>1, EmptyFile DEF DataOK
  <2>3. QED
    BY <1>0, <2>1, <2>2 DEF DataOK
<1>6. CASE ConsumeUnlinkFails \/ ConsumeRenameFails
  <2>1. /\ staged' = [staged EXCEPT ![idx] = <<>>]
        /\ UNCHANGED <<content, present, taken, got>>
    BY <1>6 DEF ConsumeUnlinkFails, ConsumeRenameFails, UnlinkFails, RenameFails, Consumed
  <2>2. staged' \in [Files -> Seq(Line)]
    BY <1>0, <2>1, EmptyFile DEF DataOK
  <2>3. QED
    BY <1>0, <2>1, <2>2 DEF DataOK
<1>7. CASE ConsumeRename
  <2>1. idx \in Files
    BY <1>7 DEF TypeInv, TypeOK, ConsumeRename
  <2>2. QED
    BY <1>0, <1>7, <2>1 DEF ConsumeRename, RenameTmp, Consumed, DataOK
<1>8. CASE ConsumeCopy
  <2>1. /\ idx \in Files /\ lines \in 0..Len(content[idx]) /\ ended \in Ends
        /\ ended = "cut" => lines < Len(content[idx])
    BY <1>0, <1>8 DEF TypeInv, TypeOK, Sending, ConsumeCopy, DataOK
  <2>2. Remainder(content[idx], lines, ended) \in Seq(Line)
    BY <1>0, <2>1, RemainderType DEF DataOK
  <2>3. <<>> \in Seq(Line)
    OBVIOUS
  <2>4. QED
    BY <1>0, <1>8, <2>2, <2>3 DEF ConsumeCopy, CopyTail, CopyUnclosed, ConsumeStep, DataOK
<1>9. QED
  BY <1>1, <1>2, <1>3, <1>4, <1>5, <1>6, <1>7, <1>8
  DEF Next, Poll, LoopBody, Retransmit, Consume

LEMMA ControlStep == TypeInv /\ Next => ControlOK'
<1> SUFFICES ASSUME TypeInv, Next PROVE ControlOK'
  OBVIOUS
<1> USE ChannelsAssumption DEF Files, ControlOK, PCs, Ends
<1>0. ControlOK
  BY TypeParts DEF TypeInv
<1>1. CASE Boot \/ Crash
  BY <1>1 DEF Boot, Crash, Mount, TypeInv, TypeOK
<1>2. CASE PollStore \/ PollStoreFails \/ PollStoreUnsynced
  <2>1. PICK c \in 1..Channels : PollStep(c)
    BY <1>2 DEF PollStore, PollStoreFails, PollStoreUnsynced
  <2>2. QED
    BY <1>0, <2>1 DEF PollStep
<1>3. CASE PollSkip \/ PollDone
  BY <1>0, <1>3 DEF PollSkip, PollDone, sdVars
<1>4. CASE PeriodicSend \/ IridiumSend
  BY <1>0, <1>4 DEF PeriodicSend, IridiumSend, CallRetransmit, sdVars
<1>5. CASE PeriodicSkip \/ TestSkip \/ IridiumSkip
  BY <1>0, <1>5 DEF PeriodicSkip, TestSkip, IridiumSkip, Goto, sdVars
<1>6. CASE TestSend
  <2>1. UNCHANGED <<filename, idx, lines, ended, caller>>
        /\ pc' \in {"retry", "rest"}
    BY <1>6 DEF TestSend, sdVars
  <2>2. QED
    BY <1>0, <2>1
<1>7. CASE RetrySend \/ RetrySkip
  <2>1. /\ filename' \in Files /\ idx' \in {0, idx} /\ UNCHANGED <<lines, ended>>
        /\ caller' \in {caller, "iridium"} /\ pc' \in {"scan", "iridium", "rest"}
    BY <1>7 DEF RetrySend, RetrySkip, ProbeBackups, CallRetransmit
  <2>2. QED
    BY <1>0, <2>1
<1>8. CASE Wait \/ Sleep
  <2>1. UNCHANGED <<filename, lines, ended, caller>> /\ idx' = 1 /\ pc' = "poll"
    BY <1>8 DEF Wait, Sleep, NextPoll, sdVars
  <2>2. QED
    BY <1>0, <2>1
<1>9. CASE ScanFile
  BY <1>0, <1>9 DEF ScanFile
<1>10. CASE ScanDone
  BY <1>0, <1>10 DEF ScanDone, Return, sdVars
<1>11. CASE ReadChunk \/ ReadShort \/ ReadCut
  BY <1>0, <1>11 DEF ReadChunk, ReadShort, ReadCut, ReadBreaks, sdVars
<1>12. CASE ReadFails
  BY <1>0, <1>12 DEF ReadFails, sdVars
<1>13. CASE SendOk \/ SendHollow
  <2>1. UNCHANGED <<filename, idx, lines, ended, caller>> /\ pc' = "consume" /\ pc = "send"
    BY <1>13 DEF SendOk, SendHollow, sdVars
  <2>2. QED
    BY <1>0, <2>1
<1>14. CASE SendFails
  <2>1. UNCHANGED <<filename, idx, caller>> /\ pc' = caller /\ lines' = 0 /\ ended' = "line"
    BY <1>14 DEF SendFails, Return
  <2>2. QED
    BY <1>0, <2>1
<1>15. CASE \/ ConsumeAll \/ ConsumeFails \/ ConsumeUnlinkFails
            \/ ConsumeRename \/ ConsumeRenameFails
  <2>1. UNCHANGED <<filename, idx, caller>> /\ pc' = "scan" /\ lines' = 0
        /\ ended' = "line"
    BY <1>15 DEF ConsumeAll, ConsumeFails, ConsumeUnlinkFails, ConsumeRename,
       ConsumeRenameFails, Consumed
  <2>2. QED
    BY <1>0, <2>1
<1>16. CASE ConsumeCopy \/ ConsumeUnlink
  <2>1. UNCHANGED <<filename, idx, lines, ended, caller>> /\ pc' \in {"unlink", "rename"}
        /\ pc \in {"consume", "unlink"}
    BY <1>16 DEF ConsumeCopy, ConsumeUnlink, ConsumeStep
  <2>2. QED
    BY <1>0, <2>1
<1>17. QED
  BY <1>1, <1>2, <1>3, <1>4, <1>5, <1>6, <1>7, <1>8, <1>9, <1>10, <1>11, <1>12,
     <1>13, <1>14, <1>15, <1>16
  DEF Next, Poll, LoopBody, Retransmit, Consume

\* Where a chunk is in flight, the step that led there read it or kept the file.
LEMMA SendingStep == TypeInv /\ Next => Sending'
<1> SUFFICES ASSUME TypeInv, Next, pc' \in {"send", "consume", "unlink"}
             PROVE  Sending'
  BY DEF Sending
<1>1. caller \notin {"send", "consume", "unlink"}
  BY DEF TypeInv, TypeOK
<1>2. CASE ReadChunk \/ ReadShort \/ ReadCut
  BY <1>2 DEF ReadChunk, ReadShort, ReadCut, ReadBreaks, Sending, sdVars
<1>3. CASE SendOk \/ SendHollow \/ ConsumeCopy
  <2>1. /\ pc \in {"send", "consume", "unlink"}
        /\ UNCHANGED <<lines, ended, idx, content>> /\ damage \subseteq damage'
    BY <1>3 DEF SendOk, SendHollow, ConsumeCopy, CopyTail, ConsumeStep, sdVars, CopyUnclosed
  <2>2. QED
    BY <2>1 DEF TypeInv, Sending
<1>4. ~ \/ Boot \/ Crash \/ PollDone \/ PeriodicSend \/ PeriodicSkip \/ TestSkip
        \/ RetrySend \/ RetrySkip \/ IridiumSend \/ IridiumSkip \/ Wait \/ Sleep
  BY DEF Boot, Crash, PollDone, PeriodicSend, PeriodicSkip, TestSkip, RetrySend, RetrySkip,
     IridiumSend, IridiumSkip, Wait, Sleep, NextPoll, CallRetransmit, Goto
<1>5. ~(PollStore \/ PollStoreFails \/ PollStoreUnsynced \/ PollSkip \/ TestSend)
  BY DEF PollStore, PollStoreFails, PollStoreUnsynced, PollStep, PollSkip, TestSend
<1>6. ~(ScanFile \/ ScanDone \/ ReadFails \/ SendFails)
  BY <1>1 DEF ScanFile, ScanDone, ReadFails, SendFails, Return
<1>7. ~ \/ ConsumeAll \/ ConsumeFails \/ ConsumeUnlink \/ ConsumeUnlinkFails
        \/ ConsumeRename \/ ConsumeRenameFails
  BY DEF ConsumeAll, ConsumeFails, ConsumeUnlink, ConsumeUnlinkFails, ConsumeRename,
     ConsumeRenameFails, Consumed, ConsumeStep
<1>8. QED
  BY <1>2, <1>3, <1>4, <1>5, <1>6, <1>7 DEF Next, Poll, LoopBody, Retransmit, Consume

LEMMA TypeStep == TypeInv /\ [Next]_vars => TypeInv'
<1>1. CASE Next
  BY <1>1, BoolsStep, DamageStep, DataStep, ControlStep, SendingStep, TypePartsNext DEF TypeInv
<1>2. CASE UNCHANGED vars
  BY <1>2 DEF vars, sdVars, appVars, TypeInv, TypeOK, SdTypeOK, Sending
<1>3. QED
  BY <1>1, <1>2

\* The program never leaves its types, and the chunk it sends or consumes is
\* at every moment a prefix of the file it works on, whatever is appended.
THEOREM TypeCorrect == Spec => [](TypeOK /\ Sending)
<1>1. TypeInv <=> TypeOK /\ Sending
  BY DEF TypeInv
<1>2. QED
  BY <1>1, TypeInit, TypeStep, PTL DEF Spec

-----------------------------------------------------------------------------
(* No silent loss *)

\* Every conjunct that speaks of lost data is void once a lossy event happened.
LEMMA Damaged ==
  ASSUME ~Intact', pc' # "unlink"
  PROVE  SafeInv'
BY DEF SafeInv, Staging, Received, Clean, NoSilentLoss

\* As long as nothing lossy happened an append adds one whole line or nothing.
LEMMA CleanAppend ==
  ASSUME SdTypeOK, NEW f \in Files, ~EndsTorn(content[f]), Intact', NEW line,
         AppendLine(f, line) \/ AppendFails(f, line)
  PROVE  /\ Intact
         /\ AppendLine(f, line) =>
              content' = [content EXCEPT ![f] = Append(content[f], line)]
         /\ ~AppendLine(f, line) => content' = content
<1>1. RotationDamage(f) = {} => Rotated(f) = content[f]
  BY DEF RotationDamage, Rotated
<1>2. [content EXCEPT ![f] = content[f]] = content
  BY DEF SdTypeOK
<1>3. CASE AppendLine(f, line)
  <2>1. Intact /\ RotationDamage(f) = {}
    BY <1>3 DEF AppendLine, RotationDamage, Intact
  <2>2. QED
    BY <1>1, <1>3, <2>1 DEF AppendLine, Write
<1>4. CASE AppendRejected(line)
  BY <1>4 DEF AppendRejected, AppendLine, Intact
<1>5. CASE AppendAborted(f, line) /\ ~AppendLine(f, line)
  <2>1. CASE UNCHANGED <<content, present, damage>>
    BY <1>5, <2>1 DEF Intact
  <2>2. CASE content' = [content EXCEPT ![f] = Rotated(f)] /\ damage' = damage \union RotationDamage(f)
    <3>1. Intact /\ RotationDamage(f) = {}
      BY <2>2 DEF RotationDamage, Intact
    <3>2. QED
      BY <1>1, <1>2, <1>5, <2>2, <3>1
  <2>3. QED
    BY <1>5, <2>1, <2>2 DEF AppendAborted
<1>6. CASE AppendTorn(f, line)
  BY <1>6 DEF AppendTorn, Intact
<1>7. QED
  BY <1>3, <1>4, <1>5, <1>6 DEF AppendFails

\* A file that does not end torn does not after a whole line either.
LEMMA CleanLine ==
  ASSUME NEW s \in Seq(Line), NEW line \in Line, line.kind # "torn"
  PROVE  ~EndsTorn(Append(s, line))
BY DEF EndsTorn

\* A step that leaves the files, the loss record and the receipts alone.
LEMMA Quiet ==
  ASSUME IInv, UNCHANGED <<content, damage, taken, got>>,
         pc # "rename", pc' \notin {"consume", "unlink", "rename"}
  PROVE  SafeInv'
<1>1. \A f : Held(f) = content[f] /\ Held(f)' = content[f]
  BY DEF Held
<1>2. Clean' /\ NoSilentLoss'
  BY <1>1 DEF IInv, SafeInv, Clean, NoSilentLoss, NothingLost, Intact
<1>3. QED
  BY <1>2 DEF SafeInv, Staging, Received

\* A step that only adds lines, receipts, and measurements that are on the card.
LEMMA Grows ==
  ASSUME IInv, pc # "rename", pc' \notin {"consume", "unlink", "rename"},
         Intact,
         \/ content' = content
         \/ \E f \in Files, line \in Line :
              line.kind # "torn" /\ content' = [content EXCEPT ![f] = Append(content[f], line)],
         \A c \in Files : got[c] \subseteq got'[c],
         \A c \in Files : \A id \in 1..taken'[c] : id \in 1..taken[c] \/ id \in Ids(content'[c])
  PROVE  SafeInv'
<1>1. \A f : Held(f) = content[f] /\ Held(f)' = content'[f]
  BY DEF Held
<1>2. content \in [Files -> Seq(Line)] /\ \A f \in Files : ~EndsTorn(content[f])
  BY <1>1 DEF IInv, TypeInv, TypeOK, SdTypeOK, SafeInv, Clean
<1>3. \A e \in Files : ~EndsTorn(content'[e]) /\ \A x \in Ids(content[e]) : x \in Ids(content'[e])
  <2>1. CASE content' = content
    BY <1>2, <2>1
  <2>2. ASSUME NEW f \in Files, NEW line \in Line, line.kind # "torn",
               content' = [content EXCEPT ![f] = Append(content[f], line)],
               NEW e \in Files
        PROVE  ~EndsTorn(content'[e]) /\ \A x \in Ids(content[e]) : x \in Ids(content'[e])
    <3>1. CASE e = f
      <4>1. content'[e] = Append(content[f], line) /\ content[f] \in Seq(Line)
        BY <1>2, <2>2, <3>1
      <4>2. QED
        BY <2>2, <3>1, <4>1, CleanLine, IdsOfAppend
    <3>2. CASE e # f
      BY <1>2, <2>2, <3>2
    <3>3. QED
      BY <3>1, <3>2
  <2>3. QED
    BY <2>1, <2>2
<1>4. Clean'
  BY <1>1, <1>3 DEF Clean
<1>5. NoSilentLoss'
  <2>1. ASSUME NEW c \in Files, NEW id \in 1..taken'[c]
        PROVE  id \in got'[c] \/ id \in Ids(content'[c])
    <3>1. CASE id \in 1..taken[c]
      <4>1. id \in got[c] \/ id \in Ids(content[c])
        BY <1>1, <3>1 DEF IInv, SafeInv, NoSilentLoss, NothingLost
      <4>2. QED
        BY <1>3, <4>1
    <3>2. QED
      BY <2>1, <3>1
  <2>2. QED
    BY <1>1, <2>1 DEF NoSilentLoss, NothingLost
<1>6. QED
  BY <1>4, <1>5 DEF SafeInv, Staging, Received

LEMMA SafeInit == Init => SafeInv
<1> SUFFICES ASSUME Init PROVE SafeInv
  OBVIOUS
<1>1. \A f \in Files : Held(f) = <<>>
  BY DEF Init, SdInit, Held
<1>2. Clean
  BY <1>1 DEF Clean, EndsTorn
<1>3. \A c \in Files : taken[c] = 0
  BY DEF Init
<1>4. NoSilentLoss
  BY <1>3 DEF NoSilentLoss, NothingLost
<1>5. QED
  BY <1>2, <1>4 DEF SafeInv, Staging, Received, Init

\* The steps of the poll keep the invariant.
LEMMA SafePoll == IInv /\ Poll => SafeInv'
<1> SUFFICES ASSUME IInv, Poll PROVE SafeInv'
  OBVIOUS
<1>1. CASE PollSkip \/ PollDone
  BY <1>1, Quiet DEF PollSkip, PollDone, sdVars
<1>2. CASE PollStore \/ PollStoreFails \/ PollStoreUnsynced
  <2>1. PICK c \in 1..Channels :
          /\ PollStep(c)
          /\ \/ /\ AppendLine(c, Record(taken[c] + 1))
                /\ taken' = [taken EXCEPT ![c] = @ + 1]
             \/ /\ AppendFails(c, Record(taken[c] + 1))
                /\ taken' = taken
    BY <1>2 DEF PollStore, PollStoreFails, PollStoreUnsynced
  <2>2. CASE ~Intact'
    BY <2>1, <2>2, Damaged DEF PollStep
  <2>3. CASE Intact'
    <3>1. /\ SdTypeOK /\ c \in Files /\ taken \in [Files -> Nat]
          /\ content \in [Files -> Seq(Line)]
      BY ChannelsAssumption DEF IInv, TypeInv, TypeOK, SdTypeOK, Files
    <3>2. /\ pc = "poll" /\ pc' = "poll" /\ got' = got
      BY <2>1 DEF PollStep
    <3>3. Intact
      BY <2>1, <2>3 DEF AppendLine, AppendFails, AppendRejected, AppendAborted, AppendTorn, Intact
    <3>4. ~EndsTorn(content[c])
      BY <3>1, <3>2, <3>3 DEF IInv, SafeInv, Clean, Held
    <3> DEFINE line == Record(taken[c] + 1)
    <3>5. line \in Line /\ line.kind # "torn" /\ line.ids = {taken[c] + 1}
      BY <3>1, LinesAreLines DEF Record
    <3> HIDE DEF line
    <3>6. CASE AppendLine(c, line) /\ taken' = [taken EXCEPT ![c] = @ + 1]
      <4>1. content' = [content EXCEPT ![c] = Append(content[c], line)]
        BY <2>3, <3>1, <3>4, <3>6, CleanAppend
      <4>2. Ids(content'[c]) = Ids(content[c]) \union {taken[c] + 1}
        BY <3>1, <3>5, <4>1, IdsOfAppend
      <4>3. \A e \in Files : \A id \in 1..taken'[e] : id \in 1..taken[e] \/ id \in Ids(content'[e])
        BY <3>1, <3>6, <4>2
      <4>4. QED
        BY <3>1, <3>2, <3>3, <3>5, <4>1, <4>3, Grows
    <3>7. CASE AppendFails(c, line) /\ ~AppendLine(c, line) /\ taken' = taken
      <4>1. content' = content
        BY <2>3, <3>1, <3>4, <3>7, CleanAppend
      <4>2. QED
        BY <3>1, <3>2, <3>3, <3>7, <4>1, Grows
    <3>8. CASE AppendLine(c, line) /\ taken' = taken
      <4>1. content' = [content EXCEPT ![c] = Append(content[c], line)]
        BY <2>3, <3>1, <3>4, <3>8, CleanAppend
      <4>2. QED
        BY <3>1, <3>2, <3>3, <3>5, <3>8, <4>1, Grows
    <3>9. QED
      BY <2>1, <3>6, <3>7, <3>8 DEF line
  <2>4. QED
    BY <2>2, <2>3
<1>3. QED
  BY <1>1, <1>2 DEF Poll

\* A line saved by a failed send is added whole or not at all.
LEMMA SafeAppend ==
  ASSUME IInv, pc # "rename", pc' \notin {"consume", "unlink", "rename"},
         NEW line, line.len \in Nat => line \in Line, line.kind # "torn",
         AppendLine(filename, line) \/ AppendFails(filename, line),
         taken' = taken, \A c \in Files : got[c] \subseteq got'[c]
  PROVE  SafeInv'
<1>1. CASE ~Intact'
  BY <1>1, Damaged
<1>2. CASE Intact'
  <2>1. SdTypeOK /\ filename \in Files
    BY DEF IInv, TypeInv, TypeOK, SdTypeOK
  <2>2. Intact
    BY <1>2 DEF AppendLine, AppendFails, AppendRejected, AppendAborted, AppendTorn, Intact
  <2>3. ~EndsTorn(content[filename])
    BY <2>1, <2>2 DEF IInv, SafeInv, Clean, Held
  <2>4. CASE AppendLine(filename, line)
    <3>1. line \in Line
      BY <2>4, SizesAssumption DEF AppendLine
    <3>2. content' = [content EXCEPT ![filename] = Append(content[filename], line)]
      BY <1>2, <2>1, <2>3, <2>4, CleanAppend
    <3>3. QED
      BY <2>1, <2>2, <3>1, <3>2, Grows
  <2>5. CASE ~AppendLine(filename, line)
    <3>1. content' = content
      BY <1>2, <2>1, <2>3, <2>5, CleanAppend
    <3>2. QED
      BY <2>2, <3>1, Grows
  <2>6. QED
    BY <2>4, <2>5
<1>3. QED
  BY <1>1, <1>2

\* The rest of the loop body keeps the invariant.
LEMMA SafeLoopBody == IInv /\ LoopBody => SafeInv'
<1> SUFFICES ASSUME IInv, LoopBody PROVE SafeInv'
  OBVIOUS
<1>1. CASE PeriodicSend \/ PeriodicSkip \/ TestSkip \/ IridiumSend \/ IridiumSkip
  BY <1>1, Quiet DEF PeriodicSend, PeriodicSkip, TestSkip, IridiumSend, IridiumSkip,
     CallRetransmit, Goto, sdVars
<1>2. CASE RetrySend \/ RetrySkip
  BY <1>2, Quiet DEF RetrySend, RetrySkip, CallRetransmit, ProbeBackups
<1>3. CASE Wait \/ Sleep
  BY <1>3, Quiet DEF Wait, Sleep, NextPoll, Mount, sdVars
<1>4. CASE TestSend
  <2>1. /\ pc # "rename" /\ pc' \notin {"consume", "unlink", "rename"}
        /\ UNCHANGED <<taken, got>>
    BY <1>4 DEF TestSend
  <2>2. CASE UNCHANGED sdVars
    BY <2>1, <2>2, Quiet DEF sdVars
  <2>3. CASE AppendLine(filename, Foreign) \/ AppendFails(filename, Foreign)
    BY <2>1, <2>3, SafeAppend, LinesAreLines DEF Foreign
  <2>4. QED
    BY <1>4, <2>2, <2>3 DEF TestSend
<1>5. QED
  BY <1>1, <1>2, <1>3, <1>4 DEF LoopBody

\* Reading and sending keep the invariant.
LEMMA SafeSend ==
  ASSUME IInv,
         \/ ScanFile \/ ScanDone \/ ReadChunk \/ ReadShort \/ ReadCut \/ ReadFails
         \/ SendOk \/ SendHollow \/ SendFails
  PROVE  SafeInv'
<1>0. /\ caller \notin {"consume", "unlink", "rename"}
      /\ got \in [Files -> SUBSET Nat] /\ taken \in [Files -> Nat]
      /\ pc = "send" => idx \in Files
  BY DEF IInv, TypeInv, TypeOK
<1>1. CASE ScanFile \/ ScanDone \/ ReadChunk \/ ReadFails
  BY <1>0, <1>1, Quiet DEF ScanFile, ScanDone, ReadChunk, ReadFails, Return, sdVars
<1>2. CASE SendHollow
  BY <1>2, Damaged DEF SendHollow, Intact
<1>3. CASE SendOk /\ Intact
  <2>1. /\ pc = "send" /\ pc' = "consume" /\ got' = [got EXCEPT ![idx] = @ \union Chunk]
        /\ UNCHANGED <<content, damage, taken, idx, lines>>
    BY <1>3 DEF SendOk, Deliver, IInv, TypeInv, Sending, sdVars, Intact
  <2>2. /\ got'[idx] = got[idx] \union Chunk /\ Chunk' = Chunk
        /\ \A c \in Files : got[c] \subseteq got'[c]
    BY <1>0, <2>1 DEF Chunk
  <2>3. \A f : Held(f) = content[f] /\ Held(f)' = content[f]
    BY <2>1 DEF Held
  <2>4. Clean'
    BY <2>1, <2>3 DEF IInv, SafeInv, Clean, Intact
  <2>5. NoSilentLoss'
    BY <2>1, <2>2, <2>3 DEF IInv, SafeInv, NoSilentLoss, NothingLost, Intact
  <2>6. Received'
    BY <2>1, <2>2 DEF Received
  <2>7. QED
    BY <2>1, <2>4, <2>5, <2>6 DEF SafeInv, Staging
<1>4. CASE SendFails
  <2> DEFINE line == ChunkLine(content[idx], lines, ended)
  <2>1. pc = "send" /\ pc' = caller /\ taken' = taken
    BY <1>4 DEF SendFails, Return
  <2>2. \A c \in Files : got[c] \subseteq got'[c]
    BY <1>0, <1>4 DEF SendFails, Deliver
  <2>3. (line.len \in Nat => line \in Line) /\ line.kind # "torn"
    BY <2>1, ChunkType DEF IInv, ChunkLine
  <2>4. AppendLine(filename, line) \/ AppendFails(filename, line)
    BY <1>4 DEF SendFails
  <2> HIDE DEF line
  <2>5. QED
    BY <1>0, <2>1, <2>2, <2>3, <2>4, SafeAppend
<1>5. CASE SendOk /\ ~Intact
  BY <1>5, Damaged DEF SendOk, sdVars, Intact
<1>6. CASE ReadShort
  <2>1. /\ UNCHANGED <<content, staged, taken, got>> /\ pc = "read" /\ pc' = "send"
        /\ Intact' => Intact
    BY <1>6 DEF ReadShort, ReadBreaks, Intact
  <2>2. \A f : Held(f) = content[f] /\ Held(f)' = content[f]
    BY <2>1 DEF Held
  <2>3. Clean' /\ NoSilentLoss'
    BY <2>1, <2>2 DEF IInv, SafeInv, Clean, NoSilentLoss, NothingLost
  <2>4. QED
    BY <2>1, <2>3 DEF SafeInv, Staging, Received
<1>7. CASE ReadCut
  BY <1>7, Damaged DEF ReadCut, ReadBreaks, Intact
<1>8. QED
  BY <1>1, <1>2, <1>3, <1>4, <1>5, <1>6, <1>7

\* A step after which the card holds, of every file, what it held before.
LEMMA SameHeld ==
  ASSUME IInv, \A f \in Files : Held(f)' = Held(f), UNCHANGED <<damage, taken, got>>,
         pc' \notin {"consume", "unlink"}
  PROVE  SafeInv'
<1>1. Clean' /\ NoSilentLoss'
  BY DEF IInv, SafeInv, Clean, NoSilentLoss, NothingLost, Intact
<1>2. QED
  BY <1>1 DEF SafeInv, Staging, Received

\* A step that drops a received prefix of one file, and nothing else.
LEMMA Drops ==
  ASSUME IInv, NEW f \in Files, NEW n \in 0..Len(content[f]),
         Intact => IdsUpTo(content[f], n) \subseteq got[f],
         pc # "rename",
         Intact => Held(f)' = SubSeq(content[f], n + 1, Len(content[f])),
         \A e \in Files \ {f} : Held(e)' = content[e],
         UNCHANGED <<damage, taken, got>>, pc' \notin {"consume", "unlink"}
  PROVE  SafeInv'
<1>0. content \in [Files -> Seq(Line)] /\ content[f] \in Seq(Line)
  BY DEF IInv, TypeInv, TypeOK, SdTypeOK
<1>1. \A e : Held(e) = content[e]
  BY DEF Held
<1>2. CASE ~Intact
  BY <1>2 DEF SafeInv, Staging, Received, Clean, NoSilentLoss, Intact
<1>3. CASE Intact
  <2> DEFINE s == content[f]
             t == SubSeq(s, n + 1, Len(s))
             g == IdsUpTo(s, n)
  <2>1. ~EndsTorn(s)
    BY <1>1, <1>3 DEF IInv, SafeInv, Clean
  <2>2. ~EndsTorn(t)
    <3>1. /\ t \in Seq(Line) /\ Len(t) = Len(s) - n
          /\ \A i \in 1..Len(t) : t[i] = s[n + i]
      BY <1>0
    <3>2. ASSUME t # <<>> PROVE t[Len(t)] = s[Len(s)] /\ s # <<>>
      <4> HIDE DEF t
      <4>1. Len(t) \in 1..Len(t) /\ n + Len(t) = Len(s)
        BY <1>0, <3>1, <3>2
      <4>2. t[Len(t)] = s[n + Len(t)]
        BY <3>1, <4>1
      <4>3. QED
        BY <1>0, <4>1, <4>2
    <3>3. QED
      BY <2>1, <3>2 DEF EndsTorn
  <2>3. Clean'
    BY <1>1, <1>3, <2>2 DEF IInv, SafeInv, Clean
  <2>4. ASSUME NEW c \in Files, NEW id \in 1..taken[c]
        PROVE  id \in got[c] \/ id \in Ids(Held(c)')
    <3>1. id \in got[c] \/ id \in Ids(content[c])
      BY <1>1, <1>3 DEF IInv, SafeInv, NoSilentLoss, NothingLost
    <3>2. CASE c = f /\ id \in Ids(s)
      <4>1. Held(f)' = t
        BY <1>3
      <4>2. id \in g \/ id \in Ids(t)
        BY <1>0, <3>2, IdsOfTail
      <4>3. g \subseteq got[c]
        BY <1>3, <3>2
      <4> HIDE DEF s, t, g
      <4>4. QED
        BY <3>2, <4>1, <4>2, <4>3
    <3>3. CASE c # f
      BY <3>1, <3>3
    <3>4. QED
      BY <3>1, <3>2, <3>3
  <2>5. NoSilentLoss'
    <3>1. \A c : Ids(Held(c))' = Ids(Held(c)')
      BY DEF Ids, IdsUpTo
    <3>2. QED
      BY <2>4, <3>1 DEF NoSilentLoss, NothingLost
  <2>6. QED
    BY <2>3, <2>5 DEF SafeInv, Staging, Received
<1>4. QED
  BY <1>2, <1>3

\* Consuming a chunk keeps the invariant.
LEMMA SafeConsume == IInv /\ Consume => SafeInv'
<1> SUFFICES ASSUME IInv, Consume PROVE SafeInv'
  OBVIOUS
<1>0. content \in [Files -> Seq(Line)] /\ staged \in [Files -> Seq(Line)]
  BY DEF IInv, TypeInv, TypeOK, SdTypeOK
<1>1. ASSUME pc \in {"consume", "unlink"}
      PROVE  /\ idx \in Files /\ lines \in 0..Len(content[idx])
             /\ content[idx] \in Seq(Line)
             /\ Intact => IdsUpTo(content[idx], lines) \subseteq got[idx]
             /\ Intact => Remainder(content[idx], lines, ended) =
                            SubSeq(content[idx], lines + 1, Len(content[idx]))
  <2>1. /\ idx \in Files /\ lines \in 0..Len(content[idx])
        /\ content[idx] \in Seq(Line)
        /\ Intact => Chunk \subseteq got[idx] /\ ended # "cut"
    BY <1>0, <1>1 DEF IInv, TypeInv, TypeOK, Sending, SafeInv, Received, Intact
  <2>2. QED
    BY <2>1 DEF Chunk, Remainder
<1>2. CASE ConsumeAll
  <2>1. /\ pc = "consume" /\ pc' = "scan" /\ lines = Len(content[idx])
        /\ content' = [content EXCEPT ![idx] = <<>>]
        /\ UNCHANGED <<damage, taken, got>>
    BY <1>2 DEF ConsumeAll, WholeFile, UnlinkAll, Consumed
  <2>2. PICK f \in Files, n \in 0..Len(content[idx]) : f = idx /\ n = lines
    BY <1>1, <2>1
  <2>3. \A e \in Files : Held(e)' = content'[e]
    BY <2>1 DEF Held
  <2>4. SubSeq(content[f], n + 1, Len(content[f])) = <<>>
    BY <1>1, <2>1, <2>2
  <2>5. Held(f)' = <<>> /\ \A e \in Files \ {f} : Held(e)' = content[e]
    BY <1>0, <2>1, <2>2, <2>3
  <2>6. QED
    BY <1>1, <2>1, <2>2, <2>4, <2>5, Drops
<1>3. CASE ConsumeCopy /\ CopyTail(idx, lines, ended)
  <2>1. /\ pc = "consume" /\ pc' = "unlink"
        /\ staged' = [staged EXCEPT ![idx] = Remainder(content[idx], lines, ended)]
        /\ UNCHANGED <<content, damage, taken, got, idx, lines, ended>>
    BY <1>3 DEF ConsumeCopy, CopyTail, ConsumeStep
  <2>2. Staging'
    BY <1>0, <1>1, <2>1 DEF Staging, Intact
  <2>3. Received'
    BY <1>1, <2>1 DEF Received, Chunk, Intact
  <2>4. \A f : Held(f) = content[f] /\ Held(f)' = content[f]
    BY <2>1 DEF Held
  <2>5. Clean' /\ NoSilentLoss'
    BY <2>1, <2>4 DEF IInv, SafeInv, Clean, NoSilentLoss, NothingLost, Intact
  <2>6. QED
    BY <2>2, <2>3, <2>5 DEF SafeInv
<1>4. CASE ConsumeFails \/ ConsumeUnlinkFails
  BY <1>4, Quiet DEF ConsumeFails, ConsumeUnlinkFails, UnlinkFails, Consumed
<1>5. CASE ConsumeUnlink
  <2>1. /\ pc = "unlink" /\ pc' = "rename"
        /\ content' = [content EXCEPT ![idx] = <<>>]
        /\ UNCHANGED <<staged, damage, taken, got, idx, lines>>
    BY <1>5 DEF ConsumeUnlink, UnlinkAll, ConsumeStep
  <2>2. PICK f \in Files, n \in 0..Len(content[idx]) : f = idx /\ n = lines
    BY <1>1, <2>1
  <2>3. Intact => Held(f)' = SubSeq(content[f], n + 1, Len(content[f]))
    <3>1. Intact => staged[f] = SubSeq(content[f], n + 1, Len(content[f]))
      BY <1>1, <2>1, <2>2 DEF IInv, SafeInv, Staging
    <3>2. Held(f)' = staged'[f]
      BY <2>1, <2>2 DEF Held
    <3>3. QED
      BY <2>1, <3>1, <3>2
  <2>4. \A e \in Files \ {f} : Held(e)' = content[e]
    <3>1. \A e \in Files \ {f} : Held(e)' = content'[e]
      BY <2>1, <2>2 DEF Held
    <3>2. QED
      BY <1>0, <2>1, <2>2, <3>1
  <2>5. QED
    BY <1>1, <2>1, <2>2, <2>3, <2>4, Drops
<1>6. CASE ConsumeRename
  <2>1. /\ pc = "rename" /\ pc' = "scan" /\ idx' = idx
        /\ content' = [content EXCEPT ![idx] = staged[idx]]
        /\ UNCHANGED <<damage, taken, got>>
    BY <1>6 DEF ConsumeRename, RenameTmp, Consumed
  <2>2. \A f \in Files : Held(f)' = Held(f)
    BY <1>0, <2>1 DEF Held
  <2>3. QED
    BY <2>1, <2>2, SameHeld
<1>7. CASE ConsumeRenameFails
  BY <1>7, Damaged DEF ConsumeRenameFails, RenameFails, Consumed, Intact
<1>8. CASE ConsumeCopy /\ CopyUnclosed(idx)
  <2>1. ~Intact'
    BY <1>8 DEF CopyUnclosed, Intact
  <2>2. QED
    BY <2>1 DEF SafeInv, Staging, Received, Clean, NoSilentLoss
<1>9. QED
  BY <1>2, <1>3, <1>4, <1>5, <1>6, <1>7, <1>8 DEF Consume, ConsumeCopy

LEMMA SafeStep == IInv /\ [Next]_vars => SafeInv'
<1> SUFFICES ASSUME IInv, [Next]_vars PROVE SafeInv'
  OBVIOUS
<1>1. CASE Boot
  BY <1>1, Quiet DEF Boot, Mount
<1>2. CASE Crash
  <2>1. CASE pc = "rename"
    BY <1>2, <2>1, Damaged DEF Crash, Intact
  <2>2. CASE pc # "rename"
    BY <1>2, <2>2, Quiet DEF Crash
  <2>3. QED
    BY <2>1, <2>2
<1>3. CASE UNCHANGED vars
  BY <1>3 DEF vars, sdVars, appVars, IInv, SafeInv, Staging, Received, Chunk, Clean,
     NoSilentLoss, NothingLost, Held, Intact
<1>4. QED
  BY <1>1, <1>2, <1>3, SafePoll, SafeLoopBody, SafeSend, SafeConsume DEF Next, Retransmit

\* A measurement that was written to the card is on the card or has reached the
\* server, through any interleaving of appends, sends, consumes, failing calls
\* and resets, unless one of the lossy events the model names has happened.
THEOREM NoMeasurementLost == Spec => []NoSilentLoss
<1>1. Init => IInv
  BY TypeInit, SafeInit DEF IInv
<1>2. IInv /\ [Next]_vars => IInv'
  BY TypeStep, SafeStep DEF IInv
<1>3. IInv => NoSilentLoss
  BY DEF IInv, SafeInv
<1>4. QED
  BY <1>1, <1>2, <1>3, PTL DEF Spec
=============================================================================
