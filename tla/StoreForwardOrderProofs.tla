---------------------- MODULE StoreForwardOrderProofs ----------------------
(***************************************************************************)
(* The order of delivery: without a lossy event the server holds a prefix  *)
(* of the measurements of each channel, so that the pipeline implements    *)
(* MeasurementLog; the files are drained one after the other; and lines    *)
(* that are deleted are not sent again.                                    *)
(***************************************************************************)
EXTENDS StoreForwardProofs, WellFoundedInduction

-----------------------------------------------------------------------------
(* Induction *)

\* A set of natural numbers has a least element.
LEMMA LeastElement ==
  ASSUME NEW T \in SUBSET Nat, T # {}
  PROVE  \E x \in T : \A y \in T : ~(y < x)
<1> DEFINE R == OpToRel(<, Nat)
<1>1. IsWellFoundedOn(R, Nat)
  BY NatLessThanWellFounded
<1>2. \A x, y \in Nat : <<y, x>> \in R <=> y < x
  BY DEF OpToRel
<1> HIDE DEF R
<1>3. \E x \in T : \A y \in T : ~(<<y, x>> \in R)
  BY <1>1, WFMin
<1>4. QED
  BY <1>2, <1>3

\* Induction over the natural numbers, for a set of them.
LEMMA SetInduction ==
  ASSUME NEW S, 0 \in S, \A n \in Nat : n \in S => n + 1 \in S
  PROVE  Nat \subseteq S
<1> DEFINE T == {n \in Nat : n \notin S}
<1>1. SUFFICES ASSUME T # {} PROVE FALSE
  OBVIOUS
<1>2. PICK x \in T : \A y \in T : ~(y < x)
  BY <1>1, LeastElement
<1>3. x # 0
  OBVIOUS
<1>4. x - 1 \in Nat /\ x - 1 \notin T
  BY <1>2, <1>3
<1>5. QED
  BY <1>4

-----------------------------------------------------------------------------
(* The measurements in a file *)

LEMMA IdsOfNothing == Ids(<<>>) = {}
BY DEF Ids, IdsUpTo

\* The first i lines carry no more than the first n.
LEMMA IdsGrow ==
  ASSUME NEW s, NEW n \in Nat, NEW i \in 0..n
  PROVE  IdsUpTo(s, i) \subseteq IdsUpTo(s, n)
BY DEF IdsUpTo

LEMMA IdsOfPrefix ==
  ASSUME NEW s \in Seq(Line), NEW n \in 0..Len(s)
  PROVE  IdsUpTo(s, n) \subseteq Ids(s) /\ IdsUpTo(s, n) \subseteq Nat
<1>1. IdsUpTo(s, n) \subseteq Ids(s)
  BY IdsGrow DEF Ids
<1>2. QED
  BY <1>1, IdsAreNumbers

\* Whatever a write does to a file, it adds no measurement but the line's.
LEMMA IdsOfWrite ==
  ASSUME NEW s \in Seq(Line), NEW line \in Line
  PROVE  Ids(Write(s, line)) \subseteq Ids(s) \union line.ids
<1>1. CASE EndsTorn(s)
  <2> DEFINE new == [ids |-> {}, len |-> s[Len(s)].len + line.len,
                     kind |-> IF line.kind = "torn" THEN "torn" ELSE "garbled"]
             t == [s EXCEPT ![Len(s)] = new]
  <2>1. Write(s, line) = t
    BY <1>1 DEF Write
  <2>2. new.ids = {}
    OBVIOUS
  <2> HIDE DEF new
  <2>3. Len(t) = Len(s) /\ \A i \in 1..Len(s) : t[i] = s[i] \/ t[i] = new
    OBVIOUS
  <2>4. \A i \in 1..Len(t) : t[i].ids \subseteq Ids(s)
    BY <2>2, <2>3 DEF Ids, IdsUpTo
  <2>5. Ids(t) \subseteq Ids(s)
    BY <2>4 DEF Ids, IdsUpTo
  <2>6. QED
    BY <2>1, <2>5
<1>2. CASE ~EndsTorn(s)
  BY <1>2, IdsOfAppend DEF Write
<1>3. QED
  BY <1>1, <1>2

\* The rest of a file has no measurement the file had not.
LEMMA IdsOfRest ==
  ASSUME NEW s \in Seq(Line), NEW n \in 0..Len(s)
  PROVE  Ids(SubSeq(s, n + 1, Len(s))) \subseteq Ids(s)
<1> DEFINE t == SubSeq(s, n + 1, Len(s))
<1>1. Len(t) = Len(s) - n /\ \A i \in 1..Len(t) : t[i] = s[n + i]
  OBVIOUS
<1>2. ASSUME NEW x \in Ids(t) PROVE x \in Ids(s)
  <2>1. PICK i \in 1..Len(t) : x \in t[i].ids
    BY <1>2 DEF Ids, IdsUpTo
  <2>2. n + i \in 1..Len(s) /\ x \in s[n + i].ids
    BY <1>1, <2>1
  <2>3. QED
    BY <2>2 DEF Ids, IdsUpTo
<1>3. QED
  BY <1>2

\* Nor has the rest of a file of which a chunk was cut off inside a line.
LEMMA IdsOfRemainder ==
  ASSUME NEW s \in Seq(Line), NEW n \in 0..Len(s), NEW end
  PROVE  Ids(Remainder(s, n, end)) \subseteq Ids(s)
<1> DEFINE t == SubSeq(s, n + 1, Len(s))
           r == RestOf(t[1])
           u == [t EXCEPT ![1] = r]
<1>1. t \in Seq(Line) /\ Ids(t) \subseteq Ids(s)
  BY IdsOfRest
<1>2. r.ids = {}
  BY DEF RestOf
<1>3. Remainder(s, n, end) \in {t, u}
  BY DEF Remainder
<1> HIDE DEF t, r
<1>4. Len(u) = Len(t) /\ \A i \in 1..Len(t) : u[i] = t[i] \/ u[i] = r
  BY <1>1
<1>5. \A i \in 1..Len(u) : u[i].ids \subseteq Ids(t)
  BY <1>2, <1>4 DEF Ids, IdsUpTo
<1>6. Ids(u) \subseteq Ids(t)
  BY <1>5 DEF Ids, IdsUpTo
<1>7. QED
  BY <1>1, <1>3, <1>6

-----------------------------------------------------------------------------
(* Files whose measurements follow those the server has *)

\* Before a measurement come, in the file, all earlier ones the server lacks.
Follows(s, g) ==
  \A j \in 1..Len(s) : \A id \in s[j].ids : \A m \in 1..id :
    m \in g \/ m \in IdsUpTo(s, j)

\* The server has all measurements before any it has.
IsPrefix(g) == \A id \in g : 1..id \subseteq g

LEMMA FollowsNothing == \A g : Follows(<<>>, g)
BY DEF Follows

LEMMA FollowsMore ==
  ASSUME NEW s, NEW g, NEW h, g \subseteq h, Follows(s, g)
  PROVE  Follows(s, h)
BY DEF Follows

\* A line at the end may bring what is in the file already, or what comes next.
LEMMA FollowsAppend ==
  ASSUME NEW s \in Seq(Line), NEW line \in Line, NEW g, Follows(s, g),
         \A id \in line.ids : \A m \in 1..id : m \in g \/ m \in Ids(s) \/ m \in line.ids
  PROVE  Follows(Append(s, line), g)
<1> DEFINE t == Append(s, line)
<1>1. /\ Len(t) = Len(s) + 1 /\ Len(s) \in Nat
      /\ \A i \in 1..Len(s) : t[i] = s[i]
      /\ t[Len(t)] = line /\ t \in Seq(Line)
  OBVIOUS
<1> HIDE DEF t
<1>2. \A j \in 1..Len(s) : IdsUpTo(t, j) = IdsUpTo(s, j)
  BY <1>1 DEF IdsUpTo
<1>3. IdsUpTo(t, Len(t)) = Ids(s) \union line.ids
  BY IdsOfAppend DEF t, Ids
<1>4. SUFFICES ASSUME NEW j \in 1..Len(t), NEW id \in t[j].ids, NEW m \in 1..id
               PROVE  m \in g \/ m \in IdsUpTo(t, j)
  BY DEF Follows, t
<1>5. CASE j \in 1..Len(s)
  BY <1>1, <1>2, <1>5 DEF Follows
<1>6. CASE j = Len(t)
  BY <1>1, <1>3, <1>6
<1>7. QED
  BY <1>1, <1>5, <1>6

\* Dropping what the server has leaves a file that follows.
LEMMA FollowsRest ==
  ASSUME NEW s \in Seq(Line), NEW n \in 0..Len(s), NEW g, Follows(s, g),
         IdsUpTo(s, n) \subseteq g
  PROVE  Follows(SubSeq(s, n + 1, Len(s)), g)
<1> DEFINE t == SubSeq(s, n + 1, Len(s))
<1>1. Len(t) = Len(s) - n /\ \A i \in 1..Len(t) : t[i] = s[n + i]
  OBVIOUS
<1>2. SUFFICES ASSUME NEW j \in 1..Len(t), NEW id \in t[j].ids, NEW m \in 1..id,
                      m \notin g
               PROVE  m \in IdsUpTo(t, j)
  BY DEF Follows
<1>3. n + j \in 1..Len(s) /\ id \in s[n + j].ids
  BY <1>1
<1>4. PICK i \in 1..(n + j) : m \in s[i].ids
  BY <1>2, <1>3 DEF Follows, IdsUpTo
<1>5. i \notin 1..n
  BY <1>2, <1>4 DEF IdsUpTo
<1> HIDE DEF t
<1>6. i - n \in 1..j /\ i - n \in 1..Len(t) /\ n + (i - n) = i
  BY <1>1, <1>4, <1>5
<1>7. t[i - n] = s[i]
  BY <1>1, <1>6
<1>8. QED
  BY <1>4, <1>6, <1>7 DEF IdsUpTo, t

\* A prefix of such a file makes the server's prefix longer.
LEMMA PrefixGrows ==
  ASSUME NEW s \in Seq(Line), NEW n \in 0..Len(s), NEW g, Follows(s, g), IsPrefix(g)
  PROVE  IsPrefix(g \union IdsUpTo(s, n))
<1>1. ASSUME NEW id \in IdsUpTo(s, n), NEW m \in 1..id
      PROVE  m \in g \/ m \in IdsUpTo(s, n)
  <2>1. PICK j \in 1..n : id \in s[j].ids
    BY <1>1 DEF IdsUpTo
  <2>2. m \in g \/ m \in IdsUpTo(s, j)
    BY <2>1 DEF Follows
  <2>3. IdsUpTo(s, j) \subseteq IdsUpTo(s, n)
    BY <2>1, IdsGrow
  <2>4. QED
    BY <2>2, <2>3
<1>2. QED
  BY <1>1 DEF IsPrefix

-----------------------------------------------------------------------------
(* The inductive invariant *)

\* A read error ends the chunk.
ReadBroken == ReadShort \/ ReadCut

\* What is read and sent is the selected file, so a failed chunk goes back
\* to the file it came from.
Selected == pc \in {"read", "send"} => filename = idx

\* Nothing is on the card or on the server that was not written.
Written ==
  \A f \in Files :
    /\ got[f] \subseteq 1..taken[f]
    /\ Ids(content[f]) \subseteq 1..taken[f]
    /\ Ids(staged[f]) \subseteq 1..taken[f]

\* What the card holds of a file follows what the server has of it.
InFile == Intact => \A f \in Files : Follows(Held(f), got[f])

OrderInv == IInv /\ Selected /\ Written /\ InFile /\ DeliveredInOrder

LEMMA OrderTypes ==
  ASSUME IInv
  PROVE  /\ SdTypeOK /\ filename \in Files
         /\ content \in [Files -> Seq(Line)] /\ staged \in [Files -> Seq(Line)]
         /\ taken \in [Files -> Nat] /\ got \in [Files -> SUBSET Nat]
         /\ pc \in {"read", "send", "consume", "unlink", "rename"} => idx \in Files
         /\ pc \in {"send", "consume", "unlink"} =>
              lines \in 0..Len(content[idx]) /\ (ended = "cut" => "cut" \in damage)
         /\ caller \in {"test", "iridium", "rest"}
BY DEF IInv, TypeInv, TypeOK, SdTypeOK, Sending

LEMMA SelectedStep ==
  ASSUME IInv, Selected, Next
  PROVE  Selected'
<1>0. caller \in {"test", "iridium", "rest"}
  BY OrderTypes
<1>1. CASE Boot \/ Crash \/ Poll
  BY <1>1 DEF Boot, Crash, Poll, PollStore, PollStoreFails, PollStoreUnsynced, PollStep,
              PollSkip, PollDone, Selected
<1>2. CASE LoopBody
  BY <1>2 DEF LoopBody, PeriodicSend, PeriodicSkip, TestSend, TestSkip, RetrySend,
              RetrySkip, IridiumSend, IridiumSkip, Wait, Sleep, NextPoll, CallRetransmit,
              Goto, Selected
<1>3. CASE ScanFile \/ ScanDone \/ ReadChunk \/ ReadBroken \/ ReadFails
  BY <1>0, <1>3 DEF ScanFile, ScanDone, ReadChunk, ReadBroken, ReadShort, ReadCut, ReadBreaks,
                    ReadFails, Return, sdVars, Selected
<1>4. CASE SendOk \/ SendHollow \/ SendFails
  BY <1>0, <1>4 DEF SendOk, SendHollow, SendFails, Return, Selected
<1>5. CASE Consume
  BY <1>5 DEF Consume, ConsumeAll, ConsumeCopy, ConsumeFails, ConsumeUnlink,
              ConsumeUnlinkFails, ConsumeRename, ConsumeRenameFails, Consumed,
              ConsumeStep, Selected
<1>6. QED
  BY <1>1, <1>2, <1>3, <1>4, <1>5 DEF Next, Retransmit, ReadBroken

-----------------------------------------------------------------------------
(* Nothing is invented *)

LEMMA IdsOfAppended ==
  ASSUME SdTypeOK, NEW f \in Files, NEW line, line.len \in Nat => line \in Line,
         AppendLine(f, line) \/ AppendFails(f, line)
  PROVE  /\ staged' = staged
         /\ \A e \in Files \ {f} : content'[e] = content[e]
         /\ AppendLine(f, line) => Ids(content'[f]) \subseteq Ids(content[f]) \union line.ids
         /\ AppendFails(f, line) => Ids(content'[f]) \subseteq Ids(content[f])
<1>0. content \in [Files -> Seq(Line)]
  BY DEF SdTypeOK
<1>1. Rotated(f) \in Seq(Line) /\ Ids(Rotated(f)) \subseteq Ids(content[f])
  BY <1>0, IdsOfNothing DEF Rotated
<1>2. ASSUME AppendLine(f, line)
      PROVE  /\ staged' = staged
             /\ \A e \in Files \ {f} : content'[e] = content[e]
             /\ Ids(content'[f]) \subseteq Ids(content[f]) \union line.ids
  <2>1. line \in Line
    BY <1>2, SizesAssumption DEF AppendLine
  <2>2. Ids(Write(Rotated(f), line)) \subseteq Ids(Rotated(f)) \union line.ids
    BY <1>1, <2>1, IdsOfWrite
  <2>3. content' = [content EXCEPT ![f] = Write(Rotated(f), line)] /\ staged' = staged
    BY <1>2 DEF AppendLine
  <2>4. content'[f] = Write(Rotated(f), line) /\ \A e \in Files \ {f} : content'[e] = content[e]
    BY <1>0, <2>3
  <2>5. QED
    BY <1>1, <2>2, <2>3, <2>4
<1>3. ASSUME AppendFails(f, line)
      PROVE  /\ staged' = staged
             /\ \A e \in Files \ {f} : content'[e] = content[e]
             /\ Ids(content'[f]) \subseteq Ids(content[f])
  <2>1. CASE UNCHANGED <<content, staged>>
    BY <2>1
  <2>2. CASE content' = [content EXCEPT ![f] = Rotated(f)] /\ staged' = staged
    BY <1>0, <1>1, <2>2
  <2>3. CASE content' = [content EXCEPT ![f] = Write(Rotated(f), TornPiece)] /\ staged' = staged
    <3>1. TornPiece \in Line /\ TornPiece.ids = {}
      BY LinesAreLines DEF TornPiece
    <3>2. Ids(Write(Rotated(f), TornPiece)) \subseteq Ids(Rotated(f))
      BY <1>1, <3>1, IdsOfWrite
    <3>3. content'[f] = Write(Rotated(f), TornPiece)
          /\ \A e \in Files \ {f} : content'[e] = content[e]
      BY <1>0, <2>3
    <3>4. QED
      BY <1>1, <2>3, <3>2, <3>3
  <2>4. QED
    BY <1>3, <2>1, <2>2, <2>3
       DEF AppendFails, AppendRejected, AppendAborted, AppendTorn
<1>4. QED
  BY <1>2, <1>3

\* A step that leaves the numbers alone, or takes some away.
LEMMA WrittenShrinks ==
  ASSUME Written, UNCHANGED <<taken, got>>,
         \A f \in Files : /\ Ids(content'[f]) \subseteq 1..taken[f]
                          /\ Ids(staged'[f]) \subseteq 1..taken[f]
  PROVE  Written'
<1>1. \A f : Ids(content[f])' = Ids(content'[f]) /\ Ids(staged[f])' = Ids(staged'[f])
  BY DEF Ids, IdsUpTo
<1>2. QED
  BY <1>1 DEF Written

LEMMA WrittenPoll ==
  ASSUME IInv, Written, Poll
  PROVE  Written'
<1>0. SdTypeOK /\ taken \in [Files -> Nat]
  BY OrderTypes
<1>1. CASE PollSkip \/ PollDone
  BY <1>1 DEF PollSkip, PollDone, sdVars, Written
<1>2. ASSUME NEW c \in 1..Channels, PollStep(c),
             \/ /\ AppendLine(c, Record(taken[c] + 1))
                /\ taken' = [taken EXCEPT ![c] = @ + 1]
             \/ AppendFails(c, Record(taken[c] + 1)) /\ taken' = taken
      PROVE  Written'
  <2> DEFINE line == Record(taken[c] + 1)
  <2>1. c \in Files
    BY ChannelsAssumption DEF Files
  <2>2. line \in Line /\ line.ids = {taken[c] + 1}
    BY <1>0, <2>1, LinesAreLines DEF Record
  <2> HIDE DEF line
  <2>3. /\ staged' = staged
        /\ \A e \in Files \ {c} : content'[e] = content[e]
        /\ AppendLine(c, line) => Ids(content'[c]) \subseteq Ids(content[c]) \union line.ids
        /\ AppendFails(c, line) => Ids(content'[c]) \subseteq Ids(content[c])
    BY <1>0, <1>2, <2>1, <2>2, IdsOfAppended DEF line
  <2>4. got' = got
    BY <1>2 DEF PollStep
  <2>5. \A f \in Files : 1..taken[f] \subseteq 1..taken'[f]
    BY <1>0, <1>2, <2>1
  <2>6. Ids(content'[c]) \subseteq 1..taken'[c]
    <3>1. CASE AppendLine(c, line) /\ taken' = [taken EXCEPT ![c] = @ + 1]
      <4>1. taken[c] + 1 \in 1..taken'[c]
        BY <1>0, <2>1, <3>1
      <4>2. QED
        BY <2>1, <2>2, <2>3, <2>5, <3>1, <4>1 DEF Written
    <3>2. CASE AppendFails(c, line) /\ taken' = taken
      BY <2>1, <2>3, <3>2 DEF Written
    <3>3. QED
      BY <1>2, <3>1, <3>2 DEF line
  <2>7. \A f : Ids(content[f])' = Ids(content'[f]) /\ Ids(staged[f])' = Ids(staged'[f])
    BY DEF Ids, IdsUpTo
  <2>8. QED
    BY <2>3, <2>4, <2>5, <2>6, <2>7 DEF Written
<1>3. CASE PollStore \/ PollStoreFails \/ PollStoreUnsynced
  <2>1. \E c \in 1..Channels :
          /\ PollStep(c)
          /\ \/ /\ AppendLine(c, Record(taken[c] + 1))
                /\ taken' = [taken EXCEPT ![c] = @ + 1]
             \/ AppendFails(c, Record(taken[c] + 1)) /\ taken' = taken
    BY <1>3 DEF PollStore, PollStoreFails, PollStoreUnsynced
  <2>2. QED
    BY <1>2, <2>1
<1>4. QED
  BY <1>1, <1>3 DEF Poll

\* A line whose measurements are in the file already changes nothing.
LEMMA WrittenAppend ==
  ASSUME IInv, Written, NEW f \in Files, NEW line, line.len \in Nat => line \in Line,
         line.ids \subseteq Ids(content[f]), taken' = taken,
         AppendLine(f, line) \/ AppendFails(f, line),
         \A c \in Files : got'[c] \subseteq 1..taken[c]
  PROVE  Written'
<1>1. /\ staged' = staged
      /\ \A e \in Files \ {f} : content'[e] = content[e]
      /\ AppendLine(f, line) => Ids(content'[f]) \subseteq Ids(content[f]) \union line.ids
      /\ AppendFails(f, line) => Ids(content'[f]) \subseteq Ids(content[f])
  BY OrderTypes, IdsOfAppended
<1>2. \A c : Ids(content[c])' = Ids(content'[c]) /\ Ids(staged[c])' = Ids(staged'[c])
  BY DEF Ids, IdsUpTo
<1>3. QED
  BY <1>1, <1>2 DEF Written

\* The chunk: where it is, and what it carries.
LEMMA ChunkFacts ==
  ASSUME IInv, pc \in {"send", "consume", "unlink"}
  PROVE  /\ idx \in Files /\ content[idx] \in Seq(Line) /\ lines \in 0..Len(content[idx])
         /\ Chunk = IdsUpTo(content[idx], lines) /\ Chunk \subseteq Ids(content[idx])
         /\ ChunkLine(content[idx], lines, ended).ids \subseteq Chunk
         /\ Intact => ChunkLine(content[idx], lines, ended).ids = Chunk
         /\ ChunkLine(content[idx], lines, ended).len \in Nat
              => ChunkLine(content[idx], lines, ended) \in Line
<1>1. /\ idx \in Files /\ content[idx] \in Seq(Line) /\ lines \in 0..Len(content[idx])
  BY OrderTypes
<1>2. /\ Chunk = IdsUpTo(content[idx], lines)
      /\ ChunkLine(content[idx], lines, ended).ids = IF ended = "cut" THEN {} ELSE Chunk
  BY DEF Chunk, ChunkLine
<1>3. Chunk \subseteq Ids(content[idx])
  BY <1>1, <1>2, IdsOfPrefix
<1>4. Intact => ended # "cut"
  BY OrderTypes DEF Intact
<1>5. QED
  BY <1>1, <1>2, <1>3, <1>4, ChunkType DEF IInv

LEMMA WrittenStep ==
  ASSUME IInv, Selected, Written, Next
  PROVE  Written'
<1>0. /\ SdTypeOK /\ filename \in Files
      /\ content \in [Files -> Seq(Line)] /\ staged \in [Files -> Seq(Line)]
      /\ taken \in [Files -> Nat] /\ got \in [Files -> SUBSET Nat]
  BY OrderTypes
<1>1. CASE UNCHANGED <<content, staged, taken, got>>
  BY <1>1 DEF Written
<1>2. CASE Poll
  BY <1>2, WrittenPoll
<1>3. CASE TestSend
  <2>1. CASE UNCHANGED sdVars
    BY <1>1, <1>3, <2>1 DEF TestSend, sdVars
  <2>2. CASE AppendLine(filename, Foreign) \/ AppendFails(filename, Foreign)
    <3>1. Foreign \in Line /\ Foreign.ids = {}
      BY LinesAreLines DEF Foreign
    <3>2. UNCHANGED <<taken, got>>
      BY <1>3 DEF TestSend
    <3>3. \A c \in Files : got'[c] \subseteq 1..taken[c]
      BY <3>2 DEF Written
    <3>4. QED
      BY <1>0, <2>2, <3>1, <3>2, <3>3, WrittenAppend
  <2>3. QED
    BY <1>3, <2>1, <2>2 DEF TestSend
<1>4. CASE SendOk
  <2>1. Chunk \subseteq Ids(content[idx]) /\ idx \in Files
    BY <1>4, ChunkFacts DEF SendOk
  <2>2. /\ UNCHANGED <<content, staged, taken>>
        /\ got' = got \/ got' = [got EXCEPT ![idx] = @ \union Chunk]
    BY <1>4 DEF SendOk, Deliver, sdVars
  <2>3. \A c \in Files : got'[c] \subseteq 1..taken[c]
    BY <1>0, <2>1, <2>2 DEF Written
  <2>4. QED
    BY <2>2, <2>3 DEF Written
<1>5. CASE SendFails
  <2> DEFINE line == ChunkLine(content[idx], lines, ended)
  <2>1. /\ idx \in Files /\ line.ids \subseteq Chunk /\ Chunk \subseteq Ids(content[idx])
        /\ line.len \in Nat => line \in Line
    BY <1>5, ChunkFacts DEF SendFails
  <2>2. filename = idx /\ taken' = taken
    BY <1>5 DEF SendFails, Return, Selected
  <2>3. AppendLine(filename, line) \/ AppendFails(filename, line)
    BY <1>5 DEF SendFails
  <2>4. got' = got \/ got' = [got EXCEPT ![idx] = @ \union Chunk]
    BY <1>5 DEF SendFails, Deliver
  <2> HIDE DEF line
  <2>5. \A c \in Files : got'[c] \subseteq 1..taken[c]
    BY <1>0, <2>1, <2>4 DEF Written
  <2>6. QED
    BY <2>1, <2>2, <2>3, <2>5, WrittenAppend
<1>6. CASE Consume /\ ~UNCHANGED <<content, staged, taken, got>>
  <2>1. idx \in Files /\ UNCHANGED <<taken, got>>
    BY <1>6, OrderTypes
       DEF Consume, ConsumeAll, ConsumeCopy, ConsumeFails, ConsumeUnlink,
           ConsumeUnlinkFails, ConsumeRename, ConsumeRenameFails, Consumed, ConsumeStep
  <2>2. CASE UnlinkAll(idx)
    <3>1. content'[idx] = <<>> /\ staged' = staged
          /\ \A e \in Files \ {idx} : content'[e] = content[e]
      BY <1>0, <2>1, <2>2 DEF UnlinkAll
    <3>2. QED
      BY <2>1, <3>1, IdsOfNothing, WrittenShrinks DEF Written
  <2>3. CASE ConsumeCopy /\ CopyTail(idx, lines, ended)
    <3>1. /\ idx \in Files /\ content[idx] \in Seq(Line) /\ lines \in 0..Len(content[idx])
      BY <2>3, ChunkFacts DEF ConsumeCopy
    <3>2. Ids(Remainder(content[idx], lines, ended)) \subseteq Ids(content[idx])
      BY <3>1, IdsOfRemainder
    <3>3. staged'[idx] = Remainder(content[idx], lines, ended)
          /\ content' = content /\ \A e \in Files \ {idx} : staged'[e] = staged[e]
      BY <1>0, <2>1, <2>3 DEF CopyTail
    <3>4. QED
      BY <2>1, <3>2, <3>3, WrittenShrinks DEF Written
  <2>4. CASE ConsumeUnlinkFails \/ ConsumeRenameFails \/ CopyUnclosed(idx)
    <3>1. staged'[idx] = <<>> /\ content' = content
          /\ \A e \in Files \ {idx} : staged'[e] = staged[e]
      BY <1>0, <2>1, <2>4 DEF ConsumeUnlinkFails, UnlinkFails, ConsumeRenameFails, RenameFails,
                              CopyUnclosed
    <3>2. QED
      BY <2>1, <3>1, IdsOfNothing, WrittenShrinks DEF Written
  <2>5. CASE ConsumeRename
    <3>1. staged'[idx] = <<>> /\ content'[idx] = staged[idx]
          /\ \A e \in Files \ {idx} : staged'[e] = staged[e] /\ content'[e] = content[e]
      BY <1>0, <2>1, <2>5 DEF ConsumeRename, RenameTmp
    <3>2. QED
      BY <2>1, <3>1, IdsOfNothing, WrittenShrinks DEF Written
  <2>6. QED
    BY <1>6, <2>2, <2>3, <2>4, <2>5
       DEF Consume, ConsumeAll, ConsumeCopy, ConsumeFails, ConsumeUnlink, Consumed
<1>7. CASE Boot \/ Crash
  BY <1>1, <1>7 DEF Boot, Mount, Crash
<1>8. CASE LoopBody /\ ~TestSend
  BY <1>1, <1>8
     DEF LoopBody, PeriodicSend, PeriodicSkip, TestSkip, RetrySend, RetrySkip, IridiumSend,
         IridiumSkip, Wait, Sleep, NextPoll, Mount, CallRetransmit, ProbeBackups, Goto, sdVars
<1>9. CASE ScanFile \/ ScanDone \/ ReadChunk \/ ReadBroken \/ ReadFails \/ SendHollow
  BY <1>1, <1>9 DEF ScanFile, ScanDone, ReadChunk, ReadBroken, ReadShort, ReadCut, ReadBreaks,
                    ReadFails, SendHollow, Return, sdVars
<1>10. QED
  BY <1>1, <1>2, <1>3, <1>4, <1>5, <1>6, <1>7, <1>8, <1>9 DEF Next, Retransmit, ReadBroken

-----------------------------------------------------------------------------
(* The order is kept *)

\* What a later state must show, and what an earlier one gives.
LEMMA OrderAfter ==
  ASSUME Intact' =>
           \A f \in Files : Follows(Held(f)', got'[f]) /\ IsPrefix(got'[f])
  PROVE  InFile' /\ DeliveredInOrder'
<1>1. \A f : Follows(Held(f), got[f])' <=> Follows(Held(f)', got'[f])
  BY DEF Follows, IdsUpTo
<1>2. QED
  BY <1>1 DEF InFile, DeliveredInOrder, IsPrefix

LEMMA OrderBefore ==
  ASSUME InFile, DeliveredInOrder, Intact
  PROVE  \A f \in Files : Follows(Held(f), got[f]) /\ IsPrefix(got[f])
BY DEF InFile, DeliveredInOrder, IsPrefix

\* A step that changes nothing of what is held and received.
LEMMA OrderSame ==
  ASSUME InFile, DeliveredInOrder, Intact' => Intact,
         \A f \in Files : Held(f)' = Held(f), got' = got
  PROVE  InFile' /\ DeliveredInOrder'
BY OrderAfter, OrderBefore

LEMMA OrderQuiet ==
  ASSUME InFile, DeliveredInOrder, damage \subseteq damage',
         UNCHANGED <<content, got>>, pc # "rename", pc' # "rename"
  PROVE  InFile' /\ DeliveredInOrder'
<1>1. \A f \in Files : Held(f)' = Held(f)
  BY DEF Held
<1>2. QED
  BY <1>1, OrderSame DEF Intact

\* A line is added that brings what comes next, or what is in the file already.
LEMMA OrderAppend ==
  ASSUME IInv, InFile, DeliveredInOrder, pc # "rename", pc' # "rename",
         NEW f \in Files, NEW line, line.len \in Nat => line \in Line,
         AppendLine(f, line) \/ AppendFails(f, line),
         Intact => \A c \in Files : got[c] \subseteq got'[c] /\ IsPrefix(got'[c]),
         Intact => \A id \in line.ids : \A m \in 1..id :
           m \in got'[f] \/ m \in Ids(content[f]) \/ m \in line.ids
  PROVE  InFile' /\ DeliveredInOrder'
<1>1. SUFFICES ASSUME Intact'
               PROVE  \A c \in Files : Follows(Held(c)', got'[c]) /\ IsPrefix(got'[c])
  BY OrderAfter
<1>2. SdTypeOK /\ content \in [Files -> Seq(Line)]
  BY OrderTypes
<1>3. Intact
  BY <1>1 DEF AppendLine, AppendFails, AppendRejected, AppendAborted, AppendTorn, Intact
<1>4. \A c : Held(c) = content[c] /\ Held(c)' = content'[c]
  BY DEF Held
<1>5. \A c \in Files : Follows(content[c], got[c]) /\ ~EndsTorn(content[c])
  BY <1>3, <1>4, OrderBefore DEF IInv, SafeInv, Clean
<1>6. \A c \in Files : Follows(content[c], got'[c])
  BY <1>3, <1>5, FollowsMore
<1>7. CASE AppendLine(f, line)
  <2>1. line \in Line
    BY <1>7, SizesAssumption DEF AppendLine
  <2>2. content' = [content EXCEPT ![f] = Append(content[f], line)]
    BY <1>1, <1>2, <1>5, <1>7, CleanAppend
  <2>3. Follows(Append(content[f], line), got'[f])
    BY <1>2, <1>3, <1>6, <2>1, FollowsAppend
  <2>4. \A c \in Files : Follows(content'[c], got'[c])
    <3>1. content'[f] = Append(content[f], line)
          /\ \A c \in Files \ {f} : content'[c] = content[c]
      BY <1>2, <2>2
    <3>2. QED
      BY <1>6, <2>3, <3>1
  <2>5. QED
    BY <1>3, <1>4, <2>4
<1>8. CASE ~AppendLine(f, line)
  <2>1. content' = content
    BY <1>1, <1>2, <1>5, <1>8, CleanAppend
  <2>2. QED
    BY <1>3, <1>4, <1>6, <2>1
<1>9. QED
  BY <1>7, <1>8

\* A prefix of a file is dropped that the server has.
LEMMA OrderDrop ==
  ASSUME IInv, InFile, DeliveredInOrder, NEW f \in Files, NEW n \in 0..Len(content[f]),
         Intact => IdsUpTo(content[f], n) \subseteq got[f], pc # "rename",
         Intact => Held(f)' = SubSeq(content[f], n + 1, Len(content[f])),
         \A e \in Files \ {f} : Held(e)' = content[e],
         UNCHANGED <<damage, got>>
  PROVE  InFile' /\ DeliveredInOrder'
<1>1. SUFFICES ASSUME Intact
               PROVE  \A c \in Files : Follows(Held(c)', got[c]) /\ IsPrefix(got[c])
  BY OrderAfter DEF Intact
<1>2. content[f] \in Seq(Line) /\ \A c : Held(c) = content[c]
  BY OrderTypes DEF Held
<1>3. \A c \in Files : Follows(content[c], got[c]) /\ IsPrefix(got[c])
  BY <1>1, <1>2, OrderBefore
<1>4. Follows(SubSeq(content[f], n + 1, Len(content[f])), got[f])
  BY <1>1, <1>2, <1>3, FollowsRest
<1>5. QED
  BY <1>1, <1>3, <1>4

LEMMA OrderPoll ==
  ASSUME IInv, InFile, DeliveredInOrder, Poll
  PROVE  InFile' /\ DeliveredInOrder'
<1>0. taken \in [Files -> Nat]
  BY OrderTypes
<1>1. CASE PollSkip \/ PollDone
  BY <1>1, OrderQuiet DEF PollSkip, PollDone, sdVars
<1>2. CASE PollStore \/ PollStoreFails \/ PollStoreUnsynced
  <2>1. PICK c \in 1..Channels :
          PollStep(c) /\ ( \/ AppendLine(c, Record(taken[c] + 1))
                           \/ AppendFails(c, Record(taken[c] + 1)) )
    BY <1>2 DEF PollStore, PollStoreFails, PollStoreUnsynced
  <2> DEFINE line == Record(taken[c] + 1)
  <2>2. c \in Files /\ line \in Line /\ line.ids = {taken[c] + 1}
    BY <1>0, ChannelsAssumption, LinesAreLines DEF Files, Record
  <2>3. AppendLine(c, line) \/ AppendFails(c, line)
    BY <2>1
  <2> HIDE DEF line
  <2>4. pc = "poll" /\ pc' = "poll" /\ got' = got
    BY <2>1 DEF PollStep
  <2>5. ASSUME Intact, NEW m \in 1..(taken[c] + 1)
        PROVE  m \in got'[c] \/ m \in Ids(content[c]) \/ m \in line.ids
    <3>1. m \in 1..taken[c] \/ m = taken[c] + 1
      BY <1>0, <2>2
    <3>2. CASE m \in 1..taken[c]
      BY <2>2, <2>4, <2>5, <3>2 DEF IInv, SafeInv, NoSilentLoss, NothingLost, Held
    <3>3. QED
      BY <2>2, <3>1, <3>2
  <2>6. Intact => \A e \in Files : got[e] \subseteq got'[e] /\ IsPrefix(got'[e])
    BY <2>4, OrderBefore
  <2>7. Intact => \A id \in line.ids : \A m \in 1..id :
          m \in got'[c] \/ m \in Ids(content[c]) \/ m \in line.ids
    BY <2>2, <2>5
  <2>8. QED
    BY <2>2, <2>3, <2>4, <2>6, <2>7, OrderAppend
<1>3. QED
  BY <1>1, <1>2 DEF Poll

\* A chunk that arrives makes the prefix longer, whatever comes of the answer.
LEMMA ChunkArrives ==
  ASSUME IInv, InFile, DeliveredInOrder, Intact, pc = "send",
         got' = got \/ got' = [got EXCEPT ![idx] = @ \union Chunk]
  PROVE  \A c \in Files : got[c] \subseteq got'[c] /\ IsPrefix(got'[c])
<1>1. \A c \in Files : Follows(content[c], got[c]) /\ IsPrefix(got[c])
  BY OrderBefore DEF Held
<1>2. /\ idx \in Files /\ content[idx] \in Seq(Line) /\ lines \in 0..Len(content[idx])
      /\ Chunk = IdsUpTo(content[idx], lines) /\ got \in [Files -> SUBSET Nat]
  BY ChunkFacts, OrderTypes
<1>3. IsPrefix(got[idx] \union Chunk)
  BY <1>1, <1>2, PrefixGrows
<1>4. CASE got' = got
  BY <1>1, <1>4
<1>5. CASE got' = [got EXCEPT ![idx] = @ \union Chunk]
  <2>1. /\ got'[idx] = got[idx] \union Chunk
        /\ \A c \in Files \ {idx} : got'[c] = got[c]
    BY <1>2, <1>5
  <2>2. QED
    BY <1>1, <1>3, <2>1
<1>6. QED
  BY <1>4, <1>5

LEMMA OrderSend ==
  ASSUME IInv, Selected, InFile, DeliveredInOrder, SendOk \/ SendHollow \/ SendFails
  PROVE  InFile' /\ DeliveredInOrder'
<1>1. CASE SendOk
  <2>1. /\ pc = "send" /\ pc' = "consume" /\ UNCHANGED <<content, damage>>
        /\ got' = got \/ got' = [got EXCEPT ![idx] = @ \union Chunk]
    BY <1>1 DEF SendOk, Deliver, sdVars
  <2>2. \A c : Held(c) = content[c] /\ Held(c)' = content[c]
    BY <2>1 DEF Held
  <2>3. ASSUME Intact, NEW c \in Files
        PROVE  Follows(content[c], got'[c]) /\ IsPrefix(got'[c])
    <3>1. Follows(content[c], got[c])
      BY <2>2, <2>3, OrderBefore
    <3>2. got[c] \subseteq got'[c] /\ IsPrefix(got'[c])
      BY <2>1, <2>3, ChunkArrives
    <3>3. QED
      BY <3>1, <3>2, FollowsMore
  <2>4. QED
    BY <2>1, <2>2, <2>3, OrderAfter DEF Intact
<1>2. CASE SendHollow
  BY <1>2, OrderAfter DEF SendHollow, Intact
<1>3. CASE SendFails
  <2> DEFINE line == ChunkLine(content[idx], lines, ended)
  <2>1. /\ pc = "send" /\ pc' = caller /\ filename = idx
        /\ got' = got \/ got' = [got EXCEPT ![idx] = @ \union Chunk]
        /\ AppendLine(filename, line) \/ AppendFails(filename, line)
    BY <1>3 DEF SendFails, Return, Deliver, Selected
  <2>2. /\ idx \in Files /\ (Intact => line.ids = Chunk)
        /\ Chunk \subseteq Ids(content[idx])
        /\ line.len \in Nat => line \in Line
        /\ Chunk = IdsUpTo(content[idx], lines)
        /\ content[idx] \in Seq(Line) /\ lines \in 0..Len(content[idx])
    BY <2>1, ChunkFacts
  <2>3. pc' # "rename"
    BY <2>1, OrderTypes
  <2> HIDE DEF line
  <2>4. Intact => \A c \in Files : got[c] \subseteq got'[c] /\ IsPrefix(got'[c])
    BY <2>1, ChunkArrives
  <2>5. ASSUME Intact, NEW id \in line.ids, NEW m \in 1..id
        PROVE  m \in got'[idx] \/ m \in Ids(content[idx])
    <3>1. IsPrefix(got[idx] \union Chunk)
      BY <2>1, <2>2, <2>5, OrderBefore, PrefixGrows DEF Held
    <3>2. m \in got[idx] \union Chunk
      BY <2>2, <2>5, <3>1 DEF IsPrefix
    <3>3. QED
      BY <2>2, <2>4, <2>5, <3>2
  <2>6. QED
    BY <2>1, <2>2, <2>3, <2>4, <2>5, OrderAppend
<1>4. QED
  BY <1>1, <1>2, <1>3

LEMMA OrderConsume ==
  ASSUME IInv, InFile, DeliveredInOrder, Consume
  PROVE  InFile' /\ DeliveredInOrder'
<1>0. content \in [Files -> Seq(Line)] /\ staged \in [Files -> Seq(Line)]
  BY OrderTypes
<1>1. ASSUME pc \in {"consume", "unlink"}
      PROVE  /\ idx \in Files /\ lines \in 0..Len(content[idx])
             /\ content[idx] \in Seq(Line)
             /\ Intact => IdsUpTo(content[idx], lines) \subseteq got[idx]
             /\ Intact => Remainder(content[idx], lines, ended) =
                            SubSeq(content[idx], lines + 1, Len(content[idx]))
  <2>1. Intact => ended # "cut"
    BY <1>1, OrderTypes DEF Intact
  <2>2. QED
    BY <1>1, <2>1, ChunkFacts DEF IInv, SafeInv, Received, Remainder
<1>2. CASE ConsumeAll
  <2>1. /\ pc = "consume" /\ pc' = "scan" /\ lines = Len(content[idx])
        /\ content' = [content EXCEPT ![idx] = <<>>]
        /\ UNCHANGED <<damage, got>>
    BY <1>2 DEF ConsumeAll, WholeFile, UnlinkAll, Consumed
  <2>2. PICK f \in Files, n \in 0..Len(content[idx]) : f = idx /\ n = lines
    BY <1>1, <2>1
  <2>3. \A e \in Files : Held(e)' = content'[e]
    BY <2>1 DEF Held
  <2>4. SubSeq(content[f], n + 1, Len(content[f])) = <<>>
    BY <1>1, <2>1, <2>2
  <2>5. Held(f)' = <<>> /\ \A e \in Files \ {f} : Held(e)' = content[e]
    BY <1>0, <2>1, <2>2, <2>3
  <2>6. QED
    BY <1>1, <2>1, <2>2, <2>4, <2>5, OrderDrop
<1>3. CASE ConsumeCopy \/ ConsumeFails \/ ConsumeUnlinkFails
  BY <1>3, OrderQuiet
     DEF ConsumeCopy, CopyTail, ConsumeStep, ConsumeFails, ConsumeUnlinkFails, UnlinkFails,
         Consumed, CopyUnclosed
<1>4. CASE ConsumeUnlink
  <2>1. /\ pc = "unlink" /\ pc' = "rename" /\ idx' = idx
        /\ content' = [content EXCEPT ![idx] = <<>>]
        /\ UNCHANGED <<staged, damage, got>>
    BY <1>4 DEF ConsumeUnlink, UnlinkAll, ConsumeStep
  <2>2. PICK f \in Files, n \in 0..Len(content[idx]) : f = idx /\ n = lines
    BY <1>1, <2>1
  <2>3. Intact => Held(f)' = SubSeq(content[f], n + 1, Len(content[f]))
    <3>1. Intact => staged[f] = SubSeq(content[f], n + 1, Len(content[f]))
      BY <1>1, <2>1, <2>2 DEF IInv, SafeInv, Staging
    <3>2. Held(f)' = staged'[f]
      BY <2>1, <2>2 DEF Held
    <3>3. QED
      BY <2>1, <3>1, <3>2
  <2>4. \A e \in Files \ {f} : Held(e)' = content[e]
    <3>1. \A e \in Files \ {f} : Held(e)' = content'[e]
      BY <2>1, <2>2 DEF Held
    <3>2. QED
      BY <1>0, <2>1, <2>2, <3>1
  <2>5. QED
    BY <1>1, <2>1, <2>2, <2>3, <2>4, OrderDrop
<1>5. CASE ConsumeRename
  <2>1. /\ pc = "rename" /\ pc' = "scan"
        /\ content' = [content EXCEPT ![idx] = staged[idx]]
        /\ UNCHANGED <<damage, got>>
    BY <1>5 DEF ConsumeRename, RenameTmp, Consumed
  <2>2. \A f \in Files : Held(f)' = Held(f)
    BY <1>0, <2>1 DEF Held
  <2>3. QED
    BY <2>1, <2>2, OrderSame DEF Intact
<1>6. CASE ConsumeRenameFails
  BY <1>6, OrderAfter DEF ConsumeRenameFails, RenameFails, Consumed, Intact
<1>7. QED
  BY <1>2, <1>3, <1>4, <1>5, <1>6 DEF Consume

LEMMA OrderStep ==
  ASSUME IInv, Selected, InFile, DeliveredInOrder, Next
  PROVE  InFile' /\ DeliveredInOrder'
<1>0. caller \in {"test", "iridium", "rest"} /\ filename \in Files
  BY OrderTypes
<1>1. CASE Boot
  BY <1>1, OrderQuiet DEF Boot, Mount
<1>2. CASE Crash
  <2>1. CASE pc = "rename"
    BY <1>2, <2>1, OrderAfter DEF Crash, Intact
  <2>2. CASE pc # "rename"
    BY <1>2, <2>2, OrderQuiet DEF Crash
  <2>3. QED
    BY <2>1, <2>2
<1>3. CASE LoopBody /\ ~TestSend
  BY <1>3, OrderQuiet
     DEF LoopBody, PeriodicSend, PeriodicSkip, TestSkip, RetrySend, RetrySkip, IridiumSend,
         IridiumSkip, Wait, Sleep, NextPoll, Mount, CallRetransmit, ProbeBackups, Goto, sdVars
<1>4. CASE TestSend
  <2>1. pc # "rename" /\ pc' # "rename" /\ got' = got
    BY <1>4 DEF TestSend
  <2>2. CASE UNCHANGED sdVars
    BY <2>1, <2>2, OrderQuiet DEF sdVars
  <2>3. CASE AppendLine(filename, Foreign) \/ AppendFails(filename, Foreign)
    <3>1. Foreign \in Line /\ Foreign.ids = {}
      BY LinesAreLines DEF Foreign
    <3>2. Intact => \A c \in Files : got[c] \subseteq got'[c] /\ IsPrefix(got'[c])
      BY <2>1, OrderBefore
    <3>3. QED
      BY <1>0, <2>1, <2>3, <3>1, <3>2, OrderAppend
  <2>4. QED
    BY <1>4, <2>2, <2>3 DEF TestSend
<1>5. CASE ScanFile \/ ScanDone \/ ReadChunk \/ ReadBroken \/ ReadFails
  BY <1>0, <1>5, OrderQuiet DEF ScanFile, ScanDone, ReadChunk, ReadBroken, ReadShort, ReadCut,
                                ReadBreaks, ReadFails, Return, sdVars
<1>6. QED
  BY <1>1, <1>2, <1>3, <1>4, <1>5, OrderPoll, OrderSend, OrderConsume DEF Next, Retransmit,
     ReadBroken

LEMMA OrderInit == Init => OrderInv
<1> SUFFICES ASSUME Init PROVE OrderInv
  OBVIOUS
<1>1. IInv
  BY TypeInit, SafeInit DEF IInv
<1>2. \A f \in Files : got[f] = {} /\ Held(f) = <<>> /\ content[f] = <<>> /\ staged[f] = <<>>
  BY DEF Init, SdInit, Held
<1>3. Selected
  BY DEF Init, Selected
<1>4. Written
  BY <1>2, IdsOfNothing DEF Written
<1>5. InFile
  BY <1>2, FollowsNothing DEF InFile
<1>6. DeliveredInOrder
  BY <1>2 DEF DeliveredInOrder
<1>7. QED
  BY <1>1, <1>3, <1>4, <1>5, <1>6 DEF OrderInv

LEMMA OrderInvStep == OrderInv /\ [Next]_vars => OrderInv'
<1>1. ASSUME OrderInv, Next PROVE OrderInv'
  <2>1. IInv'
    BY <1>1, TypeStep, SafeStep DEF IInv, OrderInv
  <2>2. QED
    BY <1>1, <2>1, SelectedStep, WrittenStep, OrderStep DEF OrderInv
<1>2. ASSUME OrderInv, UNCHANGED vars PROVE OrderInv'
  <2>1. IInv'
    BY <1>2, TypeStep, SafeStep DEF IInv, OrderInv
  <2>2. QED
    BY <1>2, <2>1
       DEF vars, sdVars, appVars, OrderInv, Selected, Written, InFile, DeliveredInOrder,
           Held, Follows, IdsUpTo, Ids, Intact
<1>3. QED
  BY <1>1, <1>2

\* Without a lossy event the server receives the measurements of a channel in the
\* order they were made, through repeated, failed and half-answered sends, for any
\* number of channels and measurements and any set of faults.
THEOREM DeliveryInOrder == Spec => []DeliveredInOrder
<1>1. OrderInv => DeliveredInOrder
  BY DEF OrderInv
<1>2. QED
  BY <1>1, OrderInit, OrderInvStep, PTL DEF Spec

-----------------------------------------------------------------------------
(* The pipeline implements the measurement log *)

\* A bounded prefix is the interval up to its last measurement.
LEMMA PrefixIsInterval ==
  ASSUME NEW N \in Nat, NEW G, G \subseteq 1..N, IsPrefix(G)
  PROVE  \E n \in 0..N : G = 1..n
<1> DEFINE Tops == {n \in Nat : n + 1 \notin G}
<1>1. N \in Tops
  OBVIOUS
<1>2. PICK n \in Tops : \A k \in Tops : ~(k < n)
  <2>1. Tops \in SUBSET Nat /\ Tops # {}
    BY <1>1
  <2> HIDE DEF Tops
  <2>2. QED
    BY <2>1, LeastElement
<1>3. \A k \in Tops : n <= k
  BY <1>2
<1>4. ASSUME NEW m \in 1..n PROVE m \in G
  <2>1. m - 1 \in Nat /\ m - 1 < n /\ (m - 1) + 1 = m
    OBVIOUS
  <2>2. m - 1 \notin Tops
    BY <1>3, <2>1
  <2>3. QED
    BY <2>1, <2>2
<1>5. ASSUME NEW id \in G PROVE id \in 1..n
  <2>1. SUFFICES ASSUME id > n PROVE FALSE
    OBVIOUS
  <2>2. n + 1 \in 1..id
    BY <2>1
  <2>3. n + 1 \in G
    BY <2>2 DEF IsPrefix
  <2>4. QED
    BY <2>3
<1>6. n \in 0..N
  BY <1>1, <1>3
<1>7. QED
  BY <1>4, <1>5, <1>6

LEMMA AppendDamages ==
  ASSUME NEW f, NEW line, AppendLine(f, line) \/ AppendFails(f, line)
  PROVE  damage \subseteq damage'
BY DEF AppendLine, AppendFails, AppendRejected, AppendAborted, AppendTorn

\* Damage is not undone, and the server and the count never lose anything.
LEMMA HistoryGrows ==
  ASSUME OrderInv, Next
  PROVE  /\ damage \subseteq damage'
         /\ \A f \in Files : taken[f] <= taken'[f] /\ got[f] \subseteq got'[f]
<1>0. taken \in [Files -> Nat] /\ got \in [Files -> SUBSET Nat]
  BY OrderTypes DEF OrderInv
<1>1. CASE UNCHANGED <<taken, got>>
  <2>1. damage \subseteq damage'
    <3>1. CASE Boot \/ Crash
      BY <3>1 DEF Boot, Mount, Crash
    <3>2. CASE Poll
      <4>1. CASE PollStore \/ PollStoreFails \/ PollStoreUnsynced
        BY <4>1, AppendDamages DEF PollStore, PollStoreFails, PollStoreUnsynced
      <4>2. QED
        BY <3>2, <4>1 DEF Poll, PollSkip, PollDone, sdVars
    <3>3. CASE LoopBody
      BY <3>3, AppendDamages
         DEF LoopBody, PeriodicSend, PeriodicSkip, TestSend, TestSkip, RetrySend, RetrySkip,
             IridiumSend, IridiumSkip, Wait, Sleep, NextPoll, Mount, CallRetransmit,
             ProbeBackups, Goto, sdVars
    <3>4. CASE ScanFile \/ ScanDone \/ ReadChunk \/ ReadBroken \/ ReadFails
      BY <3>4 DEF ScanFile, ScanDone, ReadChunk, ReadBroken, ReadShort, ReadCut, ReadBreaks,
                  ReadFails, sdVars
    <3>5. CASE SendOk \/ SendHollow \/ SendFails
      BY <3>5, AppendDamages DEF SendOk, SendHollow, SendFails, sdVars
    <3>6. CASE Consume
      BY <3>6
         DEF Consume, ConsumeAll, ConsumeCopy, ConsumeFails, ConsumeUnlink,
             ConsumeUnlinkFails, ConsumeRename, ConsumeRenameFails, UnlinkAll, CopyTail,
             RenameTmp, RenameFails, UnlinkFails, CopyUnclosed
    <3>7. QED
      BY <3>1, <3>2, <3>3, <3>4, <3>5, <3>6 DEF Next, Retransmit, ReadBroken
  <2>2. QED
    BY <1>0, <1>1, <2>1
<1>2. CASE PollStore \/ PollStoreUnsynced
  BY <1>0, <1>2, AppendDamages DEF PollStore, PollStoreUnsynced, PollStep
<1>3. CASE SendOk \/ SendFails
  <2>1. damage \subseteq damage'
    BY <1>3, AppendDamages DEF SendOk, SendFails, sdVars
  <2>2. /\ taken' = taken
        /\ got' = got \/ got' = [got EXCEPT ![idx] = @ \union Chunk]
    BY <1>3 DEF SendOk, SendFails, Return, Deliver
  <2>3. QED
    BY <1>0, <2>1, <2>2
<1>4. CASE ~(PollStore \/ PollStoreUnsynced \/ SendOk \/ SendFails)
  <2>1. UNCHANGED <<taken, got>>
    BY <1>4
       DEF Next, Boot, Mount, Crash, Poll, PollStoreFails, PollStep, PollSkip, PollDone,
           LoopBody, PeriodicSend, PeriodicSkip, TestSend, TestSkip, RetrySend, RetrySkip,
           IridiumSend, IridiumSkip, Wait, Sleep, NextPoll, CallRetransmit, ProbeBackups,
           Goto, sdVars, Retransmit, ScanFile, ScanDone, ReadChunk, ReadBroken, ReadShort,
           ReadCut, ReadBreaks, ReadFails, SendHollow,
           Return, Consume, ConsumeAll, ConsumeCopy, ConsumeFails, ConsumeUnlink,
           ConsumeUnlinkFails, ConsumeRename, ConsumeRenameFails, Consumed, ConsumeStep
  <2>2. QED
    BY <1>1, <2>1
<1>5. QED
  BY <1>2, <1>3, <1>4

LEMMA LogInit == Init => Log!Init
BY DEF Init, SdInit, Log!Init, Intact

LEMMA LogStep ==
  ASSUME OrderInv, OrderInv', Next
  PROVE  [Log!Next]_(Log!logVars)
<1>0. /\ taken \in [Files -> Nat] /\ got \in [Files -> SUBSET Nat]
      /\ taken' \in [Files -> Nat] /\ got' \in [Files -> SUBSET Nat]
  BY DEF OrderInv, IInv, TypeInv, TypeOK
<1>1. /\ damage \subseteq damage'
      /\ \A f \in Files : taken[f] <= taken'[f] /\ got[f] \subseteq got'[f]
  BY HistoryGrows
<1>2. \A f \in Files : got'[f] \subseteq 1..taken'[f]
  BY DEF OrderInv, Written
<1>3. CASE ~Intact'
  <2>1. Log!Spoiled
    BY <1>1, <1>2, <1>3 DEF Log!Spoiled
  <2>2. QED
    BY <2>1 DEF Log!Next
<1>4. CASE Intact'
  <2>0. Intact /\ Intact' = Intact
    BY <1>1, <1>4 DEF Intact
  <2>1. CASE UNCHANGED <<taken, got>>
    BY <2>0, <2>1 DEF Log!logVars
  <2>2. CASE PollStore \/ PollStoreUnsynced
    <3>1. PICK c \in 1..Channels : taken' = [taken EXCEPT ![c] = @ + 1] /\ got' = got
      BY <2>2 DEF PollStore, PollStoreUnsynced, PollStep
    <3>2. c \in Files
      BY ChannelsAssumption DEF Files
    <3>3. Log!Take(c)
      BY <2>0, <3>1 DEF Log!Take
    <3>4. QED
      BY <3>2, <3>3 DEF Log!Next
  <2>3. CASE SendOk \/ SendFails
    <3>1. /\ idx \in Files /\ taken' = taken
          /\ got' = got \/ got' = [got EXCEPT ![idx] = @ \union Chunk]
      BY <2>3, OrderTypes DEF OrderInv, SendOk, SendFails, Return, Deliver
    <3>2. IsPrefix(got'[idx]) /\ got'[idx] \subseteq 1..taken[idx] /\ taken[idx] \in Nat
      BY <1>0, <1>2, <1>4, <3>1 DEF OrderInv, DeliveredInOrder, IsPrefix
    <3>3. PICK n \in 0..taken[idx] : got'[idx] = 1..n
      BY <3>2, PrefixIsInterval
    <3>4. got' = [got EXCEPT ![idx] = got'[idx]] /\ got'[idx] = got[idx] \union 1..n
      BY <1>0, <1>1, <3>1, <3>3
    <3>5. CASE n = 0
      <4>1. got' = got
        BY <1>0, <3>1, <3>3, <3>4, <3>5
      <4>2. QED
        BY <2>0, <3>1, <4>1 DEF Log!logVars
    <3>6. CASE n # 0
      <4>1. n \in 1..taken[idx] /\ got' = [got EXCEPT ![idx] = @ \union 1..n]
        BY <1>0, <3>1, <3>3, <3>4, <3>6
      <4>2. Log!Receive(idx)
        BY <2>0, <3>1, <4>1 DEF Log!Receive
      <4>3. QED
        BY <3>1, <4>2 DEF Log!Next
    <3>7. QED
      BY <3>5, <3>6
  <2>4. QED
    <3>1. ASSUME ~(PollStore \/ PollStoreUnsynced \/ SendOk \/ SendFails)
          PROVE  UNCHANGED <<taken, got>>
      BY <3>1
         DEF Next, Boot, Mount, Crash, Poll, PollStoreFails, PollStep, PollSkip, PollDone,
             LoopBody, PeriodicSend, PeriodicSkip, TestSend, TestSkip, RetrySend, RetrySkip,
             IridiumSend, IridiumSkip, Wait, Sleep, NextPoll, CallRetransmit, ProbeBackups,
             Goto, sdVars, Retransmit, ScanFile, ScanDone, ReadChunk, ReadBroken, ReadShort,
             ReadCut, ReadBreaks, ReadFails, SendHollow,
             Return, Consume, ConsumeAll, ConsumeCopy, ConsumeFails, ConsumeUnlink,
             ConsumeUnlinkFails, ConsumeRename, ConsumeRenameFails, Consumed, ConsumeStep
    <3>2. QED
      BY <2>1, <2>2, <2>3, <3>1
<1>5. QED
  BY <1>3, <1>4

\* The pipeline with its files, chunks, retries and resets is an implementation of
\* the measurement log, in which the server receives prefixes.
THEOREM PipelineIsLog == Spec => ImplementsLog
<1>1. OrderInv /\ OrderInv' /\ [Next]_vars => [Log!Next]_(Log!logVars)
  <2>1. UNCHANGED vars => UNCHANGED Log!logVars
    BY DEF vars, sdVars, appVars, Log!logVars, Intact
  <2>2. QED
    BY <2>1, LogStep
<1>2. QED
  BY <1>1, OrderInit, OrderInvStep, LogInit, PTL DEF Spec, ImplementsLog, Log!Spec

-----------------------------------------------------------------------------
(* The files are drained one after the other *)

Transferring == pc \in {"scan", "read", "send", "consume", "unlink", "rename"}

\* The transfer leaves a file only when it holds nothing, or the card is not there.
Drained == Transferring => \A f \in Files : f < idx => content[f] = <<>> \/ ~mounted

\* A chunk is read and worked on only while the card is there.
OnCard == Transferring /\ pc # "scan" => mounted

\* A file with lines exists.
Present == \A f \in Files : content[f] # <<>> => f \in present

DrainInv == TypeInv /\ Drained /\ OnCard /\ Present

LEMMA DrainTypes ==
  ASSUME TypeInv
  PROVE  /\ content \in [Files -> Seq(Line)] /\ filename \in Files
         /\ idx \in Nat /\ Channels \in Nat
         /\ caller \in {"test", "iridium", "rest"}
         /\ pc \in {"read", "send", "consume", "unlink", "rename"} => idx \in Files
BY ChannelsAssumption DEF TypeInv, TypeOK, SdTypeOK

LEMMA PresentAppend ==
  ASSUME content \in [Files -> Seq(Line)], Present, NEW f \in Files, NEW line,
         AppendLine(f, line) \/ AppendFails(f, line)
  PROVE  Present'
<1>1. CASE UNCHANGED <<content, present>>
  BY <1>1 DEF Present
<1>2. CASE /\ present' = present \union {f}
           /\ \E s : content' = [content EXCEPT ![f] = s]
  BY <1>2 DEF Present
<1>3. QED
  BY <1>1, <1>2 DEF AppendLine, AppendFails, AppendRejected, AppendAborted, AppendTorn

LEMMA DrainIdle ==
  ASSUME UNCHANGED <<content, present>>, Present, ~Transferring'
  PROVE  Drained' /\ OnCard' /\ Present'
BY DEF Drained, OnCard, Present

LEMMA DrainStep ==
  ASSUME "read" \notin Faults, DrainInv, Next
  PROVE  Drained' /\ OnCard' /\ Present'
<1>0. /\ content \in [Files -> Seq(Line)] /\ filename \in Files
      /\ idx \in Nat /\ Channels \in Nat
      /\ caller \in {"test", "iridium", "rest"}
      /\ pc \in {"read", "send", "consume", "unlink", "rename"} => idx \in Files
  BY DrainTypes DEF DrainInv
<1> USE DEF DrainInv
<1>1. CASE Boot \/ Crash
  BY <1>1, DrainIdle DEF Boot, Mount, Crash, Transferring
<1>2. CASE Poll
  <2>1. CASE PollSkip \/ PollDone
    BY <2>1, DrainIdle DEF PollSkip, PollDone, sdVars, Transferring
  <2>2. CASE PollStore \/ PollStoreFails \/ PollStoreUnsynced
    <3>1. PICK c \in 1..Channels :
            PollStep(c) /\ ( \/ AppendLine(c, Record(taken[c] + 1))
                             \/ AppendFails(c, Record(taken[c] + 1)) )
      BY <2>2 DEF PollStore, PollStoreFails, PollStoreUnsynced
    <3>2. c \in Files /\ ~Transferring'
      BY <3>1, ChannelsAssumption DEF Files, PollStep, Transferring
    <3>3. Present'
      BY <1>0, <3>1, <3>2, PresentAppend
    <3>4. QED
      BY <3>2, <3>3 DEF Drained, OnCard
  <2>3. QED
    BY <1>2, <2>1, <2>2 DEF Poll
<1>3. CASE PeriodicSkip \/ TestSkip \/ RetrySkip \/ IridiumSkip \/ Wait \/ Sleep
  <2>1. UNCHANGED <<content, present>> /\ ~Transferring'
    BY <1>3 DEF PeriodicSkip, TestSkip, RetrySkip, IridiumSkip, Wait, Sleep, NextPoll, Mount,
                ProbeBackups, Goto, sdVars, Transferring
  <2>2. QED
    BY <2>1, DrainIdle
<1>4. CASE PeriodicSend \/ RetrySend \/ IridiumSend
  <2>1. UNCHANGED <<content, present>> /\ pc' = "scan" /\ idx' = 0
    BY <1>4 DEF PeriodicSend, RetrySend, IridiumSend, CallRetransmit, ProbeBackups, sdVars
  <2>2. \A f \in Files : ~(f < 0)
    BY DEF Files
  <2>3. QED
    BY <2>1, <2>2 DEF Drained, OnCard, Present
<1>5. CASE TestSend
  <2>1. ~Transferring'
    BY <1>5 DEF TestSend, Transferring
  <2>2. CASE UNCHANGED sdVars
    BY <2>1, <2>2, DrainIdle DEF sdVars
  <2>3. CASE AppendLine(filename, Foreign) \/ AppendFails(filename, Foreign)
    BY <1>0, <2>1, <2>3, PresentAppend DEF Drained, OnCard
  <2>4. QED
    BY <1>5, <2>2, <2>3 DEF TestSend
<1>6. CASE ScanFile
  <2>1. /\ pc = "scan" /\ idx \in Files /\ UNCHANGED <<content, present, mounted>>
        /\ \/ Exists(idx) /\ idx' = idx
           \/ ~Exists(idx) /\ idx' = idx + 1 /\ pc' = pc
    BY <1>6 DEF ScanFile
  <2>2. Drained'
    <3>1. CASE idx' = idx
      BY <2>1, <3>1 DEF Drained, Transferring
    <3>2. CASE ~Exists(idx) /\ idx' = idx + 1
      <4>1. content[idx] = <<>> \/ ~mounted
        BY <2>1, <3>2 DEF Exists, Present
      <4>2. \A f \in Files : f < idx + 1 => f < idx \/ f = idx
        BY <1>0 DEF Files
      <4>3. QED
        BY <2>1, <3>2, <4>1, <4>2 DEF Drained, Transferring
    <3>3. QED
      BY <2>1, <3>1, <3>2
  <2>3. OnCard'
    BY <2>1 DEF OnCard, Exists
  <2>4. QED
    BY <2>1, <2>2, <2>3 DEF Present
<1>7. CASE ReadFails
  <2>1. /\ pc = "read" /\ content[idx] = <<>> /\ idx' = idx + 1 /\ pc' = "scan"
        /\ UNCHANGED <<content, present, mounted>>
    BY <1>7 DEF ReadFails, sdVars
  <2>2. \A f \in Files : f < idx + 1 => f < idx \/ f = idx
    BY <1>0 DEF Files
  <2>3. QED
    BY <2>1, <2>2 DEF Drained, OnCard, Present, Transferring
<1>8. CASE ScanDone
  BY <1>0, <1>8, DrainIdle DEF ScanDone, Return, sdVars, Transferring
<1>9. CASE ReadChunk \/ ReadBroken \/ SendOk \/ SendHollow \/ ConsumeFails \/ ConsumeCopy
           \/ ConsumeUnlinkFails \/ ConsumeRenameFails
  <2>1. /\ Transferring /\ pc # "scan" /\ UNCHANGED <<content, present, mounted, idx>>
    BY <1>9
       DEF ReadChunk, ReadBroken, ReadShort, ReadCut, ReadBreaks, SendOk, SendHollow,
           ConsumeFails, ConsumeCopy, CopyTail, ConsumeStep,
           ConsumeUnlinkFails, UnlinkFails, ConsumeRenameFails, RenameFails, Consumed, sdVars,
           Transferring, CopyUnclosed
  <2>2. QED
    BY <2>1 DEF Drained, OnCard, Present
<1>10. CASE SendFails
  <2>1. AppendLine(filename, ChunkLine(content[idx], lines, ended))
        \/ AppendFails(filename, ChunkLine(content[idx], lines, ended))
    BY <1>10 DEF SendFails
  <2>2. Present'
    BY <1>0, <2>1, PresentAppend
  <2>3. ~Transferring'
    BY <1>0, <1>10 DEF SendFails, Return, Transferring
  <2>4. QED
    BY <2>2, <2>3 DEF Drained, OnCard
<1>11. CASE ConsumeAll \/ ConsumeUnlink \/ ConsumeRename
  <2>1. /\ Transferring /\ pc # "scan" /\ idx' = idx /\ mounted' = mounted /\ idx \in Files
        /\ \/ content' = [content EXCEPT ![idx] = <<>>] /\ present' = present \ {idx}
           \/ content' = [content EXCEPT ![idx] = staged[idx]] /\ present' = present \union {idx}
    BY <1>0, <1>11
       DEF ConsumeAll, ConsumeUnlink, UnlinkAll, ConsumeRename, RenameTmp, Consumed,
           ConsumeStep, Transferring
  <2>2. \A f \in Files \ {idx} : content'[f] = content[f] /\ (f \in present' <=> f \in present)
    BY <1>0, <2>1
  <2>3. content'[idx] = <<>> \/ idx \in present'
    BY <1>0, <2>1
  <2>4. \A f \in Files : f < idx => f # idx
    BY <1>0
  <2>5. QED
    BY <2>1, <2>2, <2>3, <2>4 DEF Drained, OnCard, Present
<1>12. QED
  BY <1>1, <1>2, <1>3, <1>4, <1>5, <1>6, <1>7, <1>8, <1>9, <1>10, <1>11
     DEF Next, LoopBody, Retransmit, ReadBroken, Consume

\* As long as every existing file can be read, a chunk of a file goes out only when
\* the files before it are empty, whatever was appended, saved or cut off meanwhile.
THEOREM OneFileAfterTheOther ==
  ASSUME "read" \notin Faults
  PROVE  Spec => []SequentialDrain
<1>1. Init => DrainInv
  <2>1. Init => ~Transferring /\ \A f \in Files : content[f] = <<>>
    BY DEF Init, SdInit, Transferring
  <2>2. QED
    BY <2>1, TypeInit DEF DrainInv, Drained, OnCard, Present
<1>2. DrainInv /\ [Next]_vars => DrainInv'
  <2>1. ASSUME DrainInv, UNCHANGED vars PROVE Drained' /\ OnCard' /\ Present'
    BY <2>1 DEF DrainInv, vars, sdVars, appVars, Drained, OnCard, Present, Transferring
  <2>2. QED
    BY <2>1, DrainStep, TypeStep DEF DrainInv
<1>3. DrainInv => SequentialDrain
  BY DEF DrainInv, Drained, OnCard, SequentialDrain, Transferring
<1>4. QED
  BY <1>1, <1>2, <1>3, PTL DEF Spec

-----------------------------------------------------------------------------
(* The length of a file *)

\* The partial sums of the lengths of the first n lines.
Sums(s, n) ==
  {g \in [0..n -> Nat] : g[0] = 0 /\ \A i \in 1..n : g[i] = g[i - 1] + s[i].len}

LEMMA SumsExist ==
  ASSUME NEW s \in Seq(Line)
  PROVE  Sums(s, Len(s)) # {}
<1> DEFINE S == {n \in Nat : n <= Len(s) => Sums(s, n) # {}}
<1>1. 0 \in S
  <2>1. [i \in 0..0 |-> 0] \in Sums(s, 0)
    BY DEF Sums
  <2>2. QED
    BY <2>1
<1>2. ASSUME NEW n \in Nat, n \in S PROVE n + 1 \in S
  <2>1. SUFFICES ASSUME n + 1 <= Len(s) PROVE Sums(s, n + 1) # {}
    OBVIOUS
  <2>2. PICK g \in Sums(s, n) : TRUE
    BY <1>2, <2>1
  <2>3. s[n + 1] \in Line
    BY <2>1
  <2>4. s[n + 1].len \in Nat
    BY <2>3 DEF Line
  <2> DEFINE h == [i \in 0..(n + 1) |-> IF i <= n THEN g[i] ELSE g[n] + s[n + 1].len]
  <2>5. /\ g \in [0..n -> Nat] /\ g[0] = 0
        /\ \A i \in 1..n : g[i] = g[i - 1] + s[i].len
    BY DEF Sums
  <2>6. g[n] + s[n + 1].len \in Nat
    BY <2>4, <2>5
  <2>7. h \in [0..(n + 1) -> Nat]
    BY <2>5, <2>6
  <2>8. h[0] = 0
    BY <2>5
  <2>9. ASSUME NEW i \in 1..(n + 1) PROVE h[i] = h[i - 1] + s[i].len
    <3>1. CASE i <= n
      BY <2>5, <3>1
    <3>2. CASE i = n + 1
      BY <3>2
    <3>3. QED
      BY <3>1, <3>2
  <2> HIDE DEF h
  <2>10. h \in Sums(s, n + 1)
    BY <2>7, <2>8, <2>9 DEF Sums
  <2>11. QED
    BY <2>10
<1>3. Nat \subseteq S
  BY <1>1, <1>2, SetInduction
<1>4. QED
  BY <1>3

\* Size satisfies the recursion it is defined by.
LEMMA SizeRecursion ==
  ASSUME NEW s \in Seq(Line)
  PROVE  /\ \A k \in 0..Len(s) : Size(s, k) \in Nat
         /\ Size(s, 0) = 0
         /\ \A k \in 1..Len(s) : Size(s, k) = Size(s, k - 1) + s[k].len
<1> DEFINE D(f) == [i \in 0..Len(s) |-> IF i = 0 THEN 0 ELSE f[i - 1] + s[i].len]
           sum == CHOOSE f : f = D(f)
<1>1. PICK g \in Sums(s, Len(s)) : TRUE
  BY SumsExist
<1>2. g = D(g)
  BY <1>1 DEF Sums
<1>3. sum = D(sum)
  BY <1>2
<1>4. \A k : Size(s, k) = sum[k]
  BY DEF Size
<1> HIDE DEF sum
<1>5. sum[0] = 0 /\ \A k \in 1..Len(s) : sum[k] = sum[k - 1] + s[k].len
  BY <1>3
<1>6. \A k \in 1..Len(s) : s[k].len \in Nat
  <2>1. \A k \in 1..Len(s) : s[k] \in Line
    OBVIOUS
  <2>2. QED
    BY <2>1 DEF Line
<1> DEFINE S == {n \in Nat : n <= Len(s) => sum[n] \in Nat}
<1>7. 0 \in S
  BY <1>5
<1>8. ASSUME NEW n \in Nat, n \in S PROVE n + 1 \in S
  BY <1>5, <1>6, <1>8
<1>9. Nat \subseteq S
  BY <1>7, <1>8, SetInduction
<1>10. QED
  BY <1>4, <1>5, <1>9

\* The same, a step at a time.
LEMMA SizeStep ==
  ASSUME NEW s \in Seq(Line), NEW k \in 1..Len(s)
  PROVE  /\ Size(s, k) \in Nat /\ Size(s, k - 1) \in Nat /\ s[k].len \in Nat
         /\ Size(s, k) = Size(s, k - 1) + s[k].len
<1>1. s[k] \in Line
  OBVIOUS
<1>2. s[k].len \in Nat
  BY <1>1 DEF Line
<1>3. k \in 0..Len(s) /\ k - 1 \in 0..Len(s)
  OBVIOUS
<1>4. QED
  BY <1>2, <1>3, SizeRecursion

\* More lines are not shorter.
LEMMA SizeGrows ==
  ASSUME NEW s \in Seq(Line), NEW m \in 0..Len(s), NEW n \in m..Len(s)
  PROVE  Size(s, m) <= Size(s, n)
<1> DEFINE S == {d \in Nat : m + d <= Len(s) => Size(s, m) <= Size(s, m + d)}
<1>1. \A k \in 0..Len(s) : Size(s, k) \in Nat
  BY SizeRecursion
<1>2. 0 \in S
  BY <1>1
<1>3. ASSUME NEW d \in Nat, d \in S PROVE d + 1 \in S
  <2>1. SUFFICES ASSUME m + (d + 1) <= Len(s)
                 PROVE  Size(s, m) <= Size(s, m + (d + 1))
    OBVIOUS
  <2>2. m + (d + 1) \in 1..Len(s) /\ (m + (d + 1)) - 1 = m + d
    BY <2>1
  <2>3. /\ Size(s, m + (d + 1)) \in Nat /\ Size(s, m + d) \in Nat
        /\ s[m + (d + 1)].len \in Nat
        /\ Size(s, m + (d + 1)) = Size(s, m + d) + s[m + (d + 1)].len
    BY <2>2, SizeStep
  <2>4. Size(s, m) <= Size(s, m + d) /\ Size(s, m) \in Nat
    BY <1>1, <1>3, <2>1
  <2>5. QED
    BY <2>3, <2>4
<1>4. Nat \subseteq S
  BY <1>2, <1>3, SetInduction
<1>5. n - m \in S /\ m + (n - m) = n
  BY <1>4
<1>6. QED
  BY <1>5

\* Two files have prefixes of the same length if they share the lines.
LEMMA SizeShared ==
  ASSUME NEW s \in Seq(Line), NEW t \in Seq(Line),
         NEW m \in Nat, NEW n \in Nat, m <= Len(s), m + n <= Len(t),
         \A i \in 1..m : t[n + i] = s[i]
  PROVE  Size(t, n + m) = Size(t, n) + Size(s, m)
<1> DEFINE S == {d \in Nat : d <= m => Size(t, n + d) = Size(t, n) + Size(s, d)}
<1>1. /\ \A k \in 0..Len(s) : Size(s, k) \in Nat
      /\ \A k \in 0..Len(t) : Size(t, k) \in Nat
      /\ Size(s, 0) = 0
  BY SizeRecursion
<1>2. 0 \in S
  BY <1>1
<1>3. ASSUME NEW d \in Nat, d \in S PROVE d + 1 \in S
  <2>1. SUFFICES ASSUME d + 1 <= m
                 PROVE  Size(t, n + (d + 1)) = Size(t, n) + Size(s, d + 1)
    OBVIOUS
  <2>2. d + 1 \in 1..Len(s) /\ (d + 1) - 1 = d
        /\ n + (d + 1) \in 1..Len(t) /\ (n + (d + 1)) - 1 = n + d
    BY <2>1
  <2>3. /\ Size(s, d + 1) = Size(s, d) + s[d + 1].len /\ s[d + 1].len \in Nat
        /\ Size(s, d) \in Nat
    BY <2>2, SizeStep
  <2>4. Size(t, n + (d + 1)) = Size(t, n + d) + t[n + (d + 1)].len /\ Size(t, n) \in Nat
    BY <1>1, <2>2, SizeStep
  <2>5. t[n + (d + 1)] = s[d + 1]
    BY <2>1
  <2>6. Size(t, n + d) = Size(t, n) + Size(s, d)
    BY <1>3, <2>1
  <2>7. QED
    BY <2>3, <2>4, <2>5, <2>6
<1>4. Nat \subseteq S
  BY <1>2, <1>3, SetInduction
<1>5. QED
  BY <1>4

LEMMA SizeOfAppend ==
  ASSUME NEW s \in Seq(Line), NEW line \in Line
  PROVE  /\ \A k \in 0..Len(s) : Size(Append(s, line), k) = Size(s, k)
         /\ Size(Append(s, line), Len(s) + 1) = Size(s, Len(s)) + line.len
<1> DEFINE t == Append(s, line)
<1>1. t \in Seq(Line) /\ Len(t) = Len(s) + 1 /\ Len(s) \in Nat
      /\ (\A i \in 1..Len(s) : t[i] = s[i]) /\ t[Len(s) + 1] = line
  OBVIOUS
<1> HIDE DEF t
<1>2. Size(t, 0) = 0
  BY <1>1, SizeRecursion
<1>3. ASSUME NEW k \in 0..Len(s) PROVE Size(t, k) = Size(s, k)
  <2>1. k \in Nat /\ k <= Len(s) /\ 0 + k <= Len(t) /\ \A i \in 1..k : t[0 + i] = s[i]
    BY <1>1
  <2>2. Size(t, 0 + k) = Size(t, 0) + Size(s, k)
    BY <1>1, <2>1, SizeShared
  <2>3. Size(s, k) \in Nat
    BY SizeRecursion
  <2>4. QED
    BY <1>2, <2>2, <2>3
<1>4. Size(t, Len(s) + 1) = Size(t, Len(s)) + line.len
  <2>1. Len(s) + 1 \in 1..Len(t) /\ (Len(s) + 1) - 1 = Len(s)
    BY <1>1
  <2>2. QED
    BY <1>1, <2>1, SizeStep
<1>5. QED
  BY <1>1, <1>3, <1>4 DEF t

LEMMA SizeOfRest ==
  ASSUME NEW s \in Seq(Line), NEW n \in 0..Len(s), NEW k \in 0..(Len(s) - n)
  PROVE  Size(SubSeq(s, n + 1, Len(s)), k) <= Size(s, n + k)
<1> DEFINE t == SubSeq(s, n + 1, Len(s))
<1>1. /\ t \in Seq(Line) /\ Len(t) = Len(s) - n
      /\ \A i \in 1..Len(t) : t[i] = s[n + i]
  OBVIOUS
<1> HIDE DEF t
<1>2. Size(s, n + k) = Size(s, n) + Size(t, k)
  <2>1. n \in Nat /\ k \in Nat /\ k <= Len(t) /\ n + k <= Len(s)
    BY <1>1
  <2>2. \A i \in 1..k : s[n + i] = t[i]
    BY <1>1
  <2>3. t \in Seq(Line)
    BY <1>1
  <2>4. QED
    BY <2>1, <2>2, <2>3, SizeShared
<1>3. Size(s, n) \in Nat /\ Size(t, k) \in Nat
  BY <1>1, SizeRecursion
<1>4. QED
  BY <1>2, <1>3 DEF t

-----------------------------------------------------------------------------
(* Deleted together *)

\* No line is too long or torn.
Sound(s) == \A i \in 1..Len(s) : s[i].len <= LineMax /\ s[i].kind # "torn"

\* A line that repeats an earlier one is near the beginning of its file.
Repeats(s) ==
  \A i, j \in 1..Len(s) :
    i < j /\ s[i].ids \intersect s[j].ids # {} => Size(s, j) <= 2 * LineMax

Neat(s) == Sound(s) /\ Repeats(s)

FilesNeat ==
  Unbroken => \A f \in Files : Neat(content[f]) /\ Neat(staged[f])

\* What is being sent or consumed is as much as a chunk can hold.
ChunkKept == Unbroken /\ pc \in {"send", "consume"} => IsChunk(content[idx], lines)

OnceInv == OrderInv /\ ChunkKept /\ FilesNeat

LEMMA NeatNext ==
  \A f : /\ Neat(content[f])' <=> Neat(content'[f])
         /\ Neat(staged[f])' <=> Neat(staged'[f])
BY DEF Neat, Sound, Repeats, Size

LEMMA NeatNothing == Neat(<<>>)
BY DEF Neat, Sound, Repeats

\* A line may be added if it repeats nothing or the file is short.
LEMMA NeatAppend ==
  ASSUME NEW s \in Seq(Line), NEW line \in Line, Neat(s),
         line.len <= LineMax, line.kind # "torn",
         line.ids \intersect Ids(s) = {} \/ Size(s, Len(s)) + line.len <= 2 * LineMax
  PROVE  Neat(Append(s, line))
<1> DEFINE t == Append(s, line)
<1>1. t \in Seq(Line) /\ Len(t) = Len(s) + 1 /\ Len(s) \in Nat
      /\ (\A i \in 1..Len(s) : t[i] = s[i]) /\ t[Len(s) + 1] = line
  OBVIOUS
<1>2. /\ \A k \in 0..Len(s) : Size(t, k) = Size(s, k)
      /\ Size(t, Len(s) + 1) = Size(s, Len(s)) + line.len
  BY SizeOfAppend
<1> HIDE DEF t
<1>3. Sound(t)
  BY <1>1 DEF Neat, Sound
<1>4. ASSUME NEW i \in 1..Len(t), NEW j \in 1..Len(t), i < j,
             t[i].ids \intersect t[j].ids # {}
      PROVE  Size(t, j) <= 2 * LineMax
  <2>1. CASE j \in 1..Len(s)
    <3>1. i \in 1..Len(s) /\ j \in 0..Len(s)
      BY <1>4, <2>1
    <3>2. s[i].ids \intersect s[j].ids # {}
      BY <1>1, <1>4, <2>1, <3>1
    <3>3. QED
      BY <1>2, <1>4, <2>1, <3>1, <3>2 DEF Neat, Repeats
  <2>2. CASE j = Len(s) + 1
    <3>1. i \in 1..Len(s)
      BY <1>1, <1>4, <2>2
    <3>2. s[i].ids \intersect line.ids # {}
      BY <1>1, <1>4, <2>2, <3>1
    <3>3. s[i].ids \subseteq Ids(s)
      BY <3>1 DEF Ids, IdsUpTo
    <3>4. QED
      BY <1>2, <2>2, <3>2, <3>3
  <2>3. QED
    BY <1>1, <2>1, <2>2
<1>5. QED
  BY <1>3, <1>4 DEF Neat, Repeats, t

LEMMA NeatRest ==
  ASSUME NEW s \in Seq(Line), NEW n \in 0..Len(s), Neat(s)
  PROVE  Neat(SubSeq(s, n + 1, Len(s)))
<1> DEFINE t == SubSeq(s, n + 1, Len(s))
<1>1. /\ t \in Seq(Line) /\ Len(t) = Len(s) - n
      /\ \A i \in 1..Len(t) : t[i] = s[n + i]
  OBVIOUS
<1>2. \A k \in 0..(Len(s) - n) : Size(t, k) <= Size(s, n + k)
  BY SizeOfRest
<1> HIDE DEF t
<1>3. \A i \in 1..Len(t) : n + i \in 1..Len(s)
  BY <1>1
<1>4. Sound(t)
  BY <1>1, <1>3 DEF Neat, Sound
<1>5. ASSUME NEW i \in 1..Len(t), NEW j \in 1..Len(t), i < j,
             t[i].ids \intersect t[j].ids # {}
      PROVE  Size(t, j) <= 2 * LineMax
  <2>0. n + i < n + j
    BY <1>1, <1>5
  <2>1. n + i < n + j /\ s[n + i].ids \intersect s[n + j].ids # {}
    BY <1>1, <1>5, <2>0
  <2>2. Size(s, n + j) <= 2 * LineMax
    BY <1>3, <2>1 DEF Neat, Repeats
  <2>3. Size(t, j) <= Size(s, n + j)
    BY <1>1, <1>2
  <2>4. n + j \in 0..Len(s) /\ j \in 0..Len(t)
    BY <1>1, <1>3
  <2>5. Size(t, j) \in Nat /\ Size(s, n + j) \in Nat
    BY <1>1, <2>4, SizeRecursion
  <2>6. QED
    BY <2>2, <2>3, <2>5, SizesAssumption
<1>6. QED
  BY <1>4, <1>5 DEF Neat, Repeats, t

\* A chunk that is short enough to be saved is the whole file.
LEMMA SavedIsWhole ==
  ASSUME NEW s \in Seq(Line), NEW n, IsChunk(s, n), Sound(s), Size(s, n) <= LineMax
  PROVE  n = Len(s)
<1>1. SUFFICES ASSUME n < Len(s) PROVE FALSE
  BY DEF IsChunk
<1>2. n \in 1..Len(s) /\ Size(s, n + 1) > ChunkMax
  BY <1>1 DEF IsChunk
<1>3. n + 1 \in 1..Len(s) /\ (n + 1) - 1 = n
  BY <1>1, <1>2
<1>4. /\ Size(s, n + 1) = Size(s, n) + s[n + 1].len
      /\ Size(s, n) \in Nat /\ s[n + 1].len \in Nat
  BY <1>3, SizeStep
<1>5. s[n + 1].len <= LineMax
  BY <1>3 DEF Sound
<1>6. QED
  BY <1>2, <1>4, <1>5, SizesAssumption

\* Lines that repeat a line of a chunk are in the chunk.
LEMMA ChunkIsApart ==
  ASSUME NEW s \in Seq(Line), NEW n, IsChunk(s, n), Repeats(s),
         NEW i \in 1..n, NEW j \in (n + 1)..Len(s)
  PROVE  s[i].ids \intersect s[j].ids = {}
<1>1. SUFFICES ASSUME s[i].ids \intersect s[j].ids # {} PROVE FALSE
  OBVIOUS
<1>2. n \in 1..Len(s) /\ n < Len(s) /\ Size(s, n + 1) > ChunkMax
  BY DEF IsChunk
<1>3. i \in 1..Len(s) /\ j \in 1..Len(s) /\ i < j
  BY <1>2
<1>4. Size(s, j) <= 2 * LineMax
  BY <1>1, <1>3 DEF Repeats
<1>5. n + 1 \in 0..Len(s) /\ j \in (n + 1)..Len(s) /\ j \in 0..Len(s)
  BY <1>2
<1>6. Size(s, n + 1) <= Size(s, j)
  BY <1>5, SizeGrows
<1>7. Size(s, n + 1) \in Nat /\ Size(s, j) \in Nat
  BY <1>5, SizeRecursion
<1>8. QED
  BY <1>2, <1>4, <1>6, <1>7, SizesAssumption

\* What an append leaves of a neat file.
LEMMA NeatWrite ==
  ASSUME SdTypeOK, NEW f \in Files, NEW line, line.len \in Nat => line \in Line,
         line.kind # "torn",
         AppendLine(f, line) =>
           line.ids \intersect Ids(content[f]) = {}
           \/ Size(content[f], Len(content[f])) + line.len <= 2 * LineMax,
         AppendLine(f, line) \/ AppendFails(f, line), FilesNeat
  PROVE  FilesNeat'
<1>0. content \in [Files -> Seq(Line)]
  BY DEF SdTypeOK
<1> SUFFICES ASSUME Unbroken'
             PROVE  \A e \in Files : Neat(content'[e]) /\ Neat(staged'[e])
  BY NeatNext DEF FilesNeat
<1>1. Unbroken /\ ~AppendTorn(f, line)
  BY AppendDamages DEF AppendTorn, Unbroken
<1>2. /\ \A e \in Files : Neat(content[e]) /\ Neat(staged[e])
      /\ staged' = staged
  BY <1>1 DEF FilesNeat, AppendLine, AppendFails, AppendRejected, AppendAborted, AppendTorn
<1>3. Rotated(f) \in Seq(Line) /\ Neat(Rotated(f))
      /\ (Rotated(f) = content[f] \/ Rotated(f) = <<>>)
  BY <1>0, <1>2, NeatNothing DEF Rotated
<1>4. CASE AppendLine(f, line)
  <2>1. line \in Line /\ line.len <= LineMax
    BY <1>4, SizesAssumption DEF AppendLine
  <2>2. ~EndsTorn(Rotated(f))
    BY <1>3 DEF EndsTorn, Neat, Sound
  <2>3. \/ line.ids \intersect Ids(Rotated(f)) = {}
        \/ Size(Rotated(f), Len(Rotated(f))) + line.len <= 2 * LineMax
    BY <1>3, <1>4, IdsOfNothing
  <2>4. Neat(Append(Rotated(f), line))
    BY <1>3, <2>1, <2>3, NeatAppend
  <2>5. content' = [content EXCEPT ![f] = Append(Rotated(f), line)]
    BY <1>4, <2>2 DEF AppendLine, Write
  <2>6. QED
    BY <1>0, <1>2, <2>4, <2>5
<1>5. CASE content' = content
  BY <1>2, <1>5
<1>6. CASE content' = [content EXCEPT ![f] = Rotated(f)]
  BY <1>0, <1>2, <1>3, <1>6
<1>7. QED
  BY <1>1, <1>4, <1>5, <1>6 DEF AppendFails, AppendRejected, AppendAborted

\* Files that stay, or are emptied, or keep the end of what they had.
LEMMA NeatElse ==
  ASSUME FilesNeat, damage \subseteq damage',
         \A f \in Files :
           /\ content'[f] = content[f] \/ content'[f] = staged[f] \/ content'[f] = <<>>
           /\ staged'[f] = staged[f] \/ staged'[f] = <<>>
  PROVE  FilesNeat'
<1> SUFFICES ASSUME Unbroken'
             PROVE  \A e \in Files : Neat(content'[e]) /\ Neat(staged'[e])
  BY NeatNext DEF FilesNeat
<1>1. \A f \in Files : Neat(content[f]) /\ Neat(staged[f])
  BY DEF FilesNeat, Unbroken
<1>2. QED
  BY <1>1, NeatNothing

LEMMA ChunkNext ==
  ASSUME UNCHANGED <<content, idx>>
  PROVE  IsChunk(content[idx], lines)' <=> IsChunk(content[idx], lines')
BY DEF IsChunk, Size

LEMMA ChunkKeptStep ==
  ASSUME OrderInv, ChunkKept, Next
  PROVE  ChunkKept'
<1>0. caller \in {"test", "iridium", "rest"}
  BY OrderTypes DEF OrderInv
<1>1. CASE ReadChunk
  <2>1. IsChunk(content[idx], lines') /\ UNCHANGED <<content, idx>>
    BY <1>1 DEF ReadChunk, sdVars
  <2>2. QED
    BY <2>1, ChunkNext DEF ChunkKept
<1>2. CASE SendOk \/ SendHollow
  <2>1. /\ pc = "send" /\ lines' = lines
        /\ UNCHANGED <<content, idx>> /\ damage \subseteq damage'
    BY <1>2 DEF SendOk, SendHollow, sdVars
  <2>2. QED
    BY <2>1, ChunkNext DEF ChunkKept, Unbroken
<1>3. CASE ReadBroken
  BY <1>3 DEF ReadBroken, ReadShort, ReadCut, ReadBreaks, ChunkKept, Unbroken
<1>4. CASE ~(ReadChunk \/ ReadBroken \/ SendOk \/ SendHollow)
  <2>1. pc' \notin {"send", "consume"}
    <3>1. CASE Boot \/ Crash \/ Poll
      BY <1>4, <3>1 DEF Boot, Crash, Poll, PollStore, PollStoreFails, PollStoreUnsynced,
                        PollStep, PollSkip, PollDone
    <3>2. CASE LoopBody
      BY <3>2 DEF LoopBody, PeriodicSend, PeriodicSkip, TestSend, TestSkip, RetrySend,
                  RetrySkip, IridiumSend, IridiumSkip, Wait, Sleep, NextPoll,
                  CallRetransmit, Goto
    <3>3. CASE ScanFile \/ ScanDone \/ ReadFails \/ SendFails
      BY <1>0, <3>3 DEF ScanFile, ScanDone, ReadFails, SendFails, Return
    <3>4. CASE Consume
      BY <3>4 DEF Consume, ConsumeAll, ConsumeCopy, ConsumeFails, ConsumeUnlink,
                  ConsumeUnlinkFails, ConsumeRename, ConsumeRenameFails, Consumed,
                  ConsumeStep
    <3>5. QED
      BY <1>4, <3>1, <3>2, <3>3, <3>4 DEF Next, Retransmit, ReadBroken
  <2>2. QED
    BY <2>1 DEF ChunkKept
<1>5. QED
  BY <1>1, <1>2, <1>3, <1>4

LEMMA NeatPoll ==
  ASSUME OrderInv, FilesNeat, PollStore \/ PollStoreFails \/ PollStoreUnsynced
  PROVE  FilesNeat'
<1>1. PICK c \in 1..Channels : \/ AppendLine(c, Record(taken[c] + 1))
                              \/ AppendFails(c, Record(taken[c] + 1))
  BY DEF PollStore, PollStoreFails, PollStoreUnsynced
<1> DEFINE line == Record(taken[c] + 1)
<1>2. c \in Files
  BY ChannelsAssumption DEF Files
<1>3. SdTypeOK /\ taken[c] \in Nat
  BY <1>2, OrderTypes DEF OrderInv
<1>4. line \in Line /\ line.ids = {taken[c] + 1} /\ line.kind = "object"
  BY <1>3, LinesAreLines DEF Record
<1>5. Ids(content[c]) \subseteq 1..taken[c]
  BY <1>2 DEF OrderInv, Written
<1>6. line.ids \intersect Ids(content[c]) = {}
  BY <1>3, <1>4, <1>5
<1>7. AppendLine(c, line) \/ AppendFails(c, line)
  BY <1>1
<1> HIDE DEF line
<1>8. QED
  BY <1>2, <1>3, <1>4, <1>6, <1>7, NeatWrite

LEMMA NeatTest ==
  ASSUME OrderInv, FilesNeat, AppendLine(filename, Foreign) \/ AppendFails(filename, Foreign)
  PROVE  FilesNeat'
<1>1. SdTypeOK /\ filename \in Files
  BY OrderTypes DEF OrderInv
<1>2. Foreign \in Line /\ Foreign.ids = {} /\ Foreign.kind = "object"
  BY LinesAreLines DEF Foreign
<1>3. QED
  BY <1>1, <1>2, NeatWrite

\* A failed chunk goes to the end of its file only if it is all of it.
LEMMA NeatSend ==
  ASSUME OrderInv, ChunkKept, FilesNeat, SendFails
  PROVE  FilesNeat'
<1> DEFINE line == ChunkLine(content[idx], lines, ended)
           s == content[idx]
<1>1. /\ pc = "send" /\ filename = idx
      /\ AppendLine(idx, line) \/ AppendFails(idx, line)
  BY DEF SendFails, OrderInv, Selected
<1>2. /\ SdTypeOK /\ idx \in Files /\ s \in Seq(Line)
      /\ line.len \in Nat => line \in Line
  BY <1>1, OrderTypes, ChunkFacts DEF OrderInv
<1>3. line.kind # "torn"
  BY DEF ChunkLine
<1>4. CASE ~Unbroken'
  BY <1>4, NeatNext DEF FilesNeat
<1>5. CASE Unbroken'
  <2>1. Unbroken
    BY <1>1, <1>5, AppendDamages DEF Unbroken
  <2>2. Sound(s)
    BY <1>2, <2>1 DEF FilesNeat, Neat
  <2>3. IsChunk(s, lines) /\ line.len = Size(s, lines)
    <3>1. ended # "cut"
      BY <1>1, <2>1, OrderTypes DEF OrderInv, Unbroken
    <3>2. QED
      BY <1>1, <2>1, <3>1 DEF ChunkKept, ChunkLine
  <2>4. ASSUME AppendLine(idx, line)
        PROVE  Size(s, Len(s)) + line.len <= 2 * LineMax
    <3>1. line.len \in 1..LineMax
      BY <2>4 DEF AppendLine
    <3>2. lines = Len(s)
      BY <1>2, <2>2, <2>3, <3>1, SavedIsWhole, SizesAssumption
    <3>3. QED
      BY <2>3, <3>1, <3>2, SizesAssumption
  <2> HIDE DEF line
  <2>5. QED
    BY <1>1, <1>2, <1>3, <2>4, NeatWrite
<1>6. QED
  BY <1>4, <1>5

LEMMA NeatConsume ==
  ASSUME OrderInv, FilesNeat, Consume
  PROVE  FilesNeat'
<1>0. /\ content \in [Files -> Seq(Line)] /\ staged \in [Files -> Seq(Line)]
      /\ idx \in Files
  BY OrderTypes
     DEF OrderInv, Consume, ConsumeAll, ConsumeCopy, ConsumeFails, ConsumeUnlink,
         ConsumeUnlinkFails, ConsumeRename, ConsumeRenameFails, ConsumeStep
<1>1. CASE ConsumeCopy /\ CopyTail(idx, lines, ended)
  <2>1. /\ content[idx] \in Seq(Line) /\ lines \in 0..Len(content[idx])
        /\ Unbroken => ended # "cut"
    BY <1>1, ChunkFacts, OrderTypes DEF ConsumeCopy, OrderInv, Unbroken
  <2>2. /\ content' = content /\ damage' = damage
        /\ staged' = [staged EXCEPT ![idx] = Remainder(content[idx], lines, ended)]
    BY <1>1 DEF CopyTail
  <2>3. ASSUME Unbroken'
        PROVE  \A f \in Files : Neat(content'[f]) /\ Neat(staged'[f])
    <3>1. \A f \in Files : Neat(content[f]) /\ Neat(staged[f])
      BY <2>2, <2>3 DEF FilesNeat, Unbroken
    <3>2. Remainder(content[idx], lines, ended) =
            SubSeq(content[idx], lines + 1, Len(content[idx]))
      BY <2>1, <2>2, <2>3 DEF Remainder, Unbroken
    <3>3. Neat(Remainder(content[idx], lines, ended))
      BY <1>0, <2>1, <3>1, <3>2, NeatRest
    <3>4. QED
      BY <1>0, <2>2, <3>1, <3>3
  <2>4. QED
    BY <2>3, NeatNext DEF FilesNeat
<1>2. CASE ~ConsumeCopy \/ CopyUnclosed(idx)
  <2>1. /\ damage \subseteq damage'
        /\ \/ content' = content
           \/ content' = [content EXCEPT ![idx] = <<>>]
           \/ content' = [content EXCEPT ![idx] = staged[idx]]
        /\ staged' = staged \/ staged' = [staged EXCEPT ![idx] = <<>>]
    BY <1>2 DEF Consume, ConsumeAll, ConsumeFails, ConsumeUnlink, ConsumeUnlinkFails,
                ConsumeRename, ConsumeRenameFails, UnlinkAll, RenameTmp, RenameFails,
                UnlinkFails, CopyUnclosed, ConsumeCopy
  <2>2. QED
    BY <1>0, <2>1, NeatElse
<1>3. QED
  BY <1>1, <1>2 DEF ConsumeCopy

LEMMA FilesNeatStep ==
  ASSUME OrderInv, ChunkKept, FilesNeat, Next
  PROVE  FilesNeat'
<1>1. CASE UNCHANGED <<content, staged>>
  BY <1>1, HistoryGrows, NeatElse
<1>2. CASE PollStore \/ PollStoreFails \/ PollStoreUnsynced
  BY <1>2, NeatPoll
<1>3. CASE TestSend
  BY <1>1, <1>3, NeatTest DEF TestSend, sdVars
<1>4. CASE SendFails
  BY <1>4, NeatSend
<1>5. CASE Consume
  BY <1>5, NeatConsume
<1>6. CASE Boot \/ Crash \/ PollSkip \/ PollDone
  BY <1>1, <1>6 DEF Boot, Mount, Crash, PollSkip, PollDone, sdVars
<1>7. CASE LoopBody /\ ~TestSend
  BY <1>1, <1>7
     DEF LoopBody, PeriodicSend, PeriodicSkip, TestSkip, RetrySend, RetrySkip, IridiumSend,
         IridiumSkip, Wait, Sleep, NextPoll, Mount, CallRetransmit, ProbeBackups, Goto, sdVars
<1>8. CASE ScanFile \/ ScanDone \/ ReadChunk \/ ReadBroken \/ ReadFails \/ SendOk \/ SendHollow
  BY <1>1, <1>8
     DEF ScanFile, ScanDone, ReadChunk, ReadBroken, ReadShort, ReadCut, ReadBreaks, ReadFails,
         SendOk, SendHollow, sdVars
<1>9. QED
  BY <1>2, <1>3, <1>4, <1>5, <1>6, <1>7, <1>8 DEF Next, Poll, Retransmit, ReadBroken

LEMMA OnceInit == Init => OnceInv
<1> SUFFICES ASSUME Init PROVE OnceInv
  OBVIOUS
<1>1. \A f \in Files : content[f] = <<>> /\ staged[f] = <<>>
  BY DEF Init, SdInit
<1>2. FilesNeat
  BY <1>1, NeatNothing DEF FilesNeat
<1>3. QED
  BY <1>2, OrderInit DEF OnceInv, ChunkKept, Init

LEMMA OnceStep == OnceInv /\ [Next]_vars => OnceInv'
<1>1. ASSUME OnceInv, Next PROVE OnceInv'
  BY <1>1, OrderInvStep, ChunkKeptStep, FilesNeatStep DEF OnceInv
<1>2. ASSUME OnceInv, UNCHANGED vars PROVE OnceInv'
  <2>1. OrderInv'
    BY <1>2, OrderInvStep DEF OnceInv
  <2>2. FilesNeat'
    BY <1>2, NeatElse DEF OnceInv, vars, sdVars
  <2>3. ChunkKept'
    BY <1>2, ChunkNext DEF OnceInv, ChunkKept, vars, sdVars, appVars, Unbroken
  <2>4. QED
    BY <2>1, <2>2, <2>3 DEF OnceInv
<1>3. QED
  BY <1>1, <1>2

\* As long as no line was torn and no chunk ended early, what is deleted after a send is not
\* sent again: no line that stays repeats one that goes, for all sizes the configuration may have.
THEOREM DeletedIsGone == Spec => []ConsumedForGood
<1>1. OnceInv => ConsumedForGood
  <2> SUFFICES ASSUME OnceInv, Unbroken, pc = "consume",
                      NEW i \in 1..lines, NEW j \in (lines + 1)..Len(content[idx])
               PROVE  content[idx][i].ids \intersect content[idx][j].ids = {}
    BY DEF ConsumedForGood
  <2>1. content[idx] \in Seq(Line) /\ idx \in Files
    BY ChunkFacts DEF OnceInv, OrderInv
  <2>2. IsChunk(content[idx], lines) /\ Repeats(content[idx])
    BY <2>1 DEF OnceInv, ChunkKept, FilesNeat, Neat
  <2>3. QED
    BY <2>1, <2>2, ChunkIsApart
<1>2. QED
  BY <1>1, OnceInit, OnceStep, PTL DEF Spec

=============================================================================
