--------------------------- MODULE LogViewerProofs --------------------------
(***************************************************************************)
(* The log in RAM is the list of its last lines, for every number of       *)
(* slots, and the log tab shows it in order as long as nothing happens     *)
(* that it does not reckon with, for every size of its batches, every      *)
(* number of connections and every loss of requests and answers: what the  *)
(* page shows, and every answer under way, is counted from the line that   *)
(* was written first after the last clear.                                 *)
(***************************************************************************)
EXTENDS LogViewer, SequenceTheorems, TLAPS

-----------------------------------------------------------------------------
(* The inductive invariants *)

\* Slot by slot: the line that stands i places behind the oldest.
Numbered == \A i \in 1..m_count : GetLine(i - 1) = m_total - m_count + i

RingInv == LogTypeOK /\ Numbered

\* The log holds what was written since the last clear, as far as it has room.
Since == m_count = IF m_total - base < MAX_LINES THEN m_total - base ELSE MAX_LINES

\* Before the page is open it has asked for nothing.
Closed == ~open => allLines = <<>> /\ Outstanding = {}

\* The places the page reckons with: the first line of the log is the first
\* since the last clear, and one request is outstanding.
Undisturbed ==
  /\ m_count = m_total - base
  /\ \A s, t \in Outstanding : s = t

Shown ==
  ~Clearing =>
    /\ Len(allLines) <= m_count
    /\ \A i \in 1..Len(allLines) : allLines[i] = base + i

\* What an answer holds, and that it goes behind what is shown.
Consistent(c) ==
  /\ c.kind = "all" => c.from = 0
  /\ c.kind \in {"page", "poll"} => c.from = Len(allLines)
  /\ c.kind # "clear" =>
       /\ Len(c.lines) <= c.count
       /\ c.answered => /\ c.from + Len(c.lines) <= m_count \/ c.lines = <<>>
                        /\ \A i \in 1..Len(c.lines) : c.lines[i] = base + c.from + i

Answers == \A s \in Outstanding : Consistent(call[s])

\* Nothing has happened that the page does not reckon with, but for polls whose
\* answers had no room: of those it takes nothing.
Calm == odd \subseteq {"full"}

PageInv == Since /\ Closed /\ (Calm /\ open => Undisturbed /\ Shown /\ Answers)

IInv == TypeOK /\ Numbered /\ PageInv

-----------------------------------------------------------------------------
(* The ring *)

\* The places of the lines, before and after a step.
LEMMA SlotInRing ==
  ASSUME LogTypeOK, NEW i \in 0..(MAX_LINES - 1)
  PROVE  /\ OldestSlot \in Slots
         /\ Slot(i) \in Slots
         /\ GetLine(i) \in 0..MaxTotal
BY LinesAssumption DEF LogTypeOK, OldestSlot, Slot, Slots, GetLine

LEMMA ListingIsSequence ==
  ASSUME LogTypeOK
  PROVE  /\ Listing \in Seq(0..MaxTotal)
         /\ Len(Listing) = m_count
         /\ \A i \in 1..m_count : Listing[i] = GetLine(i - 1)
<1>1. m_count \in 0..MAX_LINES /\ MAX_LINES \in Nat
  BY LinesAssumption DEF LogTypeOK
<1>2. \A i \in 1..m_count : GetLine(i - 1) \in 0..MaxTotal
  BY <1>1, SlotInRing
<1>3. QED
  BY <1>1, <1>2 DEF Listing

LEMMA WriteTypes ==
  ASSUME LogTypeOK, Write
  PROVE  LogTypeOK'
BY LinesAssumption DEF LogTypeOK, Write, NextSlot, Slots

LEMMA ClearTypes ==
  ASSUME LogTypeOK, Clear
  PROVE  LogTypeOK'
BY LinesAssumption DEF LogTypeOK, Clear, Slots

\* A write puts the line behind all others and moves none of them but, in a full
\* ring, the oldest, whose slot it takes.
LEMMA WriteMoves ==
  ASSUME LogTypeOK, Write
  PROVE  /\ m_count' \in 1..MAX_LINES
         /\ \A i \in Nat : i + 1 = m_count' => GetLine(i)' = m_total + 1
         /\ m_count < MAX_LINES =>
              \A i \in 0..(m_count - 1) : GetLine(i)' = GetLine(i)
         /\ m_count = MAX_LINES =>
              \A i \in 0..(MAX_LINES - 2) : GetLine(i)' = GetLine(i + 1)
<1>1. /\ MAX_LINES \in Nat \ {0} /\ m_head \in Slots /\ m_count \in 0..MAX_LINES
      /\ m_buf \in [Slots -> 0..MaxTotal]
      /\ m_count < MAX_LINES => m_head = m_count
  BY LinesAssumption DEF LogTypeOK
<1>2. /\ m_buf'[m_head] = m_total + 1
      /\ \A j \in Slots : j # m_head => m_buf'[j] = m_buf[j]
      /\ m_head' = NextSlot(m_head)
      /\ m_count' = IF m_count < MAX_LINES THEN m_count + 1 ELSE m_count
  BY <1>1 DEF Write
<1>3. CASE m_count < MAX_LINES
  <2>1. /\ \A i \in 0..m_count : Slot(i)' = i /\ i \in Slots
        /\ \A i \in 0..(m_count - 1) : Slot(i) = i /\ i # m_head
    BY <1>1, <1>2, <1>3 DEF Slot, OldestSlot, Slots, NextSlot
  <2>2. \A i \in 0..(m_count - 1) : GetLine(i)' = GetLine(i)
    BY <1>1, <1>2, <2>1 DEF GetLine
  <2>3. \A i \in Nat : i + 1 = m_count' => GetLine(i)' = m_total + 1
    BY <1>1, <1>2, <1>3, <2>1 DEF GetLine
  <2>4. QED
    BY <1>1, <1>2, <1>3, <2>2, <2>3
<1>4. CASE m_count = MAX_LINES
  <2>1. /\ Slot(MAX_LINES - 1)' = m_head
        /\ \A i \in 0..(MAX_LINES - 2) :
             Slot(i)' = Slot(i + 1) /\ Slot(i + 1) \in Slots /\ Slot(i + 1) # m_head
    BY <1>1, <1>2, <1>4 DEF Slot, OldestSlot, Slots, NextSlot
  <2>2. QED
    BY <1>1, <1>2, <1>4, <2>1 DEF GetLine
<1>5. QED
  BY <1>1, <1>3, <1>4

LEMMA WriteNumbers ==
  ASSUME RingInv, Write
  PROVE  RingInv'
<1>1. LogTypeOK'
  BY WriteTypes DEF RingInv
<1>2. /\ m_count' \in 1..MAX_LINES
      /\ \A i \in Nat : i + 1 = m_count' => GetLine(i)' = m_total + 1
      /\ m_count < MAX_LINES => \A i \in 0..(m_count - 1) : GetLine(i)' = GetLine(i)
      /\ m_count = MAX_LINES => \A i \in 0..(MAX_LINES - 2) : GetLine(i)' = GetLine(i + 1)
  BY WriteMoves DEF RingInv
<1>3. /\ m_total' = m_total + 1 /\ m_total \in Nat
      /\ MAX_LINES \in Nat \ {0} /\ m_count \in 0..MAX_LINES
      /\ m_count' = IF m_count < MAX_LINES THEN m_count + 1 ELSE m_count
  BY LinesAssumption DEF RingInv, LogTypeOK, Write
<1>4. \A i \in 1..m_count : GetLine(i - 1) = m_total - m_count + i
  BY DEF RingInv, Numbered
<1>5. ASSUME NEW i \in 1..m_count'
      PROVE  GetLine(i - 1)' = m_total' - m_count' + i
  <2>1. CASE i = m_count'
    BY <1>2, <1>3, <2>1
  <2>2. CASE i < m_count' /\ m_count < MAX_LINES
    <3>1. i \in 1..m_count /\ i - 1 \in 0..(m_count - 1)
      BY <1>3, <2>2
    <3>2. QED
      BY <1>2, <1>3, <1>4, <2>2, <3>1
  <2>3. CASE i < m_count' /\ m_count = MAX_LINES
    <3>1. i - 1 \in 0..(MAX_LINES - 2) /\ i + 1 \in 1..m_count /\ (i - 1) + 1 = (i + 1) - 1
      BY <1>3, <2>3
    <3>2. QED
      BY <1>2, <1>3, <1>4, <2>3, <3>1
  <2>4. QED
    BY <1>3, <2>1, <2>2, <2>3
<1>6. QED
  BY <1>1, <1>5 DEF RingInv, Numbered

LEMMA ClearNumbers ==
  ASSUME RingInv, Clear
  PROVE  RingInv'
BY ClearTypes DEF RingInv, Numbered, Clear

\* The same numbers as a sequence.
LEMMA ListingNumbers ==
  ASSUME RingInv
  PROVE  /\ Listing \in Seq(0..MaxTotal) /\ Len(Listing) = m_count
         /\ \A i \in 1..m_count : Listing[i] = m_total - m_count + i
BY ListingIsSequence DEF RingInv, Numbered

\* A sequence is told by its length, its last element and the others.
LEMMA AppendIs ==
  ASSUME NEW S, NEW s \in Seq(S), NEW e \in S, NEW t \in Seq(S),
         Len(t) = Len(s) + 1, t[Len(t)] = e,
         \A i \in 1..Len(s) : t[i] = s[i]
  PROVE  Append(s, e) = t
<1>1. /\ Append(s, e) \in Seq(S) /\ Len(Append(s, e)) = Len(s) + 1
      /\ \A i \in 1..Len(s) : Append(s, e)[i] = s[i]
      /\ Append(s, e)[Len(s) + 1] = e
  BY AppendProperties
<1>2. Len(s) \in Nat
  BY LenProperties
<1>3. \A i \in 1..Len(t) : Append(s, e)[i] = t[i]
  <2>1. \A i \in 1..Len(t) : i \in 1..Len(s) \/ i = Len(s) + 1
    BY <1>2
  <2>2. QED
    BY <1>1, <2>1
<1>4. QED
  BY <1>1, <1>3, SeqEqual

LEMMA WriteIsRolling ==
  ASSUME RingInv, Write
  PROVE  Rolling!Write
<1>1. /\ Listing \in Seq(0..MaxTotal) /\ Len(Listing) = m_count
      /\ \A i \in 1..m_count : Listing[i] = m_total - m_count + i
  BY ListingNumbers
<1>2. /\ Listing' \in Seq(0..MaxTotal) /\ Len(Listing') = m_count'
      /\ \A i \in 1..m_count' : Listing'[i] = m_total' - m_count' + i
  <2>1. RingInv'
    BY WriteNumbers
  <2>2. /\ m_count' \in 0..MAX_LINES /\ MAX_LINES \in Nat /\ MaxTotal \in Nat
        /\ m_total' \in 0..MaxTotal /\ m_count' <= m_total'
        /\ \A i \in 1..m_count' : GetLine(i - 1)' = m_total' - m_count' + i
    BY <2>1, LinesAssumption DEF RingInv, LogTypeOK, Numbered
  <2>3. \A i \in 1..m_count' : GetLine(i - 1)' \in 0..MaxTotal
    BY <2>2
  <2>4. QED
    BY <2>2, <2>3 DEF Listing
<1>3. /\ m_total' = m_total + 1 /\ m_total \in Nat /\ m_total < MaxTotal
      /\ MAX_LINES \in Nat \ {0} /\ m_count \in 0..MAX_LINES
      /\ m_count' = IF m_count < MAX_LINES THEN m_count + 1 ELSE m_count
      /\ MaxTotal \in Nat
  BY LinesAssumption DEF RingInv, LogTypeOK, Write
<1>4. CASE m_count < MAX_LINES
  <2>1. Append(Listing, m_total') = Listing'
    BY <1>1, <1>2, <1>3, <1>4, AppendIs
  <2>2. QED
    BY <1>1, <1>3, <1>4, <2>1 DEF Rolling!Write
<1>5. CASE m_count = MAX_LINES
  <2>1. Listing # <<>>
    BY <1>1, <1>3, <1>5
  <2>2. /\ Tail(Listing) \in Seq(0..MaxTotal) /\ Len(Tail(Listing)) = m_count - 1
        /\ \A i \in 1..(m_count - 1) : Tail(Listing)[i] = Listing[i + 1]
    BY <1>1, <2>1, HeadTailProperties
  <2>3. /\ Len(Listing') = Len(Tail(Listing)) + 1
        /\ m_total' \in 0..MaxTotal /\ Listing'[Len(Listing')] = m_total'
        /\ \A i \in 1..Len(Tail(Listing)) : Listing'[i] = Tail(Listing)[i]
    <3>1. /\ Len(Listing') = m_count /\ Len(Tail(Listing)) = m_count - 1
          /\ m_total' \in 0..MaxTotal
      BY <1>2, <1>3, <1>5, <2>2
    <3>2. Listing'[m_count] = m_total'
      BY <1>2, <1>3, <1>5
    <3>3. ASSUME NEW i \in 1..(m_count - 1)
          PROVE  Listing'[i] = Tail(Listing)[i]
      <4>1. i \in 1..m_count' /\ i + 1 \in 1..m_count
        BY <1>3, <1>5
      <4>2. Tail(Listing)[i] = m_total - m_count + (i + 1)
        BY <1>1, <2>2, <4>1
      <4>3. Listing'[i] = m_total' - m_count' + i
        BY <1>2, <4>1
      <4>4. m_total' - m_count' + i = m_total - m_count + (i + 1)
        BY <1>3, <1>5
      <4>5. QED
        BY <4>2, <4>3, <4>4
    <3>4. QED
      BY <1>3, <3>1, <3>2, <3>3
  <2>4. Append(Tail(Listing), m_total') = Listing'
    BY <1>2, <2>2, <2>3, AppendIs
  <2>5. QED
    BY <1>1, <1>3, <1>5, <2>4 DEF Rolling!Write
<1>6. QED
  BY <1>3, <1>4, <1>5

LEMMA ClearIsRolling ==
  ASSUME RingInv, Clear
  PROVE  Rolling!Clear
<1>1. Listing' = <<>>
  BY DEF Clear, Listing
<1>2. QED
  BY <1>1 DEF Rolling!Clear, Clear

-----------------------------------------------------------------------------
(* Every step of the device and the page is a step of the log or none of it *)

LEMMA LogSteps ==
  ASSUME Next
  PROVE  Write \/ Clear \/ UNCHANGED logVars
BY DEF Next, LogLine, ClearedElsewhere, Open, Poll, AskClear, Serve, ServeLogs, ServeClear,
       Take, TakePage, TakePoll, TakeClear, CallFails, CannotRead

LEMMA RingStep ==
  ASSUME RingInv, [Next]_vars
  PROVE  RingInv' /\ [Rolling!Next]_Rolling!vars
<1>1. CASE Write
  BY <1>1, WriteNumbers, WriteIsRolling DEF Rolling!Next
<1>2. CASE Clear
  BY <1>2, ClearNumbers, ClearIsRolling DEF Rolling!Next
<1>3. CASE UNCHANGED logVars
  <2>1. RingInv'
    BY <1>3 DEF logVars, RingInv, LogTypeOK, Numbered, GetLine, Slot, OldestSlot
  <2>2. UNCHANGED Rolling!vars
    BY <1>3 DEF logVars, Rolling!vars, Listing, GetLine, Slot, OldestSlot
  <2>3. QED
    BY <2>1, <2>2
<1>4. QED
  BY <1>1, <1>2, <1>3, LogSteps DEF vars

LEMMA RingStarts ==
  ASSUME LogInit
  PROVE  RingInv /\ Listing = <<>>
<1>1. LogTypeOK
  BY LinesAssumption DEF LogInit, LogTypeOK, Slots
<1>2. QED
  BY <1>1 DEF LogInit, RingInv, Numbered, Listing

\* For every number of slots the ring in RAM is the list of the last lines.
THEOREM LogIsRolling == Spec => KeepsTail
<1>1. Init => RingInv /\ Rolling!Init
  BY RingStarts DEF Init, LogInit, Rolling!Init
<1>2. RingInv /\ [Next]_vars => RingInv' /\ [Rolling!Next]_Rolling!vars
  BY RingStep
<1>3. QED
  BY <1>1, <1>2, PTL DEF Spec, KeepsTail, Rolling!Spec

-----------------------------------------------------------------------------
(* The types *)

\* The lines of an answer: those asked for, or the first of them.
Reply(from, count) ==
  {Asked(from, count)}
    \union {SubSeq(Asked(from, count), 1, k) : k \in 1..Len(Asked(from, count))}

\* What an answer may hold: as many lines as asked for at most, the ones from
\* the place asked for.
LEMMA AskedFacts ==
  ASSUME LogTypeOK, NEW from \in Nat, NEW count \in Nat
  PROVE  Asked(from, count) \in Seq(0..MaxTotal) /\ Len(Asked(from, count)) \in Nat
<1> DEFINE last == IF from + count < m_count THEN from + count ELSE m_count
<1>1. /\ m_count \in Nat /\ last \in Int /\ from + 1 \in Int /\ last <= m_count
      /\ Listing \in Seq(0..MaxTotal) /\ Len(Listing) = m_count
  BY LinesAssumption, ListingIsSequence DEF LogTypeOK
<1> HIDE DEF last
<1>2. ASSUME NEW i \in (from + 1)..last
      PROVE  Listing[i] \in 0..MaxTotal
  <2>1. i \in 1..Len(Listing)
    BY <1>1
  <2>2. QED
    BY <1>1, <2>1, LenProperties
<1>3. SubSeq(Listing, from + 1, last) \in Seq(0..MaxTotal)
  BY <1>1, <1>2, SubSeqProperties
<1>4. QED
  BY <1>3, LenProperties DEF Asked, last

LEMMA ReplyFacts ==
  ASSUME LogTypeOK, NEW from \in Nat, NEW count \in Nat, NEW lines \in Reply(from, count)
  PROVE  /\ lines \in Seq(0..MaxTotal) /\ Len(lines) <= count
         /\ \A i \in 1..Len(lines) :
              from + i \in 1..m_count /\ lines[i] = Listing[from + i]
<1> DEFINE last  == IF from + count < m_count THEN from + count ELSE m_count
           asked == SubSeq(Listing, from + 1, last)
<1>1. /\ m_count \in Nat /\ last \in Nat /\ last <= m_count /\ last <= from + count
      /\ Listing \in Seq(0..MaxTotal) /\ Len(Listing) = m_count
  BY LinesAssumption, ListingIsSequence DEF LogTypeOK
<1>2. ASSUME NEW i \in (from + 1)..last
      PROVE  Listing[i] \in 0..MaxTotal
  <2> HIDE DEF last
  <2>1. i \in 1..Len(Listing)
    BY <1>1
  <2>2. QED
    BY <1>1, <2>1, LenProperties
<1>3. /\ asked \in Seq(0..MaxTotal)
      /\ Len(asked) = IF from + 1 <= last THEN last - from ELSE 0
      /\ \A i \in 1..(last - from) : asked[i] = Listing[from + i]
  <2> HIDE DEF last
  <2>1. /\ from + 1 \in Int /\ last \in Int /\ last - (from + 1) + 1 = last - from
        /\ \A i \in 1..(last - from) : (from + 1) + i - 1 = from + i
    BY <1>1
  <2>2. /\ asked \in Seq(0..MaxTotal)
        /\ Len(asked) = IF from + 1 <= last THEN last - (from + 1) + 1 ELSE 0
        /\ \A i \in 1..(last - (from + 1) + 1) : asked[i] = Listing[(from + 1) + i - 1]
    BY <1>2, <2>1, SubSeqProperties
  <2>3. QED
    BY <2>1, <2>2
<1> HIDE DEF asked, last
<1>4. lines = asked \/ \E k \in 1..Len(asked) : lines = SubSeq(asked, 1, k)
  BY DEF Reply, Asked, asked, last
<1>5. CASE lines = asked
  BY <1>1, <1>3, <1>5
<1>6. ASSUME NEW k \in 1..Len(asked), lines = SubSeq(asked, 1, k)
      PROVE  /\ lines \in Seq(0..MaxTotal) /\ Len(lines) <= count
             /\ \A i \in 1..Len(lines) :
                  from + i \in 1..m_count /\ lines[i] = Listing[from + i]
  <2>1. k \in Nat /\ 1 <= k /\ k <= last - from
    BY <1>1, <1>3
  <2>2. ASSUME NEW i \in 1..k
        PROVE  asked[i] \in 0..MaxTotal
    <3>1. i \in 1..Len(asked)
      BY <1>1, <1>3, <2>1
    <3>2. QED
      BY <1>3, <3>1, LenProperties
  <2>3. /\ lines \in Seq(0..MaxTotal)
        /\ Len(lines) = IF 1 <= k THEN k - 1 + 1 ELSE 0
        /\ \A i \in 1..(k - 1 + 1) : lines[i] = asked[1 + i - 1]
    BY <1>6, <2>1, <2>2, SubSeqProperties
  <2>4. /\ Len(lines) = k
        /\ \A i \in 1..k : lines[i] = asked[i]
    BY <2>1, <2>3
  <2>5. ASSUME NEW i \in 1..k
        PROVE  from + i \in 1..m_count /\ lines[i] = Listing[from + i]
    <3>1. i \in 1..(last - from) /\ from + i \in 1..m_count
      BY <1>1, <2>1
    <3>2. QED
      BY <1>3, <2>4, <3>1
  <2>6. k <= count
    BY <1>1, <2>1
  <2>7. QED
    BY <2>3, <2>4, <2>5, <2>6
<1>7. QED
  BY <1>4, <1>5, <1>6

\* An answer holds such lines, or none where it cannot be read.
LEMMA Served ==
  ASSUME TypeOK, NEW s \in Connections, ServeLogs(s)
  PROVE  /\ call[s] \in Call /\ call[s].kind # "clear"
         /\ odd' \in {odd, odd \union {"full"}}
         /\ \E lines \in Seq(0..MaxTotal), readable \in BOOLEAN :
              /\ Len(lines) <= call[s].count
              /\ \A i \in 1..Len(lines) :
                   call[s].from + i \in 1..m_count /\ lines[i] = Listing[call[s].from + i]
              /\ call' = [call EXCEPT
                            ![s].answered = TRUE, ![s].readable = readable, ![s].lines = lines,
                            ![s].total = IF call[s].kind = "page" THEN @ ELSE m_total]
<1>1. call[s] \in Call /\ call[s].kind # "clear"
  BY DEF ServeLogs, TypeOK, NoCall
<1> DEFINE from  == call[s].from
           count == call[s].count
<1>2. from \in Nat /\ count \in Nat
  BY <1>1 DEF Call
<1>3. /\ odd' \in {odd, odd \union {"full"}}
      /\ \E lines \in Reply(from, count), readable \in BOOLEAN : Answer(s, lines, readable)
  <2>1. CASE ServeAll(s)
    <3>1. HasRaw(Asked(from, count)) \in BOOLEAN
      BY DEF HasRaw
    <3>2. Answer(s, Asked(from, count), ~HasRaw(Asked(from, count))) /\ odd' = odd
      BY <2>1 DEF ServeAll
    <3>3. QED
      BY <3>1, <3>2 DEF Reply
  <2>2. CASE ServeSome(s)
    <3>1. PICK k \in ReplyMin..(Len(Asked(from, count)) - 1) :
            LET some == SubSeq(Asked(from, count), 1, k)
            IN  \/ Answer(s, some, ~HasRaw(some)) /\ UNCHANGED odd
                \/ /\ Answer(s, some, FALSE)
                   /\ odd' = odd \union (IF call[s].kind = "poll" THEN {"full"} ELSE {})
      BY <2>2 DEF ServeSome
    <3> DEFINE some == SubSeq(Asked(from, count), 1, k)
    <3>2. Len(Asked(from, count)) \in Nat
      BY <1>2, AskedFacts DEF TypeOK
    <3>3. k \in 1..Len(Asked(from, count))
      BY <3>1, <3>2, ViewerAssumption
    <3>4. some \in Reply(from, count)
      BY <3>3 DEF Reply
    <3> HIDE DEF some
    <3>5. HasRaw(some) \in BOOLEAN
      BY DEF HasRaw
    <3>6. \/ Answer(s, some, ~HasRaw(some)) /\ UNCHANGED odd
          \/ /\ Answer(s, some, FALSE)
             /\ odd' = odd \union (IF call[s].kind = "poll" THEN {"full"} ELSE {})
      BY <3>1 DEF some
    <3>7. QED
      BY <3>4, <3>5, <3>6
  <2>3. QED
    BY <2>1, <2>2 DEF ServeLogs
<1>4. PICK lines \in Reply(from, count), readable \in BOOLEAN : Answer(s, lines, readable)
  BY <1>3
<1>5. /\ lines \in Seq(0..MaxTotal) /\ Len(lines) <= count
      /\ \A i \in 1..Len(lines) :
           from + i \in 1..m_count /\ lines[i] = Listing[from + i]
  BY <1>2, ReplyFacts DEF TypeOK
<1> DEFINE held == IF readable THEN lines ELSE <<>>
<1>6. /\ held \in Seq(0..MaxTotal) /\ Len(held) <= count
      /\ \A i \in 1..Len(held) :
           from + i \in 1..m_count /\ held[i] = Listing[from + i]
  <2>1. CASE readable
    BY <1>5, <2>1
  <2>2. CASE ~readable
    <3>1. held = <<>> /\ Len(held) = 0 /\ held \in Seq(0..MaxTotal)
      BY <2>2, EmptySeq
    <3>2. QED
      BY <1>2, <3>1
  <2>3. QED
    BY <2>1, <2>2
<1>7. call' = [call EXCEPT
                 ![s].answered = TRUE, ![s].readable = readable, ![s].lines = held,
                 ![s].total = IF call[s].kind = "page" THEN @ ELSE m_total]
  BY <1>4 DEF Answer
<1> HIDE DEF held
<1>8. QED
  BY <1>1, <1>3, <1>6, <1>7, Zenon

\* The requests the page makes.
LEMMA AskTypes ==
  ASSUME NEW kind \in {"all", "page", "poll", "clear"},
         NEW from \in Nat, NEW count \in Nat, NEW total \in Nat
  PROVE  Ask(kind, from, count, total) \in Call
BY EmptySeq DEF Ask, Call

LEMMA NextPageTypes ==
  ASSUME NEW from \in Nat, NEW total \in Nat
  PROVE  NextPage(from, total) \in Call \union {NoCall}
<1>1. CASE from >= total
  BY <1>1 DEF NextPage
<1>2. CASE ~(from >= total)
  <2>1. (IF BATCH < total - from THEN BATCH ELSE total - from) \in Nat
    BY <1>2, ViewerAssumption
  <2>2. QED
    BY <1>2, <2>1, AskTypes DEF NextPage
<1>3. QED
  BY <1>1, <1>2

LEMMA TypeStep ==
  ASSUME TypeOK, [Next]_vars
  PROVE  TypeOK'
<1>1. LogTypeOK'
  <2>1. CASE UNCHANGED logVars
    BY <2>1 DEF logVars, TypeOK, LogTypeOK
  <2>2. QED
    BY <2>1, LogSteps, WriteTypes, ClearTypes DEF TypeOK, vars
<1>2. m_total \in Nat /\ {BATCH, PollCount} \subseteq Nat
  BY LinesAssumption, ViewerAssumption DEF TypeOK, LogTypeOK
<1>3. CASE LogLine
  <2>1. m_total' = m_total + 1 /\ base' = base /\ base \in 0..m_total
        /\ raw \subseteq (base + 1)..m_total
        /\ raw' \in {raw, raw \union {m_total + 1}}
    BY <1>3 DEF LogLine, Write, TypeOK
  <2>2. raw' \subseteq (base' + 1)..m_total' /\ base' \in 0..m_total'
    BY <1>2, <2>1
  <2>3. QED
    BY <1>1, <1>3, <2>2 DEF LogLine, TypeOK, OddEvents
<1>4. CASE ClearedElsewhere
  BY <1>1, <1>2, <1>4 DEF ClearedElsewhere, Clear, TypeOK, OddEvents
<1>5. ASSUME NEW s \in Connections, Open(s)
      PROVE  TypeOK'
  <2>1. Ask("all", 0, BATCH, 0) \in Call
    BY <1>2, AskTypes
  <2>2. QED
    BY <1>1, <1>5, <2>1 DEF Open, logVars, TypeOK, OddEvents
<1>6. ASSUME NEW s \in Connections, Poll(s)
      PROVE  TypeOK'
  <2>1. Ask("poll", Len(allLines), PollCount, 0) \in Call
    BY <1>2, AskTypes, LenProperties DEF TypeOK
  <2>2. QED
    BY <1>1, <1>6, <2>1 DEF Poll, logVars, TypeOK, OddEvents, Overlap
<1>7. ASSUME NEW s \in Connections, AskClear(s)
      PROVE  TypeOK'
  <2>1. Ask("clear", 0, 0, 0) \in Call
    BY AskTypes
  <2>2. QED
    BY <1>1, <1>7, <2>1 DEF AskClear, logVars, TypeOK, OddEvents, Overlap
<1>8. ASSUME NEW s \in Connections, ServeLogs(s)
      PROVE  TypeOK'
  <2>1. call[s] \in Call /\ odd' \in {odd, odd \union {"full"}}
    BY <1>8, Served, Zenon
  <2>2. PICK lines \in Seq(0..MaxTotal), readable \in BOOLEAN :
          /\ Len(lines) <= call[s].count
          /\ \A i \in 1..Len(lines) :
               call[s].from + i \in 1..m_count /\ lines[i] = Listing[call[s].from + i]
          /\ call' = [call EXCEPT
                        ![s].answered = TRUE, ![s].readable = readable, ![s].lines = lines,
                        ![s].total = IF call[s].kind = "page" THEN @ ELSE m_total]
    BY <1>8, Served, Zenon
  <2>3. [call[s] EXCEPT !.answered = TRUE, !.readable = readable, !.lines = lines,
                        !.total = IF call[s].kind = "page" THEN @ ELSE m_total] \in Call
    BY <1>2, <2>1 DEF Call
  <2>4. call' \in [Connections -> Call \union {NoCall}]
    BY <2>2, <2>3 DEF TypeOK
  <2>5. odd' \subseteq OddEvents
    BY <2>1 DEF TypeOK, OddEvents
  <2>6. UNCHANGED <<logVars, allLines, open, base, raw>>
    BY <1>8 DEF ServeLogs
  <2>7. QED
    BY <1>1, <2>4, <2>5, <2>6 DEF logVars, TypeOK
<1>9. ASSUME NEW s \in Connections, ServeClear(s)
      PROVE  TypeOK'
  <2>1. call[s] \in Call
    BY <1>9 DEF ServeClear, TypeOK, NoCall
  <2>2. [call[s] EXCEPT !.answered = TRUE] \in Call
    BY <2>1 DEF Call
  <2>3. call' \in [Connections -> Call \union {NoCall}]
    BY <1>9, <2>2 DEF ServeClear, TypeOK
  <2>4. QED
    BY <1>1, <1>2, <1>9, <2>3 DEF ServeClear, Clear, TypeOK
<1>10. ASSUME NEW s \in Connections, TakePage(s)
       PROVE  TypeOK'
  <2>1. call[s] \in Call
    BY <1>10 DEF TakePage, TypeOK, NoCall
  <2>2. NextPage(call[s].from + call[s].count, call[s].total) \in Call \union {NoCall}
    BY <2>1, NextPageTypes DEF Call
  <2>3. allLines' \in Seq(0..MaxTotal)
    BY <1>10, <2>1, ConcatProperties, EmptySeq DEF TakePage, TypeOK, Call
  <2>4. call' \in [Connections -> Call \union {NoCall}]
    BY <1>10, <2>2 DEF TakePage, TypeOK
  <2>5. odd' \subseteq OddEvents
    BY <1>10 DEF TakePage, TypeOK, OddEvents
  <2>6. QED
    BY <1>1, <1>10, <2>3, <2>4, <2>5 DEF TakePage, logVars, TypeOK
<1>11. ASSUME NEW s \in Connections, TakePoll(s)
       PROVE  TypeOK'
  <2>1. call[s] \in Call
    BY <1>11 DEF TakePoll, TypeOK, NoCall
  <2>2. allLines' \in Seq(0..MaxTotal)
    BY <1>11, <2>1, ConcatProperties DEF TakePoll, TypeOK, Call
  <2>3. QED
    BY <1>1, <1>11, <2>2 DEF TakePoll, logVars, TypeOK
<1>12. ASSUME NEW s \in Connections, TakeClear(s) \/ CallFails(s) \/ CannotRead(s)
       PROVE  TypeOK'
  BY <1>1, <1>12, EmptySeq DEF TakeClear, CallFails, CannotRead, logVars, TypeOK
<1>13. CASE UNCHANGED vars
  BY <1>1, <1>13 DEF vars, logVars, pageVars, TypeOK
<1>14. QED
  BY <1>3, <1>4, <1>5, <1>6, <1>7, <1>8, <1>9, <1>10, <1>11, <1>12, <1>13 DEF Next, Serve, Take

-----------------------------------------------------------------------------
(* The page *)

\* The requests outstanding when one connection has changed its own.
LEMMA OneLeft ==
  ASSUME TypeOK, NEW s \in Connections, NEW c, call' = [call EXCEPT ![s] = c]
  PROVE  /\ call'[s] = c
         /\ Outstanding \subseteq {s} =>
              Outstanding' = IF c = NoCall THEN {} ELSE {s}
         /\ Outstanding' \subseteq Outstanding \union {s}
BY DEF Outstanding, TypeOK

\* The log holds as many of the lines since the last clear as it has room for.
LEMMA SinceStep ==
  ASSUME TypeOK, Since, [Next]_vars
  PROVE  Since'
<1>1. /\ m_total \in Nat /\ m_count \in Nat /\ base \in 0..m_total /\ MAX_LINES \in Nat \ {0}
  BY LinesAssumption DEF TypeOK, LogTypeOK
<1>2. CASE LogLine
  BY <1>1, <1>2 DEF LogLine, Write, Since
<1>3. CASE Clear /\ base' = m_total
  BY <1>1, <1>3 DEF Clear, Since
<1>4. CASE UNCHANGED <<m_total, m_count, base>>
  BY <1>4 DEF Since
<1>5. QED
  BY <1>2, <1>3, <1>4
     DEF Next, ClearedElsewhere, Open, Poll, AskClear, Serve, ServeLogs, ServeClear,
         Take, TakePage, TakePoll, TakeClear, CallFails, CannotRead, vars, logVars, pageVars

LEMMA ClosedStep ==
  ASSUME TypeOK, Closed, [Next]_vars
  PROVE  Closed'
<1>1. CASE open
  <2>1. open'
    BY <1>1 DEF Next, LogLine, ClearedElsewhere, Open, Poll, AskClear, Serve, ServeLogs,
         ServeClear, Take, TakePage, TakePoll, TakeClear, CallFails, CannotRead, vars, pageVars
  <2>2. QED
    BY <2>1 DEF Closed
<1>2. CASE ~open
  <2>1. \A s \in Connections : call[s].kind = "none"
    BY <1>2 DEF Closed, Outstanding, NoCall
  <2>2. open' \/ UNCHANGED <<allLines, call, open>>
    BY <1>2, <2>1
       DEF Next, LogLine, ClearedElsewhere, Open, Poll, AskClear, Serve, ServeLogs, ServeClear,
           Take, TakePage, TakePoll, TakeClear, CallFails, CannotRead, vars, pageVars
  <2>3. QED
    BY <2>2 DEF Closed, Outstanding
<1>3. QED
  BY <1>1, <1>2 DEF TypeOK

\* What the page shows stays in order with an answer put behind it.
LEMMA PutBehind ==
  ASSUME NEW shown \in Seq(0..MaxTotal), NEW more \in Seq(0..MaxTotal),
         NEW count \in Nat, NEW first \in Nat,
         Len(shown) <= count,
         Len(shown) + Len(more) <= count \/ more = <<>>,
         \A i \in 1..Len(shown) : shown[i] = first + i,
         \A i \in 1..Len(more) : more[i] = first + Len(shown) + i
  PROVE  /\ Len(shown \o more) = Len(shown) + Len(more)
         /\ Len(shown \o more) <= count
         /\ \A i \in 1..Len(shown \o more) : (shown \o more)[i] = first + i
<1>1. /\ Len(shown) \in Nat /\ Len(more) \in Nat
      /\ more = <<>> => Len(more) = 0
  BY LenProperties, EmptySeq
<1>2. /\ Len(shown \o more) = Len(shown) + Len(more)
      /\ \A i \in 1..(Len(shown) + Len(more)) :
           (shown \o more)[i] = IF i <= Len(shown) THEN shown[i] ELSE more[i - Len(shown)]
  BY ConcatProperties
<1>3. ASSUME NEW i \in 1..(Len(shown) + Len(more))
      PROVE  (shown \o more)[i] = first + i
  <2>1. CASE i <= Len(shown)
    BY <1>1, <1>2, <2>1
  <2>2. CASE ~(i <= Len(shown))
    <3>1. i - Len(shown) \in 1..Len(more)
      BY <1>1, <2>2
    <3>2. more[i - Len(shown)] = first + Len(shown) + (i - Len(shown))
      BY <3>1
    <3>3. QED
      BY <1>1, <1>2, <2>2, <3>2
  <2>3. QED
    BY <2>1, <2>2
<1>4. QED
  BY <1>1, <1>2, <1>3

\* An answer leaves what was asked for as it is.
LEMMA AnswerPutIn ==
  ASSUME NEW c \in Call, NEW lines, NEW readable, NEW n
  PROVE  /\ [c EXCEPT !.answered = TRUE].kind = c.kind
         /\ LET d == [c EXCEPT !.answered = TRUE, !.readable = readable, !.lines = lines,
                               !.total = IF c.kind = "page" THEN @ ELSE n]
            IN  d.kind = c.kind /\ d.from = c.from /\ d.count = c.count /\ d.lines = lines
BY DEF Call

LEMMA CalmEvents ==
  \A events : events \subseteq {"full"} =>
    "wrapped" \notin events /\ "cleared" \notin events /\ "overlap" \notin events
OBVIOUS

\* Nothing but what the page reckons with has happened, before and after.
LEMMA ShownStep ==
  ASSUME IInv, Next, Calm', open'
  PROVE  Undisturbed' /\ Shown' /\ Answers'
<1>1. /\ TypeOK /\ LogTypeOK /\ RingInv /\ Since /\ Closed
      /\ Calm /\ open => Undisturbed /\ Shown /\ Answers
  BY DEF IInv, PageInv, RingInv, TypeOK
<1>2. /\ m_total \in Nat /\ m_count \in Nat /\ base \in Nat /\ base <= m_total
      /\ MAX_LINES \in Nat /\ Len(allLines) \in Nat /\ allLines \in Seq(0..MaxTotal)
  BY <1>1, LinesAssumption, LenProperties DEF TypeOK, LogTypeOK
<1>3. CASE LogLine
  <2>1. /\ open /\ Calm /\ m_count < MAX_LINES
    <3>1. open
      BY <1>3 DEF LogLine
    <3>2. Calm /\ m_count # MAX_LINES
      <4>1. odd' = odd \union (IF m_count = MAX_LINES THEN {"wrapped"} ELSE {})
        BY <1>3, <3>1 DEF LogLine
      <4>2. m_count = MAX_LINES => "wrapped" \in odd'
        BY <4>1
      <4>3. odd \subseteq odd'
        BY <4>1
      <4>4. QED
        BY <4>2, <4>3 DEF Calm
    <3>3. QED
      BY <1>1, <1>2, <3>1, <3>2 DEF LogTypeOK
  <2>2. /\ m_total' = m_total + 1 /\ m_count' = m_count + 1
        /\ UNCHANGED <<allLines, call, base>>
    BY <1>3, <2>1 DEF LogLine, Write
  <2>3. Undisturbed'
    BY <1>1, <1>2, <2>1, <2>2 DEF Undisturbed, Outstanding
  <2>4. Shown'
    BY <1>1, <1>2, <2>1, <2>2 DEF Shown, Clearing, Outstanding
  <2>5. ASSUME NEW t \in Outstanding
        PROVE  Consistent(call[t])'
    <3>1. Consistent(call[t])
      BY <1>1, <2>1 DEF Answers
    <3>2. call[t] \in Call
      BY <1>1 DEF Outstanding, TypeOK
    <3>3. call[t].from \in Nat /\ Len(call[t].lines) \in Nat
      BY <3>2, LenProperties DEF Call
    <3>4. QED
      BY <1>2, <2>2, <3>1, <3>3 DEF Consistent
  <2>6. QED
    BY <2>2, <2>3, <2>4, <2>5 DEF Answers, Outstanding
<1>4. ASSUME NEW s \in Connections, Open(s)
      PROVE  Undisturbed' /\ Shown' /\ Answers'
  <2>1. /\ allLines = <<>> /\ Outstanding = {} /\ m_count = m_total - base
        /\ UNCHANGED <<m_total, m_count, base, allLines>>
    <3>1. odd' = IF m_total - base > MAX_LINES THEN {"wrapped"} ELSE {}
      BY <1>4 DEF Open
    <3>2. "wrapped" \notin odd'
      BY CalmEvents DEF Calm
    <3>3. ~(m_total - base > MAX_LINES)
      BY <3>1, <3>2
    <3>4. QED
      BY <1>1, <1>2, <1>4, <3>3 DEF Open, Closed, Since, logVars
  <2>2. /\ call'[s] = Ask("all", 0, BATCH, 0) /\ Outstanding' \subseteq {s}
    BY <1>1, <1>4, <2>1, OneLeft DEF Open
  <2>3. Len(allLines') = 0 /\ Len(<<>>) = 0
    BY <2>1
  <2>4. Consistent(call[s])'
    BY <1>2, <2>2, <2>3, ViewerAssumption DEF Consistent, Ask
  <2>5. QED
    BY <1>2, <2>1, <2>2, <2>3, <2>4 DEF Undisturbed, Shown, Answers
<1>5. ASSUME NEW s \in Connections, Poll(s) \/ AskClear(s)
      PROVE  Undisturbed' /\ Shown' /\ Answers'
  <2>1. /\ open /\ Calm /\ Outstanding = {}
        /\ UNCHANGED <<m_total, m_count, base, allLines>>
    <3>1. odd' = odd \union Overlap /\ open
          /\ UNCHANGED <<m_total, m_count, base, allLines>>
      BY <1>5 DEF Poll, AskClear, logVars
    <3>2. Calm /\ "overlap" \notin Overlap
      BY <3>1, CalmEvents DEF Calm
    <3>3. QED
      BY <3>1, <3>2 DEF Overlap
  <2>2. Undisturbed /\ Shown /\ ~Clearing
    BY <1>1, <2>1 DEF Clearing
  <2>3. /\ call'[s] \in {Ask("poll", Len(allLines), PollCount, 0), Ask("clear", 0, 0, 0)}
        /\ Outstanding' \subseteq {s}
    BY <1>1, <1>5, <2>1, OneLeft DEF Poll, AskClear
  <2>4. Consistent(call[s])'
    BY <1>2, <2>1, <2>3, EmptySeq, ViewerAssumption DEF Consistent, Ask
  <2>5. QED
    BY <1>2, <2>1, <2>2, <2>3, <2>4 DEF Undisturbed, Shown, Answers
<1>6. ASSUME NEW s \in Connections, Serve(s) \/ Take(s) \/ CallFails(s) \/ CannotRead(s)
      PROVE  Undisturbed' /\ Shown' /\ Answers'
  <2>1. /\ open /\ Calm /\ s \in Outstanding /\ call[s] \in Call
    <3>1. Calm /\ call[s].kind # "none"
      <4>1. odd \subseteq odd' /\ call[s].kind # "none"
        BY <1>6
           DEF Serve, ServeLogs, ServeAll, ServeSome, ServeClear, Take, TakePage, TakePoll,
               TakeClear, CallFails, CannotRead
      <4>2. QED
        BY <4>1 DEF Calm
    <3>2. s \in Outstanding /\ call[s] \in Call
      BY <1>1, <3>1 DEF Outstanding, TypeOK, NoCall
    <3>3. QED
      BY <1>1, <3>1, <3>2 DEF Closed, TypeOK
  <2>2. /\ Undisturbed /\ Shown /\ Consistent(call[s]) /\ Outstanding = {s}
    BY <1>1, <2>1 DEF Answers, Undisturbed
  <2>3. Clearing <=> call[s].kind = "clear"
    BY <2>2 DEF Clearing
  <2>4. /\ call[s].from \in Nat /\ call[s].count \in Nat /\ call[s].total \in Nat
        /\ call[s].lines \in Seq(0..MaxTotal) /\ Len(call[s].lines) \in Nat
        /\ call[s].kind \in {"all", "page", "poll", "clear"}
    BY <2>1, LenProperties DEF Call
  <2>5. CASE ServeLogs(s)
    <3>1. PICK lines \in Seq(0..MaxTotal), readable \in BOOLEAN :
            /\ Len(lines) <= call[s].count
            /\ \A i \in 1..Len(lines) :
                 call[s].from + i \in 1..m_count /\ lines[i] = Listing[call[s].from + i]
            /\ call' = [call EXCEPT
                          ![s].answered = TRUE, ![s].readable = readable, ![s].lines = lines,
                          ![s].total = IF call[s].kind = "page" THEN @ ELSE m_total]
      BY <1>1, <2>5, Served, Zenon
    <3>2. /\ call'[s].kind = call[s].kind /\ call'[s].from = call[s].from
          /\ call'[s].count = call[s].count /\ call'[s].lines = lines
      <4>1. call'[s] = [call[s] EXCEPT !.answered = TRUE, !.readable = readable, !.lines = lines,
                          !.total = IF call[s].kind = "page" THEN @ ELSE m_total]
        BY <1>1, <3>1 DEF TypeOK
      <4>2. QED
        BY <2>1, <4>1, AnswerPutIn
    <3>3. Outstanding' \subseteq {s}
      <4>1. \A t \in Connections : t # s => call'[t] = call[t]
        BY <1>1, <3>1 DEF TypeOK
      <4>2. QED
        BY <2>2, <4>1 DEF Outstanding
    <3>4. /\ lines \in Seq(0..MaxTotal) /\ Len(lines) <= call[s].count
          /\ \A i \in 1..Len(lines) :
               call[s].from + i \in 1..m_count /\ lines[i] = Listing[call[s].from + i]
      BY <3>1
    <3>5. ASSUME NEW i \in 1..Len(lines)
          PROVE  lines[i] = base + call[s].from + i
      <4>1. /\ call[s].from + i \in 1..m_count /\ lines[i] = Listing[call[s].from + i]
        BY <3>4
      <4>2. lines[i] = m_total - m_count + (call[s].from + i)
        BY <1>1, <4>1, ListingNumbers
      <4>3. QED
        BY <1>2, <2>2, <2>4, <4>2 DEF Undisturbed
    <3>6. call[s].from + Len(lines) <= m_count \/ lines = <<>>
      <4>1. CASE Len(lines) = 0
        BY <3>4, <4>1, EmptySeq
      <4>2. CASE Len(lines) # 0
        <5>1. Len(lines) \in 1..Len(lines)
          BY <3>4, <4>2, LenProperties
        <5>2. QED
          BY <3>4, <5>1
      <4>3. QED
        BY <4>1, <4>2
    <3>7. /\ UNCHANGED <<m_total, m_count, base, allLines>> /\ call[s].kind # "clear"
      BY <2>5 DEF ServeLogs, logVars
    <3>8. Consistent(call[s])'
      BY <2>2, <3>2, <3>4, <3>5, <3>6, <3>7 DEF Consistent
    <3>9. QED
      BY <2>2, <2>3, <3>3, <3>7, <3>8 DEF Undisturbed, Shown, Answers
  <2>6. CASE ServeClear(s)
    <3>1. /\ m_total' = m_total /\ m_count' = 0 /\ base' = m_total
      BY <2>6 DEF ServeClear, Clear
    <3>2. /\ call[s].kind = "clear" /\ call' = [call EXCEPT ![s].answered = TRUE]
      BY <2>6 DEF ServeClear
    <3>3. call'[s].kind = "clear"
      <4>1. call'[s] = [call[s] EXCEPT !.answered = TRUE]
        BY <1>1, <3>2 DEF TypeOK
      <4>2. QED
        BY <2>1, <3>2, <4>1, AnswerPutIn
    <3>4. Outstanding' = {s}
      <4>1. \A t \in Connections : t # s => call'[t] = call[t]
        BY <1>1, <3>2 DEF TypeOK
      <4>2. QED
        BY <2>2, <3>3, <4>1 DEF Outstanding, NoCall
    <3>5. Clearing'
      BY <3>3, <3>4 DEF Clearing
    <3>6. Consistent(call[s])'
      BY <3>3 DEF Consistent
    <3>7. QED
      BY <1>2, <3>1, <3>4, <3>5, <3>6 DEF Undisturbed, Shown, Answers
  <2>7. CASE TakePage(s)
    <3> DEFINE shown == IF call[s].kind = "all" THEN <<>> ELSE allLines
               next  == NextPage(call[s].from + call[s].count, call[s].total)
    <3>1. /\ call[s].kind \in {"all", "page"} /\ call[s].answered
          /\ allLines' = shown \o call[s].lines
          /\ call' = [call EXCEPT ![s] = next]
          /\ next # NoCall => Len(call[s].lines) >= call[s].count
          /\ UNCHANGED <<m_total, m_count, base>>
      <4>1. (IF next # NoCall /\ Len(call[s].lines) < call[s].count THEN {"short"} ELSE {}) = {}
        BY <2>7 DEF TakePage, Calm
      <4>2. ~(next # NoCall /\ Len(call[s].lines) < call[s].count)
        BY <4>1
      <4>3. QED
        BY <2>4, <2>7, <4>2 DEF TakePage, HasAnswer, logVars
    <3> HIDE DEF next
    <3>2. call'[s] = next /\ Outstanding' = IF next = NoCall THEN {} ELSE {s}
      BY <1>1, <2>2, <3>1, OneLeft
    <3>3. /\ shown \in Seq(0..MaxTotal) /\ Len(shown) <= m_count /\ Len(shown) = call[s].from
          /\ \A i \in 1..Len(shown) : shown[i] = base + i
      <4>1. CASE call[s].kind = "all"
        BY <1>2, <2>2, <4>1, EmptySeq DEF Consistent
      <4>2. CASE call[s].kind = "page"
        BY <1>2, <2>2, <2>3, <4>2 DEF Shown, Consistent
      <4>3. QED
        BY <3>1, <4>1, <4>2
    <3>4. /\ Len(shown) + Len(call[s].lines) <= m_count \/ call[s].lines = <<>>
          /\ \A i \in 1..Len(call[s].lines) : call[s].lines[i] = base + Len(shown) + i
          /\ Len(call[s].lines) <= call[s].count
      BY <2>2, <3>1, <3>3 DEF Consistent
    <3> HIDE DEF shown
    <3>4a. /\ Len(shown \o call[s].lines) = Len(shown) + Len(call[s].lines)
          /\ Len(shown \o call[s].lines) <= m_count
          /\ \A i \in 1..Len(shown \o call[s].lines) : (shown \o call[s].lines)[i] = base + i
      <4>1. m_count \in Nat /\ base \in Nat
        BY <1>2
      <4> DEFINE more == call[s].lines
      <4>2. /\ more \in Seq(0..MaxTotal)
            /\ Len(shown) + Len(more) <= m_count \/ more = <<>>
            /\ \A i \in 1..Len(more) : more[i] = base + Len(shown) + i
        BY <2>4, <3>4
      <4>3. /\ shown \in Seq(0..MaxTotal) /\ Len(shown) <= m_count
            /\ \A i \in 1..Len(shown) : shown[i] = base + i
        BY <3>3
      <4> HIDE DEF more
      <4>4. /\ Len(shown \o more) = Len(shown) + Len(more)
            /\ Len(shown \o more) <= m_count
            /\ \A i \in 1..Len(shown \o more) : (shown \o more)[i] = base + i
        BY <4>1, <4>2, <4>3, PutBehind
      <4>5. QED
        BY <4>4 DEF more
    <3>5. /\ Len(allLines') = call[s].from + Len(call[s].lines) /\ Len(allLines') <= m_count
          /\ \A i \in 1..Len(allLines') : allLines'[i] = base + i
      BY <3>1, <3>3, <3>4a
    <3>6. ASSUME next # NoCall
          PROVE  Consistent(call[s])'
      <4>1. /\ next.kind = "page" /\ next.from = call[s].from + call[s].count
            /\ next.lines = <<>> /\ ~next.answered /\ next.count \in Nat
        BY <2>4, <3>6, ViewerAssumption DEF next, NextPage, Ask
      <4>2. Len(call[s].lines) = call[s].count
        BY <2>4, <3>1, <3>4, <3>6
      <4>3. QED
        BY <3>2, <3>5, <4>1, <4>2, EmptySeq DEF Consistent
    <3>7. Undisturbed'
      BY <2>2, <3>1, <3>2 DEF Undisturbed
    <3>8. QED
      BY <3>1, <3>2, <3>5, <3>6, <3>7 DEF Shown, Answers
  <2>8. CASE TakePoll(s)
    <3>1. /\ call[s].kind = "poll" /\ call[s].answered
          /\ allLines' = allLines \o call[s].lines
          /\ call' = [call EXCEPT ![s] = NoCall]
          /\ UNCHANGED <<m_total, m_count, base>>
      BY <2>8 DEF TakePoll, HasAnswer, logVars
    <3>2. Outstanding' = {}
      BY <1>1, <2>2, <3>1, OneLeft
    <3>3. /\ Len(allLines) <= m_count
          /\ \A i \in 1..Len(allLines) : allLines[i] = base + i
          /\ Len(allLines) + Len(call[s].lines) <= m_count \/ call[s].lines = <<>>
          /\ \A i \in 1..Len(call[s].lines) : call[s].lines[i] = base + Len(allLines) + i
      BY <2>2, <2>3, <3>1 DEF Shown, Consistent
    <3>4. /\ Len(allLines') <= m_count
          /\ \A i \in 1..Len(allLines') : allLines'[i] = base + i
      BY <1>2, <2>4, <3>1, <3>3, PutBehind
    <3>5. QED
      BY <2>2, <3>1, <3>2, <3>4 DEF Undisturbed, Shown, Answers
  <2>9. CASE TakeClear(s)
    <3>1. /\ allLines' = <<>> /\ call' = [call EXCEPT ![s] = NoCall]
          /\ UNCHANGED <<m_total, m_count, base>>
      BY <2>9 DEF TakeClear, logVars
    <3>2. Outstanding' = {}
      BY <1>1, <2>2, <3>1, OneLeft
    <3>3. Len(allLines') = 0
      BY <3>1, EmptySeq
    <3>4. QED
      BY <1>2, <2>2, <3>1, <3>2, <3>3 DEF Undisturbed, Shown, Answers
  <2>10. CASE CallFails(s) \/ CannotRead(s)
    <3>1. /\ call[s].kind # "clear" /\ call' = [call EXCEPT ![s] = NoCall]
          /\ UNCHANGED <<m_total, m_count, base, allLines>>
      BY <2>10 DEF CallFails, CannotRead, logVars
    <3>2. Outstanding' = {}
      BY <1>1, <2>2, <3>1, OneLeft
    <3>3. QED
      BY <2>2, <2>3, <3>1, <3>2 DEF Undisturbed, Shown, Answers
  <2>11. QED
    BY <1>6, <2>5, <2>6, <2>7, <2>8, <2>9, <2>10 DEF Serve, Take
<1>7. ~ClearedElsewhere
  <2>1. "cleared" \notin odd'
    BY CalmEvents DEF Calm
  <2>2. QED
    BY <2>1 DEF ClearedElsewhere
<1>8. QED
  BY <1>3, <1>4, <1>5, <1>6, <1>7 DEF Next

LEMMA PageStep ==
  ASSUME IInv, [Next]_vars
  PROVE  IInv'
<1>1. TypeOK' /\ Numbered' /\ Since' /\ Closed'
  BY TypeStep, RingStep, SinceStep, ClosedStep DEF IInv, PageInv, RingInv, TypeOK
<1>2. CASE Next
  BY <1>1, <1>2, ShownStep DEF IInv, PageInv
<1>3. CASE UNCHANGED vars
  BY <1>1, <1>3
     DEF IInv, PageInv, Calm, Undisturbed, Shown, Answers, Consistent, Clearing, Outstanding,
         vars, logVars, pageVars
<1>4. QED
  BY <1>2, <1>3

LEMMA Starts ==
  ASSUME Init
  PROVE  IInv
<1>1. RingInv
  BY RingStarts DEF Init
<1>2. Outstanding = {}
  BY DEF Init, Outstanding
<1>3. TypeOK
  <2>1. <<>> \in Seq(0..MaxTotal)
    BY EmptySeq
  <2>2. base \in 0..m_total
    BY DEF Init, LogInit
  <2>3. call \in [Connections -> Call \union {NoCall}]
    BY DEF Init
  <2>4. QED
    BY <1>1, <2>1, <2>2, <2>3 DEF Init, RingInv, TypeOK
<1>4. PageInv
  BY <1>2, LinesAssumption DEF Init, LogInit, PageInv, Since, Closed
<1>5. QED
  BY <1>1, <1>3, <1>4 DEF IInv, RingInv

LEMMA InvariantHolds == Spec => []IInv
<1>1. Init => IInv
  BY Starts
<1>2. IInv /\ [Next]_vars => IInv'
  BY PageStep
<1>3. QED
  BY <1>1, <1>2, PTL DEF Spec

\* Every reachable state of the ring and the page is of its type.
THEOREM TypeCorrect == Spec => []TypeOK
<1>1. IInv => TypeOK
  BY DEF IInv
<1>2. QED
  BY <1>1, InvariantHolds, PTL

\* The page shows the log from its first line on without a gap, for every size
\* of the ring, the batches and the answers and every number of connections.
THEOREM TabShowsInOrder == Spec => []ShownInOrder
<1>1. IInv => ShownInOrder
  <2> SUFFICES ASSUME IInv, Calm, ~Clearing
               PROVE  \A i \in 1..Len(allLines) : allLines[i] = base + i
    BY DEF ShownInOrder, Calm
  <2>1. CASE open
    BY <2>1 DEF IInv, PageInv, Shown
  <2>2. CASE ~open
    BY <2>2, EmptySeq DEF IInv, PageInv, Closed
  <2>3. QED
    BY <2>1, <2>2
<1>2. QED
  BY <1>1, InvariantHolds, PTL
=============================================================================
