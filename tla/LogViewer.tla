------------------------------ MODULE LogViewer -----------------------------
(***************************************************************************)
(* The log tab (www/logs.html) on the log in RAM (CircularLog), over       *)
(* GET /api/logs and POST /api/logs/clear.  The page reads the log batch   *)
(* by batch when it is opened and then asks at an interval for the lines   *)
(* behind the ones it has.  Nothing keeps it from asking while an answer   *)
(* is outstanding; the connections carry the answers in any order.         *)
(*                                                                         *)
(* The firmware writes lines at any moment, the line each request leaves   *)
(* (web_server.cpp:4917) among them.  A raw line holds a character that    *)
(* JSON does not allow in a string: the CR LF of an AT command, or a       *)
(* backslash.  Of an answer that is no JSON the page takes nothing.        *)
(***************************************************************************)
EXTENDS CircularLog

CONSTANTS
  BATCH,         \* the lines loadAll and fetchPage ask for
  PollCount,     \* the lines pollNew asks for
  ReplyMin,      \* the lines that fit in an answer however long they are
  Connections,   \* the requests that may be outstanding
  Faults         \* what may happen: "lost" answers, "cleared" from elsewhere, "raw" lines

ASSUME ViewerAssumption ==
  /\ {BATCH, PollCount, ReplyMin} \subseteq Nat \ {0}
  /\ Faults \subseteq {"lost", "cleared", "raw"}

VARIABLES
  allLines,   \* what the page shows
  open,       \* has the page been opened?
  call,       \* the request on each connection, NoCall if none
  base,       \* history: m_total at the last clear
  odd,        \* history: what has happened that the page does not reckon with
  raw         \* the lines written since the last clear that are raw

pageVars == <<allLines, open, call, base, odd, raw>>
vars == <<logVars, pageVars>>

NoCall == [kind |-> "none"]

Ask(kind, from, count, total) ==
  [kind |-> kind, from |-> from, count |-> count, total |-> total,
   answered |-> FALSE, readable |-> FALSE, lines |-> <<>>]

OddEvents == {"wrapped", "cleared", "overlap", "short", "full"}

Outstanding == {s \in Connections : call[s] # NoCall}

Overlap == IF Outstanding = {} THEN {} ELSE {"overlap"}

Init ==
  /\ LogInit
  /\ allLines = <<>>
  /\ open = FALSE
  /\ call = [s \in Connections |-> NoCall]
  /\ base = 0
  /\ odd = {}
  /\ raw = {}

-----------------------------------------------------------------------------
(* The device *)

\* A line that overwrites another while the page is open counts the places of
\* all others anew.
LogLine ==
  /\ Write
  /\ raw' = raw \/ ("raw" \in Faults /\ raw' = raw \union {m_total'})
  /\ odd' = odd \union (IF open /\ m_count = MAX_LINES THEN {"wrapped"} ELSE {})
  /\ UNCHANGED <<allLines, open, call, base>>

ClearedElsewhere ==
  /\ "cleared" \in Faults
  /\ Clear
  /\ base' = m_total
  /\ odd' = odd \union (IF open THEN {"cleared"} ELSE {})
  /\ raw' = {}
  /\ UNCHANGED <<allLines, open, call>>

\* The lines asked for, as far as the log goes.
Asked(from, count) ==
  SubSeq(Listing, from + 1, IF from + count < m_count THEN from + count ELSE m_count)

HasRaw(lines) == \E i \in DOMAIN lines : lines[i] \in raw

\* `total' is the number of lines ever written.
Answer(s, lines, readable) ==
  call' = [call EXCEPT ![s].answered = TRUE,
                       ![s].readable = readable,
                       ![s].lines = IF readable THEN lines ELSE <<>>,
                       ![s].total = IF call[s].kind = "page" THEN @ ELSE m_total]

\* handleApiLogs, and all that was asked for has room; it escapes quotes only.
ServeAll(s) ==
  /\ LET asked == Asked(call[s].from, call[s].count) IN Answer(s, asked, ~HasRaw(asked))
  /\ UNCHANGED odd

\* handleApiLogs, and lines are left out for want of room.  Each leaves its comma,
\* so that the answer is no JSON, unless what was written fills the buffer to the
\* last bytes.
ServeSome(s) ==
  LET asked == Asked(call[s].from, call[s].count)
  IN  \E k \in ReplyMin..(Len(asked) - 1) :
        LET some == SubSeq(asked, 1, k)
        IN  \/ Answer(s, some, ~HasRaw(some)) /\ UNCHANGED odd
            \/ /\ Answer(s, some, FALSE)
               /\ odd' = odd \union (IF call[s].kind = "poll" THEN {"full"} ELSE {})

ServeLogs(s) ==
  /\ call[s].kind \in {"all", "page", "poll"} /\ ~call[s].answered
  /\ ServeAll(s) \/ ServeSome(s)
  /\ UNCHANGED <<logVars, allLines, open, base, raw>>

ServeClear(s) ==
  /\ call[s].kind = "clear" /\ ~call[s].answered
  /\ Clear
  /\ base' = m_total
  /\ call' = [call EXCEPT ![s].answered = TRUE]
  /\ raw' = {}
  /\ UNCHANGED <<allLines, open, odd>>

-----------------------------------------------------------------------------
(* The page *)

Open(s) ==
  /\ ~open
  /\ open' = TRUE
  /\ call' = [call EXCEPT ![s] = Ask("all", 0, BATCH, 0)]
  /\ odd' = IF m_total - base > MAX_LINES THEN {"wrapped"} ELSE {}
  /\ UNCHANGED <<logVars, allLines, base, raw>>

\* Mutant: the place of the line after the next is asked for.
PollBehind(s) ==
  /\ open
  /\ call[s] = NoCall
  /\ call' = [call EXCEPT ![s] = Ask("poll", Len(allLines) + 1, PollCount, 0)]
  /\ odd' = odd \union Overlap
  /\ UNCHANGED <<logVars, allLines, open, base, raw>>

\* pollNew: the number of lines shown is the place of the next one.
Poll(s) ==
  /\ open
  /\ call[s] = NoCall
  /\ call' = [call EXCEPT ![s] = Ask("poll", Len(allLines), PollCount, 0)]
  /\ odd' = odd \union Overlap
  /\ UNCHANGED <<logVars, allLines, open, base, raw>>

AskClear(s) ==
  /\ open
  /\ call[s] = NoCall
  /\ call' = [call EXCEPT ![s] = Ask("clear", 0, 0, 0)]
  /\ odd' = odd \union Overlap
  /\ UNCHANGED <<logVars, allLines, open, base, raw>>

\* fetchPage.
NextPage(from, total) ==
  IF from >= total THEN NoCall
  ELSE Ask("page", from, IF BATCH < total - from THEN BATCH ELSE total - from, total)

\* An answer the page can use.
HasAnswer(s) == call[s].answered /\ call[s].readable

\* The answer to loadAll or fetchPage, which goes on with the next page, however
\* many lines this one has.
TakePage(s) ==
  LET c    == call[s]
      next == NextPage(c.from + c.count, c.total)
  IN  /\ c.kind \in {"all", "page"} /\ HasAnswer(s)
      /\ allLines' = (IF c.kind = "all" THEN <<>> ELSE allLines) \o c.lines
      /\ call' = [call EXCEPT ![s] = next]
      /\ odd' = odd \union (IF next # NoCall /\ Len(c.lines) < c.count THEN {"short"} ELSE {})
      /\ UNCHANGED <<logVars, open, base, raw>>

TakePoll(s) ==
  /\ call[s].kind = "poll" /\ HasAnswer(s)
  /\ allLines' = allLines \o call[s].lines
  /\ call' = [call EXCEPT ![s] = NoCall]
  /\ UNCHANGED <<logVars, open, base, odd, raw>>

\* Also the handler of a failed request empties the page.
TakeClear(s) ==
  /\ call[s].kind = "clear"
  /\ call[s].answered \/ "lost" \in Faults
  /\ allLines' = <<>>
  /\ call' = [call EXCEPT ![s] = NoCall]
  /\ UNCHANGED <<logVars, open, base, odd, raw>>

\* A request or its answer is lost; the page says so and does nothing.
CallFails(s) ==
  /\ "lost" \in Faults
  /\ call[s].kind \in {"all", "page", "poll"}
  /\ call' = [call EXCEPT ![s] = NoCall]
  /\ UNCHANGED <<logVars, allLines, open, base, odd, raw>>

\* r.json() rejects the answer and the page does nothing: loadAll and fetchPage end,
\* and the next pollNew asks from the same place again.
CannotRead(s) ==
  /\ call[s].kind \in {"all", "page", "poll"} /\ call[s].answered /\ ~call[s].readable
  /\ call' = [call EXCEPT ![s] = NoCall]
  /\ UNCHANGED <<logVars, allLines, open, base, odd, raw>>

-----------------------------------------------------------------------------
Serve(s) == ServeLogs(s) \/ ServeClear(s)
Take(s) == TakePage(s) \/ TakePoll(s) \/ TakeClear(s)

Next ==
  \/ LogLine \/ ClearedElsewhere
  \/ \E s \in Connections :
       Open(s) \/ Poll(s) \/ AskClear(s) \/ Serve(s) \/ Take(s) \/ CallFails(s) \/ CannotRead(s)

Spec == Init /\ [][Next]_vars

\* The timer of the page goes off again and again, and of the requests and the
\* answers sent again and again not all are lost.
FairSpec ==
  /\ Spec
  /\ WF_vars(\E s \in Connections : Poll(s))
  /\ WF_vars(\E s \in Connections : CannotRead(s))
  /\ SF_vars(\E s \in Connections : ServeLogs(s))
  /\ SF_vars(\E s \in Connections : TakePage(s) \/ TakePoll(s))

-----------------------------------------------------------------------------
(* Properties *)

Call ==
  [kind : {"all", "page", "poll", "clear"}, from : Nat, count : Nat, total : Nat,
   answered : BOOLEAN, readable : BOOLEAN, lines : Seq(0..MaxTotal)]

TypeOK ==
  /\ LogTypeOK
  /\ allLines \in Seq(0..MaxTotal)
  /\ open \in BOOLEAN
  /\ call \in [Connections -> Call \union {NoCall}]
  /\ base \in 0..m_total
  /\ odd \subseteq OddEvents
  /\ raw \subseteq (base + 1)..m_total

Clearing == \E s \in Outstanding : call[s].kind = "clear"

\* The page shows the log from its first line on, without a gap and with no
\* line twice, unless the log has wrapped, another page cleared it, two
\* requests overlapped, or a batch was cut short in the middle of the log.
ShownInOrder ==
  odd \subseteq {"full"} /\ ~Clearing => \A i \in 1..Len(allLines) : allLines[i] = base + i

\* A raw line is, or would be, in the answer to a poll that asks for the line n or
\* for one before it.
InTheWay(n) == \E k \in raw : k < n + PollCount

\* A line that is written comes to be shown, also where loadAll or fetchPage has
\* failed, unless such an event, a clear, or a poll whose answer has no room comes
\* before, or a raw line is in the way: it stays there until the log is cleared
\* or wraps.
LinesAppear ==
  \A n \in 1..MaxTotal :
    open /\ m_total >= n
      ~> \/ odd # {} \/ Clearing \/ base >= n \/ InTheWay(n)
         \/ \E i \in 1..Len(allLines) : allLines[i] = n
=============================================================================
