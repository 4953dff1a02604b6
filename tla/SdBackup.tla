------------------------------ MODULE SdBackup ------------------------------
(***************************************************************************)
(* The backup files of the SD card and the operations of class SdBackup    *)
(* (Core/Src/sd_backup.cpp).  One instance serves every file: file 0 is    *)
(* the common backup.jsn, file c > 0 is backup_ch(c-1).jsn.                *)
(*                                                                         *)
(* A file is a sequence of lines.  Of a line the model keeps the numbers   *)
(* of the measurements it carries, its length in units of one record, and  *)
(* whether it is a JSON object, a JSON array (a chunk saved by the channel *)
(* manager), a torn piece (its end of line was never written) or the       *)
(* garbled result of a later append to a torn piece.                       *)
(*                                                                         *)
(* The operators are actions over sdVars; the modules that extend this one *)
(* say who calls them and when.  `damage' is a history variable: the kinds *)
(* of event so far that leave less than the whole behind.  All but "short" *)
(* may cost a stored measurement; after "short" one may be sent twice.     *)
(***************************************************************************)
EXTENDS Naturals, Sequences

CONSTANTS
  Channels,   \* number of per-channel files
  LineMax,    \* Config::JSONL_LINE_MAX, in record lengths
  ChunkMax,   \* Config::HTTP_CHUNK_MAX, in record lengths
  FileMax,    \* SdBackup::MAX_BACKUP_FILE_SIZE, in record lengths
  Faults      \* which faults the environment may inject

FaultKinds ==
  { "append",    \* open, seek, write or sync of an append fails
    "torn",      \* ... after part of the line reached the card
    "read",      \* f_open or the first f_gets of a chunk read fails
    "short",     \* ... a later f_gets, between two lines
    "cut",       \* ... or inside a line: the chunk ends in a piece of it
    "copy",      \* the copy of the tail into the .tmp file fails
    "close",     \* ... at its f_close, whose result nobody looks at
    "unlink",    \* f_unlink of the old file fails
    "rename",    \* f_rename fails after the old file is gone
    "mount",     \* f_mount fails for 5 s
    "crash",     \* watchdog reset or loss of power
    "window",    \* ... between f_unlink and f_rename
    "lostAck",   \* the server took a chunk, the answer was lost
    "hollow" }   \* a channel reports success without sending the chunk

Files == 0..Channels

ASSUME ChannelsAssumption == Channels \in Nat \ {0}

\* config.hpp:182-183, 240 and 1800 bytes: a chunk holds several longest lines.
ASSUME SizesAssumption ==
  /\ LineMax \in Nat \ {0}
  /\ ChunkMax \in Nat
  /\ FileMax \in Nat \ {0}
  /\ ChunkMax >= 3 * LineMax

ASSUME FaultsAssumption == Faults \subseteq FaultKinds

Kinds == {"object", "array", "torn", "garbled"}
Line == [ids : SUBSET Nat, len : Nat, kind : Kinds]

VARIABLES
  content,    \* content[f]: the lines of file f (<<>> when it does not exist)
  present,    \* the files that exist
  staged,     \* staged[f]: the lines of the .tmp file of f
  mounted,    \* SdBackup::m_mounted
  broken,     \* SdBackup::m_broken
  filename,   \* SdBackup::m_filename: the file the next operation works on
  damage      \* history: the damaging events so far

sdVars == <<content, present, staged, mounted, broken, filename, damage>>

-----------------------------------------------------------------------------
(* Lines and chunks *)

Record(id) == [ids |-> {id}, len |-> 1, kind |-> "object"]
Foreign    == [ids |-> {},   len |-> 1, kind |-> "object"]
TornPiece  == [ids |-> {},   len |-> 1, kind |-> "torn"]

\* The length of the first k lines of s.
Size(s, k) ==
  LET sum[i \in 0..Len(s)] == IF i = 0 THEN 0 ELSE sum[i - 1] + s[i].len
  IN  sum[k]

\* The measurements carried by the first k lines of s.
IdsUpTo(s, k) == UNION { s[i].ids : i \in 1..k }
Ids(s) == IdsUpTo(s, Len(s))

\* The first n lines of s fit in a chunk.  One line always does: f_gets reads
\* no more than LineMax characters of a garbled one.
Fits(s, n) == n <= 1 \/ Size(s, n) <= ChunkMax

\* The first n lines of s are what readChunkAsJsonArray collects when f_gets
\* does not fail on the way.
IsChunk(s, n) ==
  /\ n \in 1..Len(s)
  /\ Fits(s, n)
  /\ n < Len(s) => Size(s, n + 1) > ChunkMax

\* How a chunk ends: after an end of line, before that of its last line, or
\* inside the line that follows its whole lines.
Ends == {"line", "text", "cut"}

\* The JSON array built from the first n lines of s, as one line.  With a piece
\* of a line at its end it is no JSON, and nothing can be read from it.
ChunkLine(s, n, end) ==
  IF end = "cut"
  THEN [ids |-> {}, len |-> Size(s, n) + 1, kind |-> "garbled"]
  ELSE [ids |-> IdsUpTo(s, n), len |-> Size(s, n), kind |-> "array"]

\* The rest of a line whose beginning is gone.
RestOf(line) ==
  [line EXCEPT !.ids = {}, !.kind = IF @ = "torn" THEN "torn" ELSE "garbled"]

\* What is left of s once a chunk of n lines is dropped.
Remainder(s, n, end) ==
  LET t == SubSeq(s, n + 1, Len(s))
  IN  IF end = "cut" THEN [t EXCEPT ![1] = RestOf(@)] ELSE t

EndsTorn(s) == s # <<>> /\ s[Len(s)].kind = "torn"

\* Mutant: no f_lseek to the end, the line lands on the first one.
WriteAtStart(s, line) == IF s = <<>> THEN <<line>> ELSE <<line>> \o Tail(s)

\* f_write at the end of the file: after a torn piece the bytes run into it.
Write(s, line) ==
  IF EndsTorn(s)
  THEN [s EXCEPT ![Len(s)] =
          [ids |-> {}, len |-> @.len + line.len,
           kind |-> IF line.kind = "torn" THEN "torn" ELSE "garbled"]]
  ELSE Append(s, line)

-----------------------------------------------------------------------------
(* Append *)

Oversized(f) == Size(content[f], Len(content[f])) >= FileMax

\* checkAndRotateFile: a file that reached the limit is truncated to nothing.
Rotated(f) == IF Oversized(f) THEN <<>> ELSE content[f]
RotationDamage(f) == IF Oversized(f) THEN {"rotate"} ELSE {}

\* Mutant: no limit on the length of a line.
AppendAnyLine(f, line) ==
  /\ mounted
  /\ content' = [content EXCEPT ![f] = Write(Rotated(f), line)]
  /\ present' = present \union {f}
  /\ damage' = damage \union RotationDamage(f)
  /\ UNCHANGED <<staged, mounted, broken>>

\* appendLine, when it returns true.
AppendLine(f, line) ==
  /\ mounted
  /\ line.len \in 1..LineMax
  /\ content' = [content EXCEPT ![f] = Write(Rotated(f), line)]
  /\ present' = present \union {f}
  /\ damage' = damage \union RotationDamage(f)
  /\ UNCHANGED <<staged, mounted, broken>>

\* Returns false at once: not mounted, or a line of an impossible length.
AppendRejected(line) ==
  /\ ~mounted \/ line.len \notin 1..LineMax
  /\ UNCHANGED <<content, present, staged, mounted, broken, damage>>

\* Returns false with no byte of the line written: no free space or no open,
\* or, once the file is open, created and rotated, a failing seek or write.
AppendAborted(f, line) ==
  /\ "append" \in Faults
  /\ mounted
  /\ line.len \in 1..LineMax
  /\ \/ UNCHANGED <<content, present, damage>>
     \/ /\ content' = [content EXCEPT ![f] = Rotated(f)]
        /\ present' = present \union {f}
        /\ damage' = damage \union RotationDamage(f)
  /\ UNCHANGED <<staged, mounted, broken>>

\* Returns false with a piece of the line on the card and no end of line.
AppendTorn(f, line) ==
  /\ "torn" \in Faults
  /\ mounted
  /\ line.len \in 1..LineMax
  /\ content' = [content EXCEPT ![f] = Write(Rotated(f), TornPiece)]
  /\ present' = present \union {f}
  /\ damage' = damage \union RotationDamage(f) \union {"torn"}
  /\ UNCHANGED <<staged, mounted, broken>>

AppendFails(f, line) ==
  \/ AppendRejected(line)
  \/ AppendAborted(f, line)
  \/ AppendTorn(f, line)

-----------------------------------------------------------------------------
(* Consume: drop a chunk from its file, in the steps a reset can cut       *)

Exists(f) == mounted /\ f \in present

UnlinkAll(f) ==
  /\ content' = [content EXCEPT ![f] = <<>>]
  /\ present' = present \ {f}
  /\ UNCHANGED <<staged, mounted, broken, damage>>

\* Mutant: the copy starts one line too late.
CopyLess(f, n, end) ==
  /\ staged' = [staged EXCEPT ![f] = Remainder(content[f], n + 1, "line")]
  /\ UNCHANGED <<content, present, mounted, broken, damage>>

CopyTail(f, n, end) ==
  /\ staged' = [staged EXCEPT ![f] = Remainder(content[f], n, end)]
  /\ UNCHANGED <<content, present, mounted, broken, damage>>

\* The length of the copy never reached the card: the .tmp file is empty.
CopyUnclosed(f) ==
  /\ "close" \in Faults
  /\ staged' = [staged EXCEPT ![f] = <<>>]
  /\ damage' = damage \union {"close"}
  /\ UNCHANGED <<content, present, mounted, broken>>

RenameTmp(f) ==
  /\ content' = [content EXCEPT ![f] = staged[f]]
  /\ present' = present \union {f}
  /\ staged' = [staged EXCEPT ![f] = <<>>]
  /\ UNCHANGED <<mounted, broken, damage>>

\* The rename fails and the copy is removed: nothing of the file is left.
RenameFails(f) ==
  /\ "rename" \in Faults
  /\ staged' = [staged EXCEPT ![f] = <<>>]
  /\ damage' = damage \union {"rename"}
  /\ UNCHANGED <<content, present, mounted, broken>>

\* The old file could not be removed, so the rename fails too (FR_EXIST) and
\* the copy is removed: the file is as it was.
UnlinkFails(f) ==
  /\ "unlink" \in Faults
  /\ staged' = [staged EXCEPT ![f] = <<>>]
  /\ UNCHANGED <<content, present, mounted, broken, damage>>

-----------------------------------------------------------------------------
(* Mounting *)

\* SdBackup::init: a card that failed to mount once is never tried again.
Mount ==
  /\ \/ ~broken /\ mounted' = TRUE /\ UNCHANGED broken
     \/ broken /\ mounted' = FALSE /\ UNCHANGED broken
     \/ "mount" \in Faults /\ ~broken /\ mounted' = FALSE /\ broken' = TRUE
  /\ UNCHANGED <<content, present, staged, damage>>

SdInit ==
  /\ content = [f \in Files |-> <<>>]
  /\ present = {}
  /\ staged = [f \in Files |-> <<>>]
  /\ mounted = FALSE
  /\ broken = FALSE
  /\ filename = 0
  /\ damage = {}

SdTypeOK ==
  /\ content \in [Files -> Seq(Line)]
  /\ present \subseteq Files
  /\ staged \in [Files -> Seq(Line)]
  /\ mounted \in BOOLEAN
  /\ broken \in BOOLEAN
  /\ filename \in Files
  /\ damage \subseteq FaultKinds \union {"rotate"}
=============================================================================
