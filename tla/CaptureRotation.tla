--------------------------- MODULE CaptureRotation ---------------------------
(***************************************************************************)
(* The capture of a terminal's output: capture_writer.go, which appends to *)
(* the live segment, rotates, compresses and prunes it under its mutex,    *)
(* the runner's close of it, and the readers of internal/capture, which    *)
(* share only the file system with it.                                     *)
(*                                                                         *)
(* A write is its number, so a file is the set of the writes it holds,     *)
(* whether it starts with an asciicast header, whether it ends in a line   *)
(* that was cut short, and the writes that were joined to such a line,     *)
(* which no decoder finds; a size is a count of writes.  Every file        *)
(* operation may fail, and the process may be killed between two of them.  *)
(***************************************************************************)
EXTENDS Integers, FiniteSets, FiniteSetsExt

CONSTANTS Readers,        \* processes that read the transcript
          Asciicast,      \* the format
          MaxBytes,       \* the size at which the live segment is rotated
          RetainSegments, RetainBytes, \* what prune leaves
          MaxWrites, MaxFails, MaxStarts, \* bounds of the model
          NoFile

ASSUME CaptureAssumption ==
    /\ Asciicast \in BOOLEAN
    /\ {MaxBytes, RetainSegments, RetainBytes} \subseteq Nat \ {0}
    /\ {MaxWrites, MaxFails, MaxStarts} \subseteq Nat

Seqs  == 0 .. MaxWrites
Files == [data : SUBSET (1 .. MaxWrites), lost : SUBSET (1 .. MaxWrites),
          torn : BOOLEAN, hdr : {"no", "yes", "failed"}]

ASSUME NoFileAssumption == NoFile \notin Files

VARIABLES live,     \* the file at the canonical path
          raw, gz,  \* the closed segments, as renamed and as compressed
          pc,       \* where the writer stands; it holds the mutex unless idle
          open,     \* whether it has a descriptor on the live segment
          nextSeq,
          drop,     \* the segments prune has still to remove
          sink,     \* whether the fan-out still writes to the capture
          closed,   \* whether the runner's Close has closed it
          starts, fails,
          reading   \* per reader: what it has listed and what it has read

fileVars    == <<live, raw, gz>>
writerVars  == <<pc, open, nextSeq, drop, sink, closed, starts, fails>>
captureVars == <<fileVars, writerVars, reading>>

\* History: the writes accepted, those pruned, those due next when a line was
\* cut short.
VARIABLES written, dropped, spoilt

histVars == <<written, dropped, spoilt>>
allVars  == <<captureVars, histVars>>

Live     == MaxWrites + 1 \* in a listing: the canonical path
NotReading == [at |-> "idle", todo |-> {}, out |-> {}, due |-> {}]

CaptureTypeOK ==
    /\ live \in Files \cup {NoFile}
    /\ raw \in [Seqs -> Files \cup {NoFile}] /\ gz \in [Seqs -> Files \cup {NoFile}]
    /\ pc \in {"down", "idle", "close", "rename", "compress", "unraw",
               "reopen", "restore", "list", "prune"}
    /\ open \in BOOLEAN /\ sink \in BOOLEAN /\ closed \in BOOLEAN
    /\ nextSeq \in Seqs /\ drop \subseteq Seqs
    /\ starts \in 0 .. MaxStarts /\ fails \in 0 .. MaxFails
    /\ reading \in [Readers -> [at : {"idle", "list", "read"},
                                todo : SUBSET (0 .. Live),
                                out : SUBSET (1 .. MaxWrites),
                                due : SUBSET (1 .. MaxWrites)]]
    /\ written \in 0 .. MaxWrites /\ dropped \subseteq 1 .. MaxWrites
    /\ spoilt \subseteq 1 .. MaxWrites + 1

CaptureInit ==
    /\ live = NoFile
    /\ raw = [s \in Seqs |-> NoFile] /\ gz = [s \in Seqs |-> NoFile]
    /\ pc = "down" /\ open = FALSE /\ nextSeq = 0 /\ drop = {}
    /\ sink = FALSE /\ closed = FALSE /\ starts = 0 /\ fails = 0
    /\ reading = [r \in Readers |-> NotReading]
    /\ written = 0 /\ dropped = {} /\ spoilt = {}

-----------------------------------------------------------------------------
(***************************************************************************)
(* internal/capture: what is on disk.                                      *)
(***************************************************************************)
ClosedSegments == {s \in Seqs : raw[s] # NoFile \/ gz[s] # NoFile}

\* Of a segment with both files, the raw one is used.
Segment(s) == IF raw[s] # NoFile THEN raw[s] ELSE gz[s]

\* Mutant: every process starts at zero.
MutFirstSeq == 0

\* Mutant: the number of the last segment.
MutLastSeq == IF ClosedSegments = {} THEN 0 ELSE Max(ClosedSegments)

NextSeq == IF ClosedSegments = {} THEN 0 ELSE Max(ClosedSegments) + 1

Size(s) == Cardinality(Segment(s).data)
Total(S) == MapThenSumSet(Size, S)

\* The oldest segments, up to one that both bounds allow to stay.
ToDrop ==
    {s \in ClosedSegments :
        LET rest == {t \in ClosedSegments : t >= s}
        IN  Cardinality(rest) > RetainSegments \/ Total(rest) > RetainBytes}

Fail == fails < MaxFails /\ fails' = fails + 1

\* Mutant: the header is written at the start of the process only.
MutOnSegmentOpened(file) == file

Empty(file) == file.data = {} /\ ~file.torn

\* onSegmentOpened: an empty file gets its header.
OnSegmentOpened(file) ==
    IF Asciicast /\ Empty(file) THEN [file EXCEPT !.hdr = "yes"] ELSE file

\* OpenFile with O_CREATE and O_APPEND.
NewFile == [data |-> {}, lost |-> {}, torn |-> FALSE, hdr |-> "no"]
Opened  == IF live = NoFile THEN NewFile ELSE live

\* A write that fails may leave a part of its line.
Spoils(file) == spoilt' = IF file.torn THEN spoilt \cup {written + 1} ELSE spoilt

HeaderFails ==
    /\ Asciicast /\ Empty(Opened) /\ Fail
    /\ \E cut \in BOOLEAN : live' = [Opened EXCEPT !.hdr = "failed", !.torn = cut]
    /\ Spoils(live')

LineFails ==
    /\ \E cut \in {live.torn, Asciicast} : live' = [live EXCEPT !.torn = cut]
    /\ Spoils(live')

-----------------------------------------------------------------------------
(***************************************************************************)
(* The writer.                                                             *)
(***************************************************************************)
\* newCaptureWriter, by a process that starts with this capture file.
Start ==
    /\ pc = "down" /\ starts < MaxStarts /\ starts' = starts + 1
    /\ pc' = "idle" /\ open' = TRUE /\ sink' = TRUE /\ closed' = FALSE
    /\ nextSeq' = NextSeq
    /\ live' = OnSegmentOpened(Opened)
    /\ UNCHANGED <<raw, gz, drop, fails, reading, histVars>>

\* Without a header the terminal does not start.
StartFails ==
    /\ pc = "down" /\ starts < MaxStarts /\ starts' = starts + 1
    /\ HeaderFails
    /\ UNCHANGED <<raw, gz, pc, open, nextSeq, drop, sink, closed, reading,
                   written, dropped>>

\* Write by the PTY reader; a write is never split, but it is joined to a line
\* that was cut short, and the decoder skips both.
Write ==
    /\ pc = "idle" /\ sink /\ open /\ written < MaxWrites
    /\ written' = written + 1
    /\ live' = [live EXCEPT !.data = @ \cup {written + 1}, !.torn = FALSE,
                            !.lost = IF live.torn THEN @ \cup {written + 1} ELSE @]
    /\ pc' = IF Cardinality(live'.data) >= MaxBytes THEN "close" ELSE "idle"
    /\ UNCHANGED <<raw, gz, open, nextSeq, drop, sink, closed, starts, fails,
                   reading, dropped, spoilt>>

\* A failed write, or one after the descriptor is gone: the fan-out drops the
\* capture.
WriteFails ==
    /\ pc = "idle" /\ sink /\ sink' = FALSE
    /\ \/ open /\ Fail /\ LineFails
       \/ ~open /\ UNCHANGED <<fails, live, spoilt>>
    /\ UNCHANGED <<raw, gz, pc, open, nextSeq, drop, closed, starts, reading,
                   written, dropped>>

\* rotate.
CloseLive ==
    /\ pc = "close" /\ open' = FALSE
    /\ \/ pc' = "rename" /\ UNCHANGED fails
       \/ pc' = "restore" /\ Fail
    /\ UNCHANGED <<fileVars, nextSeq, drop, sink, closed, starts, reading, histVars>>

Rename ==
    /\ pc = "rename"
    /\ \/ /\ pc' = "compress" /\ live' = NoFile
          /\ raw' = [raw EXCEPT ![nextSeq] = live]
          /\ nextSeq' = nextSeq + 1 /\ UNCHANGED fails
       \/ pc' = "restore" /\ Fail /\ UNCHANGED <<live, raw, nextSeq>>
    /\ UNCHANGED <<gz, open, drop, sink, closed, starts, reading, histVars>>

\* CompressSegment: the compressed file appears by a rename, then the raw one
\* is removed.
Compress ==
    /\ pc = "compress"
    /\ \/ /\ pc' = "unraw" /\ gz' = [gz EXCEPT ![nextSeq - 1] = raw[nextSeq - 1]]
          /\ UNCHANGED fails
       \/ pc' = "reopen" /\ Fail /\ UNCHANGED gz
    /\ UNCHANGED <<live, raw, open, nextSeq, drop, sink, closed, starts, reading,
                   histVars>>

RemoveRaw ==
    /\ pc = "unraw" /\ pc' = "reopen"
    /\ \/ raw' = [raw EXCEPT ![nextSeq - 1] = NoFile] /\ UNCHANGED fails
       \/ Fail /\ UNCHANGED raw
    /\ UNCHANGED <<live, gz, open, nextSeq, drop, sink, closed, starts, reading,
                   histVars>>

\* reopenCanonical, after a rotation or to restore the live segment: a failed
\* open leaves no descriptor, a failed header only no header.
Reopen ==
    /\ pc \in {"reopen", "restore"}
    /\ \/ /\ pc' = IF pc = "reopen" THEN "list" ELSE "idle"
          /\ open' = TRUE
          /\ \/ live' = OnSegmentOpened(Opened) /\ UNCHANGED <<fails, spoilt>>
             \/ HeaderFails
       \/ pc' = "idle" /\ Fail /\ UNCHANGED <<open, live, spoilt>>
    /\ UNCHANGED <<raw, gz, nextSeq, drop, sink, closed, starts, reading, written,
                   dropped>>

\* prune.
ListDrop ==
    /\ pc = "list" /\ pc' = "prune" /\ drop' = ToDrop
    /\ UNCHANGED <<fileVars, open, nextSeq, sink, closed, starts, fails, reading,
                   histVars>>

\* dropOldest: a file that cannot be removed is passed over.
DropOldest ==
    /\ pc = "prune" /\ drop # {}
    /\ LET s == Min(drop) IN
       /\ drop' = drop \ {s}
       /\ \/ /\ dropped' = dropped \cup Segment(s).data /\ UNCHANGED fails
             /\ \/ raw[s] # NoFile /\ raw' = [raw EXCEPT ![s] = NoFile] /\ UNCHANGED gz
                \/ raw[s] = NoFile /\ gz' = [gz EXCEPT ![s] = NoFile] /\ UNCHANGED raw
          \/ Fail /\ UNCHANGED <<raw, gz, dropped>>
    /\ UNCHANGED <<live, pc, open, nextSeq, sink, closed, starts, reading, written,
                   spoilt>>

EndPrune ==
    /\ pc = "prune" /\ drop = {} /\ pc' = "idle"
    /\ UNCHANGED <<fileVars, open, nextSeq, drop, sink, closed, starts, fails,
                   reading, histVars>>

\* Mutant: the close does not wait for the mutex.
MutMutexFree == pc # "down"

MutexFree == pc = "idle"

\* The runner's Close, while the PTY reader may still write.
CloseCapture ==
    /\ MutexFree /\ ~closed /\ closed' = TRUE /\ open' = FALSE
    /\ UNCHANGED <<fileVars, pc, nextSeq, drop, sink, starts, fails, reading,
                   histVars>>

\* The process ends, after its Close or killed anywhere, also in a write.
End ==
    /\ pc # "down" /\ pc' = "down"
    /\ open' = FALSE /\ sink' = FALSE /\ drop' = {}
    /\ \/ UNCHANGED <<live, spoilt>>
       \/ pc = "idle" /\ sink /\ open /\ LineFails
    /\ UNCHANGED <<raw, gz, nextSeq, closed, starts, fails, reading, written, dropped>>

Writer == \/ Start \/ StartFails \/ Write \/ WriteFails \/ CloseLive \/ Rename \/ Compress
          \/ RemoveRaw \/ Reopen \/ ListDrop \/ DropOldest \/ EndPrune
          \/ CloseCapture \/ End

-----------------------------------------------------------------------------
(***************************************************************************)
(* A reader: sb read, and an attach with the full capture.                 *)
(***************************************************************************)
\* OrderedPaths: the directory is read, then the canonical path is looked up.
ListSegments(r) ==
    /\ reading[r].at = "idle" /\ reading[r].out = {}
    /\ reading' = [reading EXCEPT ![r] =
                      [at |-> "list", todo |-> ClosedSegments, out |-> {},
                       due |-> 1 .. written]]
    /\ UNCHANGED <<fileVars, writerVars, histVars>>

LookUpLive(r) ==
    /\ reading[r].at = "list"
    /\ reading' = [reading EXCEPT
                      ![r].at = "read",
                      ![r].todo = IF live = NoFile THEN @ ELSE @ \cup {Live}]
    /\ UNCHANGED <<fileVars, writerVars, histVars>>

\* What openSegment finds under a listed name; a missing file is skipped.
Readable(file) == IF file = NoFile THEN {} ELSE file.data \ file.lost

Found(p) == IF p = Live THEN Readable(live)
            ELSE IF p \in ClosedSegments THEN Readable(Segment(p)) ELSE {}

\* Mutant: the live segment is read first.
MutNextPath(r) == Max(reading[r].todo)

NextPath(r) == Min(reading[r].todo)

ReadSegment(r) ==
    /\ reading[r].at = "read" /\ reading[r].todo # {}
    /\ reading' = [reading EXCEPT
                      ![r].todo = @ \ {NextPath(r)},
                      ![r].out = @ \cup Found(NextPath(r))]
    /\ UNCHANGED <<fileVars, writerVars, histVars>>

Reader(r) == ListSegments(r) \/ LookUpLive(r) \/ ReadSegment(r)

CaptureNext == Writer \/ \E r \in Readers : Reader(r)

CaptureSpec == CaptureInit /\ [][CaptureNext]_allVars

-----------------------------------------------------------------------------
DataOf(p) == IF p = Live THEN (IF live = NoFile THEN {} ELSE live.data)
             ELSE Segment(p).data

\* The segments in their order, then the live one, hold the writes in theirs,
\* whatever failed, was killed and was started again before.
TranscriptInOrder ==
    \A p, q \in ClosedSegments \cup {Live} :
        p < q => \A v \in DataOf(p), w \in DataOf(q) : v < w

\* A write that was accepted can be read until prune removes it, unless it is
\* the first after a line that a failed or killed write has cut short.
NothingLost ==
    1 .. written \ spoilt \subseteq
        dropped \cup UNION {Found(p) : p \in ClosedSegments \cup {Live}}

\* After the runner's Close there is no descriptor on the capture, though a
\* rotation may have been under way.
ClosedStaysClosed == closed /\ pc # "down" => ~open

\* Every segment with output starts with a header, also the one that is oldest
\* after a prune, unless the write of the header failed.
SelfDescribing ==
    Asciicast => \A p \in ClosedSegments : Segment(p).hdr # "no"

\* A reader's output is in order, while segments rotate, are compressed and
\* are removed under it.
ReadInOrder ==
    [][\A r \in Readers :
          \A v \in reading[r].out, w \in reading'[r].out \ reading[r].out : v < w]_allVars

\* A reader misses nothing that was accepted before it began, unless it was
\* pruned.
ReadIsComplete ==
    \A r \in Readers :
        (reading[r].at = "read" /\ reading[r].todo = {})
            => reading[r].due \subseteq reading[r].out \cup dropped
=============================================================================
