------------------------ MODULE CaptureRotationProofs ------------------------
(***************************************************************************)
(* Proofs about the capture: its segments and its live file hold what was  *)
(* written, in order, whatever fails and wherever the process is killed.   *)
(***************************************************************************)
EXTENDS CaptureRotation, FiniteSetTheorems, WellFoundedInduction, TLAPS

LiveData == IF live = NoFile THEN {} ELSE live.data

\* How many writes may have gone into closed segments.
Room == IF LiveData = {} THEN written ELSE written - 1

Typed ==
  /\ live \in Files \cup {NoFile}
  /\ raw \in [Seqs -> Files \cup {NoFile}] /\ gz \in [Seqs -> Files \cup {NoFile}]
  /\ nextSeq \in Nat /\ written \in 0 .. MaxWrites

\* What holds where the writer stands.
Placed ==
  /\ (open => live # NoFile) /\ (pc = "rename" => ~open)
  /\ pc \in {"close", "rename"} => live # NoFile /\ live.data # {}
  /\ closed /\ pc # "down" => pc = "idle" /\ ~open
  /\ pc \in {"compress", "unraw"} =>
        nextSeq # 0 /\ nextSeq - 1 \in Seqs /\ raw[nextSeq - 1] # NoFile
  /\ pc = "unraw" => gz[nextSeq - 1] = raw[nextSeq - 1]

\* A segment that is there twice is there twice the same.
Twins == \A s \in Seqs : raw[s] # NoFile /\ gz[s] # NoFile => raw[s] = gz[s]

\* A number is never given twice, and numbers do not run out.
Numbered ==
  /\ \A s \in ClosedSegments : s < Room
  /\ pc # "down" => nextSeq <= Room /\ \A s \in ClosedSegments : s < nextSeq

\* The contents: the writes accepted, all of them, in order.
Kept ==
  /\ dropped \subseteq 1 .. written
  /\ \A s \in ClosedSegments : Segment(s).data \subseteq 1 .. written
  /\ LiveData \subseteq 1 .. written
  /\ \A p, q \in ClosedSegments :
        p < q => \A v \in Segment(p).data, w \in Segment(q).data : v < w
  /\ \A p \in ClosedSegments : \A v \in Segment(p).data, w \in LiveData : v < w
  /\ \A w \in 1 .. written :
        \/ w \in dropped \/ w \in LiveData
        \/ \E p \in ClosedSegments : w \in Segment(p).data

CaptureInv ==
  /\ Typed /\ Placed /\ Twins /\ Numbered
  /\ drop \subseteq ClosedSegments
  /\ Kept

\* What a step may do to the contents: a closed segment is what it was or the
\* live file of before, the live file gets at most the next write.
Moved ==
  /\ \A s \in ClosedSegments' :
        \/ s \in ClosedSegments /\ Segment(s)' = Segment(s)
        \/ Segment(s)'.data = LiveData
  /\ LiveData' \subseteq LiveData \cup {written + 1}

-----------------------------------------------------------------------------
\* Max and Min are what they are called, on bounded sets of numbers.
LEMMA MinIsLeast ==
  ASSUME NEW S \in SUBSET Nat, S # {}
  PROVE  Min(S) \in S /\ \A y \in S : Min(S) <= y
<1>1. PICK x \in S : \A y \in S : ~(<<y, x>> \in OpToRel(<, Nat))
  BY NatLessThanWellFounded, WFMin
<1>2. ASSUME NEW y \in S
      PROVE  x <= y
  <2>1. ASSUME y < x
        PROVE  <<y, x>> \in OpToRel(<, Nat)
    BY <2>1, Zenon DEF OpToRel
  <2>2. ~(y < x)
    BY <1>1, <2>1, Zenon
  <2> QED
    BY <2>2
<1> QED
  BY <1>2 DEF Min

LEMMA MaxIsGreatest ==
  ASSUME NEW n \in Nat, NEW S \in SUBSET (0 .. n), S # {}
  PROVE  Max(S) \in S /\ \A y \in S : y <= Max(S)
<1> DEFINE T == {n - s : s \in S}
<1>1. T \in SUBSET Nat /\ T # {}
  <2>1. PICK s \in S : TRUE
    OBVIOUS
  <2>2. n - s \in T
    OBVIOUS
  <2>3. ASSUME NEW t \in S
        PROVE  n - t \in Nat
    OBVIOUS
  <2> QED
    BY <2>2, <2>3
<1>2. PICK x \in T : \A y \in T : x <= y
  BY <1>1, MinIsLeast
<1>3. PICK m \in S : x = n - m
  BY <1>2
<1>4. \A y \in S : y <= m
  BY <1>2, <1>3
<1> QED
  BY <1>4 DEF Max

-----------------------------------------------------------------------------
\* A line cut short, or a header, changes nothing else of a file.
LEMMA MarkedFile ==
  ASSUME NEW f \in Files, NEW h \in {"yes", "failed"}, NEW cut \in BOOLEAN
  PROVE  /\ [f EXCEPT !.hdr = h] \in Files
         /\ [f EXCEPT !.hdr = h].data = f.data /\ [f EXCEPT !.hdr = h].hdr = h
         /\ [f EXCEPT !.hdr = h].lost = f.lost /\ [f EXCEPT !.hdr = h].torn = f.torn
         /\ [f EXCEPT !.torn = cut] \in Files
         /\ [f EXCEPT !.torn = cut].data = f.data
         /\ [f EXCEPT !.torn = cut].hdr = f.hdr
         /\ [f EXCEPT !.torn = cut].lost = f.lost
         /\ [f EXCEPT !.hdr = h, !.torn = cut] \in Files
         /\ [f EXCEPT !.hdr = h, !.torn = cut].data = f.data
         /\ [f EXCEPT !.hdr = h, !.torn = cut].hdr = h
         /\ [f EXCEPT !.hdr = h, !.torn = cut].lost = f.lost
BY DEF Files

\* A file with one write more.
LEMMA WrittenFile ==
  ASSUME NEW f \in Files, NEW n \in 1 .. MaxWrites,
         NEW lost \in SUBSET (1 .. MaxWrites), NEW g,
         g = [f EXCEPT !.data = f.data \cup {n}, !.torn = FALSE, !.lost = lost]
  PROVE  g \in Files /\ g.data = f.data \cup {n}
BY DEF Files

\* A file that is opened, with or without its header, has what it had.
LEMMA OpenedKeeps ==
  ASSUME Typed
  PROVE  /\ Opened \in Files /\ Opened.data = LiveData
         /\ OnSegmentOpened(Opened) \in Files
         /\ OnSegmentOpened(Opened).data = LiveData
         /\ OnSegmentOpened(Opened).lost = Opened.lost
         /\ OnSegmentOpened(Opened).torn = Opened.torn
<1>1. Opened \in Files /\ Opened.data = LiveData
  <2>1. NewFile \in Files /\ NewFile.data = {}
    BY DEF NewFile, Files
  <2> QED
    BY <2>1 DEF Typed, Opened, LiveData
<1> QED
  BY <1>1, MarkedFile DEF OnSegmentOpened

\* The same of a header or a line that fails.
LEMMA FailedKeeps ==
  ASSUME Typed
  PROVE  /\ HeaderFails => live' \in Files /\ LiveData' = LiveData
         /\ live # NoFile /\ LineFails => live' \in Files /\ LiveData' = LiveData
<1>1. ASSUME HeaderFails
      PROVE  live' \in Files /\ LiveData' = LiveData
  <2>1. PICK cut \in BOOLEAN : live' = [Opened EXCEPT !.hdr = "failed", !.torn = cut]
    BY <1>1 DEF HeaderFails
  <2>2. PICK f \in Files : f = Opened /\ f.data = LiveData
    BY OpenedKeeps
  <2>3. live' = [f EXCEPT !.hdr = "failed", !.torn = cut]
    BY <2>1, <2>2
  <2>4. live' \in Files
    BY <2>3, MarkedFile
  <2>5. live'.data = LiveData
    BY <2>2, <2>3, MarkedFile
  <2> QED
    BY <2>4, <2>5, NoFileAssumption DEF LiveData
<1>2. ASSUME live # NoFile, LineFails
      PROVE  live' \in Files /\ LiveData' = LiveData
  <2>1. live \in Files /\ live.torn \in BOOLEAN /\ Asciicast \in BOOLEAN
    BY <1>2, CaptureAssumption DEF Typed, Files
  <2>2. PICK cut \in BOOLEAN : live' = [live EXCEPT !.torn = cut]
    BY <1>2, <2>1 DEF LineFails
  <2>3. live' \in Files /\ live'.data = live.data
    BY <2>1, <2>2, MarkedFile
  <2> QED
    BY <1>2, <2>3, NoFileAssumption DEF LiveData
<1> QED
  BY <1>1, <1>2

\* A step that leaves every segment it does not remove as it was, and counts
\* what it removes, keeps the contents.
LEMMA QuietKeeps ==
  ASSUME Kept, UNCHANGED written, LiveData' = LiveData,
         ClosedSegments' \subseteq ClosedSegments,
         \A s \in ClosedSegments' : Segment(s)' = Segment(s),
         dropped \subseteq dropped', dropped' \subseteq 1 .. written,
         \A s \in ClosedSegments \ ClosedSegments' :
            Segment(s).data \subseteq dropped'
  PROVE  Kept'
BY DEF Kept

\* The same for the numbers, if the writer's next one stays.
LEMMA QuietNumbers ==
  ASSUME Numbered, UNCHANGED <<written, nextSeq>>, LiveData' = LiveData,
         ClosedSegments' \subseteq ClosedSegments,
         pc' # "down" => pc # "down"
  PROVE  Numbered'
BY DEF Numbered, Room

\* A step that moves the writer only.
LEMMA ControlKeeps ==
  ASSUME CaptureInv, UNCHANGED <<raw, gz, nextSeq, written, dropped>>,
         live' \in Files \cup {NoFile}, LiveData' = LiveData,
         drop' \subseteq ClosedSegments, pc' # "down" => pc # "down", Placed'
  PROVE  CaptureInv' /\ Moved
<1>1. UNCHANGED ClosedSegments /\ \A s \in ClosedSegments : Segment(s)' = Segment(s)
  BY DEF ClosedSegments, Segment
<1>2. Kept'
  BY <1>1, QuietKeeps DEF CaptureInv, Kept
<1>3. Numbered'
  BY <1>1, QuietNumbers DEF CaptureInv
<1> QED
  BY <1>1, <1>2, <1>3 DEF CaptureInv, Typed, Twins, Moved

\* Start: the number after the last segment, a header if there is no output.
LEMMA StartKeeps ==
  ASSUME CaptureInv, Start
  PROVE  CaptureInv' /\ Moved
<1> USE DEF Start, histVars
<1>1. live' \in Files /\ LiveData' = LiveData
  BY OpenedKeeps, NoFileAssumption DEF CaptureInv, LiveData
<1>2. UNCHANGED <<raw, gz, drop, written, dropped>>
  OBVIOUS
<1>3. UNCHANGED ClosedSegments /\ \A s \in ClosedSegments : Segment(s)' = Segment(s)
  BY <1>2 DEF ClosedSegments, Segment
<1>4. nextSeq' \in Nat /\ nextSeq' <= Room /\ \A s \in ClosedSegments : s < nextSeq'
  <2>1. Room \in Nat
    BY CaptureAssumption DEF CaptureInv, Typed, Room, Kept
  <2>2. CASE ClosedSegments = {}
    BY <2>1, <2>2 DEF NextSeq
  <2>3. CASE ClosedSegments # {}
    <3>1. ClosedSegments \in SUBSET (0 .. MaxWrites)
      BY DEF ClosedSegments, Seqs
    <3>2. PICK m \in ClosedSegments :
             nextSeq' = m + 1 /\ \A s \in ClosedSegments : s <= m
      BY <2>3, <3>1, MaxIsGreatest, CaptureAssumption DEF NextSeq
    <3>3. m \in Nat /\ m < Room /\ \A s \in ClosedSegments : s \in Nat
      BY <3>1 DEF CaptureInv, Numbered
    <3> QED
      BY <2>1, <3>2, <3>3
  <2> QED
    BY <2>2, <2>3
<1>5. Typed'
  BY <1>1, <1>2, <1>4 DEF CaptureInv, Typed
<1>6. Placed' /\ Twins'
  BY <1>1, <1>2, NoFileAssumption DEF CaptureInv, Placed, Twins
<1>7. Numbered'
  BY <1>1, <1>2, <1>3, <1>4 DEF CaptureInv, Numbered, Room
<1>8. Kept'
  BY <1>1, <1>2, <1>3, QuietKeeps DEF CaptureInv, Kept
<1> QED
  BY <1>1, <1>2, <1>3, <1>5, <1>6, <1>7, <1>8 DEF CaptureInv, Moved

\* Write: the number is above all others.
LEMMA WriteKeeps ==
  ASSUME CaptureInv, Write
  PROVE  CaptureInv' /\ Moved
<1> USE DEF Write
<1>1. /\ live \in Files /\ LiveData = live.data /\ written \in Nat
      /\ written' = written + 1 /\ written' \in 0 .. MaxWrites
  BY CaptureAssumption DEF CaptureInv, Placed, Typed, LiveData
<1>2. live' \in Files /\ live'.data = live.data \cup {written + 1}
  <2>1. written + 1 \in 1 .. MaxWrites
    BY <1>1
  <2>2. PICK lost \in SUBSET (1 .. MaxWrites) :
           lost = IF live.torn THEN live.lost \cup {written + 1} ELSE live.lost
    BY <1>1, <2>1 DEF Files
  <2>3. live' = [live EXCEPT !.data = live.data \cup {written + 1},
                             !.torn = FALSE, !.lost = lost]
    BY <1>1, <2>2
  <2> QED
    BY <1>1, <2>1, <2>3, WrittenFile
<1>3. LiveData' = LiveData \cup {written + 1}
  BY <1>1, <1>2, NoFileAssumption DEF LiveData
<1>4. UNCHANGED <<raw, gz, drop, dropped, nextSeq, open, closed>>
  OBVIOUS
<1>5. UNCHANGED ClosedSegments /\ \A s \in ClosedSegments : Segment(s)' = Segment(s)
  BY <1>4 DEF ClosedSegments, Segment
<1>6. Typed'
  BY <1>1, <1>2, <1>4 DEF CaptureInv, Typed
<1>7. Placed' /\ Twins'
  BY <1>1, <1>2, <1>4, NoFileAssumption DEF CaptureInv, Placed, Twins
<1>8. Numbered'
  <2>1. Room' = written /\ Room <= written /\ Room \in Int
    BY <1>1, <1>3 DEF Room
  <2>2. ClosedSegments \subseteq Int /\ nextSeq \in Int
    BY DEF ClosedSegments, Seqs, CaptureInv, Typed
  <2> QED
    BY <1>1, <1>4, <1>5, <2>1, <2>2 DEF CaptureInv, Numbered
<1>9. Kept'
  <2>1. \A s \in ClosedSegments : Segment(s).data \subseteq 1 .. written
    BY DEF CaptureInv, Kept
  <2> QED
    BY <1>1, <1>3, <1>4, <1>5, <2>1 DEF CaptureInv, Kept
<1> QED
  BY <1>3, <1>4, <1>5, <1>6, <1>7, <1>8, <1>9 DEF CaptureInv, Moved

\* Rename: the live file becomes the last segment.
LEMMA RenameKeeps ==
  ASSUME CaptureInv, Rename
  PROVE  CaptureInv' /\ Moved
<1> USE DEF Rename, histVars
<1>1. CASE pc' = "compress"
  <2>1. /\ live \in Files /\ LiveData = live.data /\ live.data # {}
        /\ pc' = "compress" /\ live' = NoFile /\ LiveData' = {}
        /\ raw' = [raw EXCEPT ![nextSeq] = live] /\ nextSeq' = nextSeq + 1
        /\ UNCHANGED <<gz, open, drop, closed, written, dropped>>
    BY <1>1 DEF CaptureInv, Placed, Typed, LiveData
  <2>2. /\ nextSeq \in Seqs /\ nextSeq \notin ClosedSegments
        /\ nextSeq + 1 <= written /\ Room = written - 1
        /\ \A s \in ClosedSegments : s < nextSeq
    BY <2>1, CaptureAssumption
       DEF CaptureInv, Typed, Numbered, Room, Seqs, ClosedSegments
  <2>11. PICK n \in Seqs : n = nextSeq
    BY <2>2
  <2>3. /\ raw[n] = NoFile /\ gz[n] = NoFile /\ raw'[n] = live
        /\ \A s \in Seqs \ {n} : raw'[s] = raw[s]
    BY <2>1, <2>2, <2>11 DEF ClosedSegments, CaptureInv, Typed
  <2>4. live # NoFile
    BY <2>1, NoFileAssumption
  <2>5. /\ ClosedSegments' = ClosedSegments \cup {n}
        /\ Segment(n)' = live
        /\ \A s \in ClosedSegments : Segment(s)' = Segment(s)
    <3>1. \A s \in Seqs : s # n => raw'[s] = raw[s] /\ gz'[s] = gz[s]
      BY <2>1, <2>3
    <3>2. raw'[n] # NoFile
      BY <2>3, <2>4
    <3>3. ClosedSegments' = ClosedSegments \cup {n}
      BY <2>2, <2>11, <3>1, <3>2 DEF ClosedSegments
    <3>4. ASSUME NEW s \in ClosedSegments
          PROVE  Segment(s)' = Segment(s)
      BY <2>2, <2>11, <3>1 DEF ClosedSegments, Segment
    <3> QED
      BY <2>3, <3>2, <3>3, <3>4 DEF Segment
  <2>6. Typed'
    BY <2>1, <2>2 DEF CaptureInv, Typed
  <2>7. Placed'
    <3>1. nextSeq' # 0 /\ nextSeq' - 1 = n
      BY <2>1, <2>11 DEF CaptureInv, Typed
    <3>2. raw'[nextSeq' - 1] # NoFile /\ ~open'
      BY <2>1, <2>3, <2>4, <3>1 DEF CaptureInv, Placed
    <3> QED
      BY <2>1, <2>2, <3>1, <3>2 DEF CaptureInv, Placed
  <2>8. Twins'
    BY <2>1, <2>3 DEF CaptureInv, Twins
  <2>9. Numbered'
    <3>1. Room' = written
      BY <2>1 DEF Room
    <3>2. written \in Int /\ nextSeq \in Int /\ \A s \in ClosedSegments : s \in Int
      BY DEF CaptureInv, Typed, ClosedSegments, Seqs
    <3> QED
      BY <2>1, <2>2, <2>5, <2>11, <3>1, <3>2 DEF CaptureInv, Numbered
  <2>10. Kept'
    <3>1. Segment(n)'.data = LiveData
      BY <2>1, <2>5
    <3>2. nextSeq \in Int /\ \A s \in ClosedSegments : s \in Int
      BY DEF CaptureInv, Typed, ClosedSegments, Seqs
    <3> QED
      <4>1. /\ dropped' \subseteq 1 .. written' /\ LiveData' \subseteq 1 .. written'
            /\ \A s \in ClosedSegments' : Segment(s)'.data \subseteq 1 .. written'
        BY <2>1, <2>5, <3>1 DEF CaptureInv, Kept
      <4>2. ASSUME NEW p \in ClosedSegments', NEW q \in ClosedSegments', p < q
            PROVE  \A v \in Segment(p)'.data, w \in Segment(q)'.data : v < w
        <5>1. p # n
          BY <2>2, <2>5, <2>11, <3>2, <4>2
        <5>2. CASE q = n
          BY <2>5, <3>1, <5>1, <5>2 DEF CaptureInv, Kept
        <5>3. CASE q # n
          BY <2>5, <4>2, <5>1, <5>3 DEF CaptureInv, Kept
        <5> QED
          BY <5>2, <5>3
      <4>3. ASSUME NEW w \in 1 .. written'
            PROVE  \/ w \in dropped' \/ w \in LiveData'
                   \/ \E p \in ClosedSegments' : w \in Segment(p)'.data
        BY <2>1, <2>5, <3>1 DEF CaptureInv, Kept
      <4> QED
        BY <2>1, <4>1, <4>2, <4>3 DEF Kept
  <2> QED
    BY <2>1, <2>5, <2>6, <2>7, <2>8, <2>9, <2>10 DEF CaptureInv, Moved
<1>2. CASE pc' # "compress"
  <2>1. UNCHANGED <<fileVars, nextSeq, open, drop, closed, histVars>> /\ pc' = "restore"
    BY <1>2 DEF fileVars
  <2>2. Placed' /\ LiveData' = LiveData
    BY <2>1 DEF CaptureInv, Placed, LiveData, fileVars
  <2> QED
    BY <2>1, <2>2, ControlKeeps DEF CaptureInv, Typed, fileVars
<1> QED
  BY <1>1, <1>2

\* Compress: the compressed copy is the segment's.
LEMMA CompressKeeps ==
  ASSUME CaptureInv, Compress
  PROVE  CaptureInv' /\ Moved
<1> USE DEF Compress, histVars
<1> DEFINE s == nextSeq - 1
<1>1. /\ s \in Seqs /\ nextSeq # 0 /\ raw[s] # NoFile /\ pc' # "down" /\ pc # "down"
      /\ UNCHANGED <<live, raw, nextSeq, open, drop, closed, written, dropped>>
  BY DEF CaptureInv, Placed
<1>2. gz' = gz \/ (gz' = [gz EXCEPT ![s] = raw[s]])
  OBVIOUS
<1> HIDE DEF s
<1>3. Typed'
  BY <1>1, <1>2 DEF CaptureInv, Typed
<1>4. \A t \in Seqs : gz'[t] = gz[t] \/ (t = s /\ gz'[t] = raw[s])
  BY <1>1, <1>2 DEF CaptureInv, Typed
<1>5. /\ UNCHANGED ClosedSegments
      /\ \A t \in ClosedSegments : Segment(t)' = Segment(t)
  BY <1>1, <1>4 DEF ClosedSegments, Segment
<1>6. Twins'
  BY <1>1, <1>4 DEF CaptureInv, Twins
<1>7. Placed'
  <2>1. pc' = "unraw" => gz'[nextSeq - 1] = raw[nextSeq - 1]
    BY <1>1 DEF CaptureInv, Typed, s
  <2>2. pc' \in {"unraw", "reopen"}
    OBVIOUS
  <2> QED
    BY <1>1, <2>1, <2>2 DEF CaptureInv, Placed, s
<1>8. LiveData' = LiveData
  BY <1>1 DEF LiveData
<1>9. Kept'
  BY <1>1, <1>5, <1>8, QuietKeeps DEF CaptureInv, Kept
<1>10. Numbered'
  BY <1>1, <1>5, <1>8, QuietNumbers DEF CaptureInv
<1> QED
  BY <1>1, <1>3, <1>5, <1>6, <1>7, <1>8, <1>9, <1>10 DEF CaptureInv, Moved

\* RemoveRaw: the compressed copy stays.
LEMMA RemoveRawKeeps ==
  ASSUME CaptureInv, RemoveRaw
  PROVE  CaptureInv' /\ Moved
<1> USE DEF RemoveRaw, histVars
<1> DEFINE s == nextSeq - 1
<1>1. /\ s \in Seqs /\ raw[s] # NoFile /\ gz[s] = raw[s] /\ pc' = "reopen"
      /\ pc # "down"
      /\ UNCHANGED <<live, gz, nextSeq, open, drop, closed, written, dropped>>
  BY DEF CaptureInv, Placed
<1>2. raw' = raw \/ (raw' = [raw EXCEPT ![s] = NoFile])
  OBVIOUS
<1> HIDE DEF s
<1>3. Typed'
  BY <1>1, <1>2 DEF CaptureInv, Typed
<1>4. \A t \in Seqs : raw'[t] = raw[t] \/ (t = s /\ raw'[t] = NoFile)
  BY <1>1, <1>2 DEF CaptureInv, Typed
<1>5. /\ UNCHANGED ClosedSegments
      /\ \A t \in ClosedSegments : Segment(t)' = Segment(t)
  BY <1>1, <1>4 DEF ClosedSegments, Segment
<1>6. Twins'
  BY <1>1, <1>4 DEF CaptureInv, Twins
<1>7. Placed'
  BY <1>1 DEF CaptureInv, Placed
<1>8. LiveData' = LiveData
  BY <1>1 DEF LiveData
<1>9. Kept'
  BY <1>1, <1>5, <1>8, QuietKeeps DEF CaptureInv, Kept
<1>10. Numbered'
  BY <1>1, <1>5, <1>8, QuietNumbers DEF CaptureInv
<1> QED
  BY <1>1, <1>3, <1>5, <1>6, <1>7, <1>8, <1>9, <1>10 DEF CaptureInv, Moved

\* DropOldest: what is removed is counted; of two copies the other stays.
LEMMA DropKeeps ==
  ASSUME CaptureInv, DropOldest
  PROVE  CaptureInv' /\ Moved
<1> USE DEF DropOldest
<1> DEFINE s == Min(drop)
<1>1. s \in drop /\ s \in ClosedSegments /\ s \in Seqs
  <2>1. drop \in SUBSET Nat /\ drop # {}
    BY CaptureAssumption DEF CaptureInv, ClosedSegments, Seqs
  <2> QED
    BY <2>1, MinIsLeast DEF CaptureInv, ClosedSegments
<1>2. /\ drop' = drop \ {s} /\ pc = "prune" /\ pc' = "prune"
      /\ UNCHANGED <<live, open, nextSeq, closed, written>>
  OBVIOUS
<1>3. \/ UNCHANGED <<raw, gz, dropped>>
      \/ /\ dropped' = dropped \cup Segment(s).data
         /\ \/ raw[s] # NoFile /\ raw' = [raw EXCEPT ![s] = NoFile] /\ UNCHANGED gz
            \/ raw[s] = NoFile /\ gz' = [gz EXCEPT ![s] = NoFile] /\ UNCHANGED raw
  OBVIOUS
<1> HIDE DEF s
<1>4. Typed'
  BY <1>2, <1>3 DEF CaptureInv, Typed
<1>5. \A t \in Seqs :
         /\ raw'[t] = raw[t] \/ (t = s /\ raw'[t] = NoFile /\ gz'[t] = gz[t])
         /\ gz'[t] = gz[t] \/ (t = s /\ gz'[t] = NoFile /\ raw[t] = NoFile)
  BY <1>1, <1>3 DEF CaptureInv, Typed
<1>6. /\ ClosedSegments' \subseteq ClosedSegments
      /\ ClosedSegments \ {s} \subseteq ClosedSegments'
      /\ \A t \in ClosedSegments' : Segment(t)' = Segment(t)
  BY <1>5 DEF ClosedSegments, Segment, CaptureInv, Twins
<1>7. Placed' /\ Twins' /\ LiveData' = LiveData
  BY <1>2, <1>5 DEF CaptureInv, Placed, Twins, LiveData
<1>8. Kept'
  <2>1. Segment(s).data \subseteq 1 .. written
    BY <1>1 DEF CaptureInv, Kept
  <2>2. CASE UNCHANGED <<raw, gz, dropped>>
    <3>1. UNCHANGED ClosedSegments
      BY <2>2 DEF ClosedSegments
    <3> QED
      BY <1>2, <1>6, <1>7, <2>2, <3>1, QuietKeeps DEF CaptureInv, Kept
  <2>3. CASE dropped' = dropped \cup Segment(s).data
    BY <1>2, <1>6, <1>7, <2>1, <2>3, QuietKeeps DEF CaptureInv, Kept
  <2> QED
    BY <1>3, <2>2, <2>3
<1>9. Numbered'
  BY <1>2, <1>6, <1>7, QuietNumbers DEF CaptureInv
<1>10. drop' \subseteq ClosedSegments'
  BY <1>2, <1>6 DEF CaptureInv
<1> QED
  BY <1>4, <1>6, <1>7, <1>8, <1>9, <1>10 DEF CaptureInv, Moved

\* The writer's other steps move nothing on disk but the live file's header.
LEMMA WriterControlKeeps ==
  ASSUME CaptureInv,
         \/ StartFails \/ WriteFails \/ CloseLive \/ Reopen \/ ListDrop \/ EndPrune
         \/ CloseCapture \/ End
  PROVE  CaptureInv' /\ Moved
<1> USE DEF histVars, fileVars
<1>1. CASE WriteFails
  <2>1. live' \in Files \cup {NoFile} /\ LiveData' = LiveData
        /\ (live # NoFile => live' # NoFile)
    <3>1. CASE UNCHANGED live
      BY <3>1 DEF CaptureInv, Typed, LiveData
    <3>2. CASE open /\ LineFails
      BY <3>2, FailedKeeps, NoFileAssumption DEF CaptureInv, Placed
    <3> QED
      BY <1>1, <3>1, <3>2 DEF WriteFails
  <2>2. pc = "idle" /\ UNCHANGED <<raw, gz, pc, open, nextSeq, closed>>
    BY <1>1 DEF WriteFails
  <2>3. Placed'
    BY <2>1, <2>2 DEF CaptureInv, Placed
  <2> QED
    BY <1>1, <2>1, <2>3, ControlKeeps DEF WriteFails, CaptureInv
<1>2. CASE CloseLive
  <2>1. Placed' /\ LiveData' = LiveData
    BY <1>2 DEF CloseLive, CaptureInv, Placed, LiveData
  <2> QED
    BY <1>2, <2>1, ControlKeeps DEF CloseLive, CaptureInv, Typed
<1>3. CASE Reopen
  <2>1. live' \in Files \cup {NoFile} /\ LiveData' = LiveData
        /\ (open' => live' # NoFile)
    <3>1. CASE UNCHANGED <<live, open>>
      BY <3>1 DEF CaptureInv, Typed, Placed, LiveData
    <3>2. CASE live' = OnSegmentOpened(Opened)
      BY <3>2, OpenedKeeps, NoFileAssumption DEF CaptureInv, LiveData
    <3>3. CASE HeaderFails
      BY <3>3, FailedKeeps, NoFileAssumption DEF CaptureInv
    <3> QED
      BY <1>3, <3>1, <3>2, <3>3 DEF Reopen
  <2>2. open' => live' # NoFile
    BY <2>1
  <2>3. pc' \in {"list", "idle"} /\ ~closed'
    BY <1>3 DEF Reopen, CaptureInv, Placed
  <2>4. Placed'
    BY <2>2, <2>3 DEF Placed
  <2> QED
    BY <1>3, <2>1, <2>4, ControlKeeps DEF Reopen, CaptureInv
<1>4. CASE ListDrop
  <2>1. Placed' /\ LiveData' = LiveData
    BY <1>4 DEF ListDrop, CaptureInv, Placed, LiveData
  <2>2. drop' \subseteq ClosedSegments
    BY <1>4 DEF ListDrop, ToDrop
  <2> QED
    BY <1>4, <2>1, <2>2, ControlKeeps DEF ListDrop, CaptureInv, Typed
<1>5. CASE EndPrune
  <2>1. Placed' /\ LiveData' = LiveData
    BY <1>5 DEF EndPrune, CaptureInv, Placed, LiveData
  <2> QED
    BY <1>5, <2>1, ControlKeeps DEF EndPrune, CaptureInv, Typed
<1>6. CASE CloseCapture
  <2>1. Placed' /\ LiveData' = LiveData
    BY <1>6 DEF CloseCapture, MutexFree, CaptureInv, Placed, LiveData
  <2> QED
    BY <1>6, <2>1, ControlKeeps DEF CloseCapture, CaptureInv, Typed
<1>7. CASE End
  <2>1. live' \in Files \cup {NoFile} /\ LiveData' = LiveData
    <3>1. CASE UNCHANGED live
      BY <3>1 DEF CaptureInv, Typed, LiveData
    <3>2. CASE open /\ LineFails
      BY <3>2, FailedKeeps DEF CaptureInv, Placed
    <3> QED
      BY <1>7, <3>1, <3>2 DEF End
  <2>2. Placed'
    BY <1>7 DEF End, Placed
  <2>3. UNCHANGED <<raw, gz, nextSeq, written, dropped>> /\ drop' = {}
        /\ pc' = "down"
    BY <1>7 DEF End
  <2> QED
    BY <2>1, <2>2, <2>3, ControlKeeps
<1>8. CASE StartFails
  <2>1. live' \in Files /\ LiveData' = LiveData
    BY <1>8, FailedKeeps DEF StartFails, CaptureInv
  <2>2. pc' = "down" /\ live' # NoFile
    BY <1>8, <2>1, NoFileAssumption DEF StartFails
  <2>3. Placed'
    BY <2>2 DEF Placed
  <2> QED
    BY <1>8, <2>1, <2>3, ControlKeeps DEF StartFails, CaptureInv
<1> QED
  BY <1>1, <1>2, <1>3, <1>4, <1>5, <1>6, <1>7, <1>8

\* CaptureInv is inductive; readers change nothing it speaks of.
LEMMA InvKept ==
  ASSUME CaptureInv, [CaptureNext]_allVars
  PROVE  CaptureInv' /\ Moved
<1>1. CASE Writer
  BY <1>1, StartKeeps, WriteKeeps, RenameKeeps, CompressKeeps, RemoveRawKeeps,
     DropKeeps, WriterControlKeeps DEF Writer
<1>2. CASE UNCHANGED <<fileVars, writerVars, histVars>>
  <2>1. Placed' /\ LiveData' = LiveData
    BY <1>2 DEF CaptureInv, Placed, LiveData, fileVars, writerVars
  <2> QED
    BY <1>2, <2>1, ControlKeeps
       DEF CaptureInv, Typed, fileVars, writerVars, histVars
<1>3. (\E r \in Readers : Reader(r)) \/ UNCHANGED allVars
         => UNCHANGED <<fileVars, writerVars, histVars>>
  BY DEF Reader, ListSegments, LookUpLive, ReadSegment, allVars, captureVars
<1> QED
  BY <1>1, <1>2, <1>3 DEF CaptureNext

\* CaptureInv holds from the first start on.
LEMMA InvHolds == CaptureSpec => []CaptureInv
<1>1. CaptureInit => CaptureInv
  <2> SUFFICES ASSUME CaptureInit
               PROVE  CaptureInv
    OBVIOUS
  <2>1. ClosedSegments = {} /\ LiveData = {}
    BY DEF CaptureInit, ClosedSegments, LiveData
  <2>2. Typed /\ Placed /\ Twins
    BY CaptureAssumption DEF CaptureInit, Typed, Placed, Twins
  <2>3. Numbered /\ Kept /\ drop \subseteq ClosedSegments
    BY <2>1 DEF CaptureInit, Numbered, Kept, Room
  <2> QED
    BY <2>2, <2>3 DEF CaptureInv
<1> QED
  BY <1>1, InvKept, PTL DEF CaptureSpec

\* Whatever fails and wherever the process is killed, the segments in their
\* order and the live file hold the writes in theirs (capture_writer.go).
THEOREM TranscriptStaysInOrder == CaptureSpec => []TranscriptInOrder
<1>1. CaptureInv => TranscriptInOrder
  <2> SUFFICES ASSUME CaptureInv,
                      NEW p \in ClosedSegments \cup {Live},
                      NEW q \in ClosedSegments \cup {Live}, p < q
               PROVE  \A v \in DataOf(p), w \in DataOf(q) : v < w
    BY DEF TranscriptInOrder
  <2>1. \A s \in ClosedSegments : s \in Int /\ s < Live
    BY CaptureAssumption DEF ClosedSegments, Seqs, Live
  <2>2. Live \in Int /\ p \in ClosedSegments
    BY <2>1, CaptureAssumption DEF Live
  <2>3. DataOf(p) = Segment(p).data
    BY <2>1, <2>2 DEF DataOf
  <2>4. CASE q = Live
    BY <2>2, <2>3, <2>4 DEF DataOf, CaptureInv, Kept, LiveData
  <2>5. CASE q # Live
    BY <2>2, <2>3, <2>5 DEF DataOf, CaptureInv, Kept
  <2> QED
    BY <2>4, <2>5
<1> QED
  BY <1>1, InvHolds, PTL

\* After the runner's Close no step opens the capture again.
THEOREM StaysClosed == CaptureSpec => []ClosedStaysClosed
<1>1. CaptureInv => ClosedStaysClosed
  BY DEF CaptureInv, Placed, ClosedStaysClosed
<1> QED
  BY <1>1, InvHolds, PTL

-----------------------------------------------------------------------------
(***************************************************************************)
(* Where the files of a step come from, for what is said of every file.    *)
(***************************************************************************)
\* A closed segment was there before or was the live file.
LEMMA SegmentsMove ==
  ASSUME CaptureInv, [CaptureNext]_allVars
  PROVE  \A s \in Seqs :
            /\ raw'[s] \in {raw[s], live, NoFile}
            /\ gz'[s] \in {gz[s], NoFile} \/ \E t \in Seqs : gz'[s] = raw[t]
<1> SUFFICES ASSUME NEW s \in Seqs
             PROVE  /\ raw'[s] \in {raw[s], live, NoFile}
                    /\ \/ gz'[s] \in {gz[s], NoFile}
                       \/ \E t \in Seqs : gz'[s] = raw[t]
  OBVIOUS
<1> USE DEF histVars, fileVars
<1>1. CASE UNCHANGED <<raw, gz>>
  BY <1>1
<1>2. CASE Rename
  BY <1>2 DEF Rename, CaptureInv, Typed
<1>3. CASE Compress
  <2>1. nextSeq - 1 \in Seqs
    BY <1>3 DEF Compress, CaptureInv, Placed
  <2>2. UNCHANGED raw /\ (gz'[s] = gz[s] \/ gz'[s] = raw[nextSeq - 1])
    BY <1>3 DEF Compress, CaptureInv, Typed
  <2> QED
    BY <2>1, <2>2
<1>4. CASE RemoveRaw
  BY <1>4 DEF RemoveRaw, CaptureInv, Typed
<1>5. CASE DropOldest
  <2>1. raw'[s] \in {raw[s], NoFile}
    BY <1>5 DEF DropOldest, CaptureInv, Typed
  <2>2. gz'[s] \in {gz[s], NoFile}
    BY <1>5 DEF DropOldest, CaptureInv, Typed
  <2> QED
    BY <2>1, <2>2
<1>6. UNCHANGED <<raw, gz>> \/ Rename \/ Compress \/ RemoveRaw \/ DropOldest
  BY DEF CaptureNext, Writer, Start, StartFails, Write, WriteFails, CloseLive,
     Reopen, ListDrop, EndPrune, CloseCapture, End, Reader, ListSegments,
     LookUpLive, ReadSegment, allVars, captureVars
<1> QED
  BY <1>1, <1>2, <1>3, <1>4, <1>5, <1>6

\* The live file is what it was, opened, written to, or a line in it failed.
LEMMA LiveMoves ==
  ASSUME CaptureInv, [CaptureNext]_allVars
  PROVE  \/ Write
         \/ /\ UNCHANGED written
            /\ \/ HeaderFails
               \/ live # NoFile /\ LineFails
               \/ /\ UNCHANGED spoilt
                  /\ live' \in {live, NoFile, OnSegmentOpened(Opened)}
<1> USE DEF histVars, fileVars
<1>1. CASE Write
  BY <1>1
<1>2. CASE WriteFails
  BY <1>2 DEF WriteFails, CaptureInv, Placed
<1>3. CASE End
  BY <1>3 DEF End, CaptureInv, Placed
<1>4. CASE Reopen
  BY <1>4 DEF Reopen
<1>5. CASE Start \/ StartFails
  BY <1>5 DEF Start, StartFails
<1>6. CASE Rename
  BY <1>6 DEF Rename
<1>7. \/ UNCHANGED <<written, spoilt, live>> \/ Write \/ WriteFails \/ End
      \/ Reopen \/ Start \/ StartFails \/ Rename
  BY DEF CaptureNext, Writer, CloseLive, Compress, RemoveRaw, DropOldest,
     ListDrop, EndPrune, CloseCapture, Reader, ListSegments,
     LookUpLive, ReadSegment, allVars, captureVars
<1> QED
  BY <1>1, <1>2, <1>3, <1>4, <1>5, <1>6, <1>7

-----------------------------------------------------------------------------
\* What a decoder skips is spoilt, and so is what comes next after a cut line.
Clean(f) == f # NoFile => f.lost \subseteq spoilt

LostInv ==
  /\ Clean(live) /\ \A s \in Seqs : Clean(raw[s]) /\ Clean(gz[s])
  /\ live # NoFile /\ live.torn => written + 1 \in spoilt

\* Every step keeps that.
LEMMA LostKept ==
  ASSUME CaptureInv, LostInv, [CaptureNext]_allVars
  PROVE  LostInv'
<1>1. /\ Opened \in Files /\ Opened.lost \subseteq spoilt
      /\ Opened.torn => written + 1 \in spoilt
  <2>1. NewFile.lost = {} /\ NewFile.torn = FALSE
    BY DEF NewFile
  <2> QED
    BY <2>1, OpenedKeeps DEF CaptureInv, LostInv, Clean, Opened
<1>2. /\ spoilt \subseteq spoilt' /\ Clean(live)'
      /\ live' # NoFile /\ live'.torn => written' + 1 \in spoilt'
  <2>1. CASE Write
    <3>1. live \in Files /\ live # NoFile /\ UNCHANGED spoilt
      BY <2>1 DEF Write, CaptureInv, Placed, Typed
    <3>2. /\ live'.torn = FALSE
          /\ live'.lost = IF live.torn THEN live.lost \cup {written + 1}
                          ELSE live.lost
      BY <2>1, <3>1 DEF Write, Files
    <3> QED
      BY <3>1, <3>2 DEF LostInv, Clean
  <2>2. CASE HeaderFails /\ UNCHANGED written
    <3>1. PICK cut \in BOOLEAN :
             live' = [Opened EXCEPT !.hdr = "failed", !.torn = cut]
      BY <2>2 DEF HeaderFails
    <3>2. live'.lost = Opened.lost
      BY <1>1, <3>1, MarkedFile
    <3> QED
      BY <1>1, <2>2, <3>2 DEF HeaderFails, Spoils, Clean
  <2>3. CASE live # NoFile /\ LineFails /\ UNCHANGED written
    <3>1. live \in Files /\ live.torn \in BOOLEAN /\ Asciicast \in BOOLEAN
      BY <2>3, CaptureAssumption DEF CaptureInv, Typed, Files
    <3>2. PICK cut \in BOOLEAN : live' = [live EXCEPT !.torn = cut]
      BY <2>3, <3>1 DEF LineFails
    <3>3. live'.lost = live.lost
      BY <3>1, <3>2, MarkedFile
    <3> QED
      BY <2>3, <3>3 DEF LineFails, Spoils, Clean, LostInv
  <2>4. CASE /\ UNCHANGED <<written, spoilt>>
             /\ live' \in {live, NoFile, OnSegmentOpened(Opened)}
    <3>1. CASE live' \in {live, NoFile}
      BY <2>4, <3>1 DEF Clean, LostInv
    <3>2. CASE live' = OnSegmentOpened(Opened)
      <4>1. live'.lost = Opened.lost /\ live'.torn = Opened.torn
        BY <3>2, OpenedKeeps DEF CaptureInv
      <4> QED
        BY <1>1, <2>4, <4>1 DEF Clean
    <3> QED
      BY <2>4, <3>1, <3>2
  <2> QED
    BY <2>1, <2>2, <2>3, <2>4, LiveMoves
<1>3. ASSUME NEW f, Clean(f)
      PROVE  f # NoFile => f.lost \subseteq spoilt'
  BY <1>2, <1>3 DEF Clean
<1>4. ASSUME NEW s \in Seqs
      PROVE  Clean(raw[s])' /\ Clean(gz[s])'
  <2>1. \A t \in Seqs : Clean(raw[t]) /\ Clean(gz[t]) /\ Clean(live)
    BY DEF LostInv
  <2>2. raw'[s] # NoFile => raw'[s].lost \subseteq spoilt'
    BY <1>3, <2>1, SegmentsMove
  <2>3. gz'[s] # NoFile => gz'[s].lost \subseteq spoilt'
    BY <1>3, <2>1, SegmentsMove
  <2> QED
    BY <2>2, <2>3 DEF Clean
<1> QED
  BY <1>2, <1>4 DEF LostInv

\* What was accepted can be read until prune removes it, but for the first
\* write after each line that a failed or killed write has cut short.
THEOREM NothingIsLost == CaptureSpec => []NothingLost
<1>1. CaptureInit => LostInv
  BY DEF CaptureInit, LostInv, Clean
<1>2. CaptureInv /\ LostInv => NothingLost
  <2> SUFFICES ASSUME CaptureInv, LostInv, NEW w \in 1 .. written \ spoilt
               PROVE  w \in dropped \cup
                            UNION {Found(p) : p \in ClosedSegments \cup {Live}}
    BY DEF NothingLost
  <2>1. CASE w \in dropped
    BY <2>1
  <2>2. CASE w \in LiveData
    <3>1. live # NoFile /\ w \in live.data /\ w \notin live.lost
      BY <2>2 DEF LiveData, LostInv, Clean
    <3>2. w \in Found(Live)
      BY <3>1 DEF Found, Readable
    <3> QED
      BY <3>2
  <2>3. CASE \E p \in ClosedSegments : w \in Segment(p).data
    <3>1. PICK p \in ClosedSegments : w \in Segment(p).data
      BY <2>3
    <3>2. p \in Seqs /\ p # Live /\ Segment(p) # NoFile /\ Clean(Segment(p))
      BY CaptureAssumption DEF ClosedSegments, Seqs, Live, Segment, LostInv
    <3>3. w \in Found(p)
      BY <3>1, <3>2 DEF Found, Readable, Clean
    <3> QED
      BY <3>3
  <2> QED
    BY <2>1, <2>2, <2>3 DEF CaptureInv, Kept
<1> QED
  BY <1>1, <1>2, LostKept, InvHolds, PTL DEF CaptureSpec

-----------------------------------------------------------------------------
\* No file is without its header, but where writing it failed; a file with no
\* header has no output and no cut line, so it gets one when it is opened.
Headed(f) == f # NoFile => f.hdr # "no"
HeaderInv ==
  Asciicast => Headed(live) /\ \A s \in Seqs : Headed(raw[s]) /\ Headed(gz[s])

\* Every step keeps the headers.
LEMMA HeadersKept ==
  ASSUME CaptureInv, HeaderInv, [CaptureNext]_allVars
  PROVE  HeaderInv'
<1> SUFFICES ASSUME Asciicast
             PROVE  HeaderInv'
  BY DEF HeaderInv
<1>1. Headed(live) /\ \A s \in Seqs : Headed(raw[s]) /\ Headed(gz[s])
  BY DEF HeaderInv
<1>2. Headed(OnSegmentOpened(Opened))
  <2>1. Opened \in Files
    BY OpenedKeeps DEF CaptureInv
  <2>2. ~Empty(Opened) => Headed(Opened)
    BY <1>1 DEF Opened, Empty, NewFile
  <2> QED
    BY <2>1, <2>2, MarkedFile DEF OnSegmentOpened, Headed
<1>3. Headed(live')
  <2>1. CASE Write
    <3>1. live \in Files /\ live # NoFile
      BY <2>1 DEF Write, CaptureInv, Placed, Typed
    <3>2. live'.hdr = live.hdr
      BY <2>1, <3>1 DEF Write, Files
    <3> QED
      BY <1>1, <3>1, <3>2 DEF Headed
  <2>2. CASE HeaderFails
    <3>1. PICK cut \in BOOLEAN :
             live' = [Opened EXCEPT !.hdr = "failed", !.torn = cut]
      BY <2>2 DEF HeaderFails
    <3>2. live'.hdr = "failed"
      BY <3>1, OpenedKeeps, MarkedFile DEF CaptureInv
    <3> QED
      BY <3>2 DEF Headed
  <2>3. CASE live # NoFile /\ LineFails
    <3>1. live \in Files /\ live.torn \in BOOLEAN /\ Asciicast \in BOOLEAN
      BY <2>3, CaptureAssumption DEF CaptureInv, Typed, Files
    <3>2. PICK cut \in BOOLEAN : live' = [live EXCEPT !.torn = cut]
      BY <2>3, <3>1 DEF LineFails
    <3>3. live'.hdr = live.hdr
      BY <3>1, <3>2, MarkedFile
    <3> QED
      BY <1>1, <2>3, <3>3 DEF Headed
  <2>4. CASE live' \in {live, NoFile, OnSegmentOpened(Opened)}
    BY <1>1, <1>2, <2>4 DEF Headed
  <2> QED
    BY <2>1, <2>2, <2>3, <2>4, LiveMoves
<1>4. ASSUME NEW s \in Seqs
      PROVE  Headed(raw'[s]) /\ Headed(gz'[s])
  <2>1. Headed(NoFile)
    BY DEF Headed
  <2> QED
    BY <1>1, <2>1, SegmentsMove
<1> QED
  BY <1>3, <1>4 DEF HeaderInv, Headed

\* Every asciicast segment starts with its header (onSegmentOpened).
THEOREM SegmentsDescribeThemselves == CaptureSpec => []SelfDescribing
<1>1. CaptureInit => HeaderInv
  BY DEF CaptureInit, HeaderInv, Headed
<1>2. HeaderInv => SelfDescribing
  BY DEF HeaderInv, Headed, SelfDescribing, ClosedSegments, Segment
<1> QED
  BY <1>1, <1>2, HeadersKept, InvHolds, PTL DEF CaptureSpec

-----------------------------------------------------------------------------
(***************************************************************************)
(* Readers.  What a reader has is older than the live file and than all it *)
(* has still to open, whatever is renamed, removed and numbered again      *)
(* meanwhile; once it has the live file it opens nothing more.             *)
(***************************************************************************)
ReadInv ==
  /\ reading \in [Readers -> [at : {"idle", "list", "read"},
                              todo : SUBSET (0 .. Live),
                              out : SUBSET (1 .. MaxWrites),
                              due : SUBSET (1 .. MaxWrites)]]
  /\ \A r \in Readers :
        /\ reading[r].out \subseteq 1 .. written
        /\ reading[r].at # "read" => reading[r].out = {}
        /\ reading[r].todo # {} =>
              \A v \in reading[r].out, w \in LiveData : v < w
        /\ \A p \in reading[r].todo :
              \A v \in reading[r].out, w \in Found(p) : v < w

\* What a reader finds is in the file.
LEMMA FoundIs ==
  ASSUME NEW p \in 0 .. Live
  PROVE  Found(p) \subseteq IF p = Live THEN LiveData
                            ELSE IF p \in ClosedSegments THEN Segment(p).data ELSE {}
BY DEF Found, Readable, LiveData

\* The writer adds to what a reader will find only what is newer than all that
\* the reader has.
LEMMA WriterKeepsReaders ==
  ASSUME CaptureInv, ReadInv, Moved, UNCHANGED reading, written \in Nat,
         written' \in Nat, written <= written', Typed'
  PROVE  ReadInv'
<1>1. ASSUME NEW r \in Readers, reading[r].todo # {},
             NEW v \in reading[r].out, NEW w \in LiveData'
      PROVE  v < w
  <2>1. v \in 1 .. written
    BY DEF ReadInv
  <2>2. w \in LiveData \/ w = written + 1
    BY DEF Moved
  <2> QED
    BY <1>1, <2>1, <2>2 DEF ReadInv
<1>2. ASSUME NEW r \in Readers, NEW p \in reading[r].todo,
             NEW v \in reading[r].out, NEW w \in Found(p)'
      PROVE  v < w
  <2>1. p \in 0 .. Live
    BY DEF ReadInv
  <2>2. CASE p = Live
    BY <1>1, <2>1, <2>2 DEF Found, Readable, LiveData
  <2>3. CASE p # Live
    <3>1. p \in ClosedSegments' /\ w \in Segment(p)'.data
      BY <2>3 DEF Found, Readable, Live
    <3>2. CASE p \in ClosedSegments /\ Segment(p)' = Segment(p)
      BY <2>3, <3>1, <3>2 DEF Found, ReadInv
    <3>3. CASE Segment(p)'.data = LiveData
      BY <3>1, <3>3 DEF ReadInv
    <3> QED
      BY <3>1, <3>2, <3>3 DEF Moved
  <2> QED
    BY <2>2, <2>3
<1>3. \A r \in Readers : reading[r].out \subseteq 1 .. written'
  BY DEF ReadInv
<1> QED
  BY <1>1, <1>2, <1>3 DEF ReadInv, Live

\* What a reader finds next is newer than all it has, and older than the rest.
LEMMA NextIsNewer ==
  ASSUME CaptureInv, ReadInv, NEW r \in Readers, reading[r].todo # {}
  PROVE  /\ NextPath(r) \in reading[r].todo
         /\ Found(NextPath(r)) \subseteq 1 .. written
         /\ \A v \in reading[r].out, w \in Found(NextPath(r)) : v < w
         /\ NextPath(r) = Live => reading[r].todo \ {NextPath(r)} = {}
         /\ NextPath(r) # Live =>
               \A v \in Found(NextPath(r)), w \in LiveData : v < w
         /\ \A p \in reading[r].todo \ {NextPath(r)} :
               \A v \in Found(NextPath(r)), w \in Found(p) : v < w
<1> DEFINE n == NextPath(r)
<1>1. Live \in Nat /\ reading[r].todo \in SUBSET (0 .. Live)
  BY CaptureAssumption DEF Live, ReadInv
<1>2. n \in reading[r].todo /\ \A p \in reading[r].todo : n <= p
  <2>1. reading[r].todo \in SUBSET Nat
    BY <1>1
  <2> QED
    BY <2>1, MinIsLeast DEF NextPath
<1> HIDE DEF n
<1>3. \A p \in reading[r].todo :
         Found(p) \subseteq
            IF p = Live THEN LiveData
            ELSE IF p \in ClosedSegments THEN Segment(p).data ELSE {}
  BY <1>1, FoundIs
<1>4. Found(n) \subseteq 1 .. written
  BY <1>2, <1>3 DEF CaptureInv, Kept
<1>5. n = Live => reading[r].todo \ {n} = {}
  BY <1>1, <1>2
<1>6. n # Live => \A v \in Found(n), w \in LiveData : v < w
  BY <1>2, <1>3 DEF CaptureInv, Kept
<1>7. ASSUME NEW p \in reading[r].todo \ {n},
             NEW v \in Found(n), NEW w \in Found(p)
      PROVE  v < w
  <2>1. n < p /\ n # Live
    BY <1>1, <1>2, <1>5
  <2>2. CASE p = Live
    BY <1>3, <1>6, <2>1, <2>2
  <2>3. CASE p # Live
    BY <1>2, <1>3, <2>1, <2>3 DEF CaptureInv, Kept
  <2> QED
    BY <2>2, <2>3
<1> QED
  BY <1>2, <1>4, <1>5, <1>6, <1>7 DEF ReadInv, n

\* A step of a reader keeps ReadInv.
LEMMA ReaderKeepsReaders ==
  ASSUME CaptureInv, ReadInv, NEW r \in Readers, Reader(r)
  PROVE  ReadInv'
<1> USE DEF fileVars, writerVars, histVars
<1>1. UNCHANGED <<live, raw, gz, written>>
  BY DEF Reader, ListSegments, LookUpLive, ReadSegment
<1>2. LiveData' = LiveData /\ \A p : Found(p)' = Found(p)
  BY <1>1 DEF LiveData, Found, Readable, ClosedSegments, Segment
<1>3. /\ MaxWrites \in Nat /\ written \in 0 .. MaxWrites /\ Live \in Nat
      /\ ClosedSegments \subseteq 0 .. Live
  BY CaptureAssumption DEF CaptureInv, Typed, Live, ClosedSegments, Seqs
<1> DEFINE Rec == [at : {"idle", "list", "read"}, todo : SUBSET (0 .. Live),
                   out : SUBSET (1 .. MaxWrites), due : SUBSET (1 .. MaxWrites)]
<1>4. reading \in [Readers -> Rec]
  BY DEF ReadInv
<1>5. ASSUME NEW n \in Rec, reading' = [reading EXCEPT ![r] = n],
             n.out \subseteq 1 .. written, n.at # "read" => n.out = {},
             n.todo # {} => \A v \in n.out, w \in LiveData : v < w,
             \A p \in n.todo : \A v \in n.out, w \in Found(p) : v < w
      PROVE  ReadInv'
  <2>1. reading' \in [Readers -> Rec] /\ reading'[r] = n
    BY <1>4, <1>5
  <2>2. \A q \in Readers : q # r => reading'[q] = reading[q]
    BY <1>4, <1>5
  <2> QED
    BY <1>1, <1>2, <1>5, <2>1, <2>2 DEF ReadInv, Live
<1>6. CASE ListSegments(r)
  <2> DEFINE n == [at |-> "list", todo |-> ClosedSegments, out |-> {},
                   due |-> 1 .. written]
  <2>1. n \in Rec
    <3>1. ClosedSegments \in SUBSET (0 .. Live) /\ {} \in SUBSET (1 .. MaxWrites)
      BY <1>3
    <3>2. 1 .. written \in SUBSET (1 .. MaxWrites)
      BY <1>3
    <3> QED
      BY <3>1, <3>2
  <2> QED
    BY <1>5, <1>6, <2>1 DEF ListSegments
<1>7. CASE LookUpLive(r)
  <2>1. PICK n \in Rec : /\ reading' = [reading EXCEPT ![r] = n]
                         /\ n.out = reading[r].out /\ n.at = "read"
    <3> DEFINE T == IF live = NoFile THEN reading[r].todo
                    ELSE reading[r].todo \cup {Live}
               n == [reading[r] EXCEPT !.at = "read", !.todo = T]
    <3>1. reading[r] \in Rec /\ T \in SUBSET (0 .. Live)
      BY <1>3, <1>4
    <3>2. reading' = [reading EXCEPT ![r] = n]
      BY <1>4, <1>7 DEF LookUpLive
    <3> HIDE DEF T
    <3>3. n \in Rec /\ n.out = reading[r].out /\ n.at = "read"
      BY <3>1
    <3> QED
      BY <3>2, <3>3
  <2>2. reading[r].out = {}
    BY <1>7 DEF LookUpLive, ReadInv
  <2> QED
    BY <1>5, <2>1, <2>2
<1>8. CASE ReadSegment(r)
  <2> DEFINE n == [reading[r] EXCEPT !.todo = @ \ {NextPath(r)},
                                     !.out = @ \cup Found(NextPath(r))]
  <2>1. reading' = [reading EXCEPT ![r] = n] /\ reading[r].at = "read"
    BY <1>4, <1>8 DEF ReadSegment
  <2>2. reading[r].todo # {}
    BY <1>8 DEF ReadSegment
  <2>3. Found(NextPath(r)) \subseteq 1 .. written
    BY <2>2, NextIsNewer
  <2>4. n \in Rec /\ n.at = "read" /\ n.todo = reading[r].todo \ {NextPath(r)}
        /\ n.out = reading[r].out \cup Found(NextPath(r))
    <3>1. /\ reading[r] \in Rec
          /\ reading[r].todo \ {NextPath(r)} \in SUBSET (0 .. Live)
          /\ reading[r].out \cup Found(NextPath(r)) \in SUBSET (1 .. MaxWrites)
      BY <1>3, <1>4, <2>3
    <3>2. ASSUME NEW f \in Rec, NEW t \in SUBSET (0 .. Live),
                 NEW o \in SUBSET (1 .. MaxWrites)
          PROVE  LET g == [f EXCEPT !.todo = t, !.out = o]
                 IN  g \in Rec /\ g.at = f.at /\ g.todo = t /\ g.out = o
      OBVIOUS
    <3>3. n = [reading[r] EXCEPT !.todo = reading[r].todo \ {NextPath(r)},
                                 !.out = reading[r].out \cup Found(NextPath(r))]
      OBVIOUS
    <3> HIDE DEF n
    <3> QED
      BY <2>1, <3>1, <3>2, <3>3
  <2> HIDE DEF n
  <2>5. n.out \subseteq 1 .. written
    BY <2>3, <2>4 DEF ReadInv
  <2>6. n.todo # {} => \A v \in n.out, w \in LiveData : v < w
    BY <2>2, <2>4, NextIsNewer DEF ReadInv
  <2>7. \A p \in n.todo : \A v \in n.out, w \in Found(p) : v < w
    BY <2>2, <2>4, NextIsNewer DEF ReadInv
  <2> QED
    BY <1>5, <2>1, <2>4, <2>5, <2>6, <2>7
<1> QED
  BY <1>6, <1>7, <1>8 DEF Reader

\* What a reader prints is in the order it was written, while segments rotate,
\* are compressed, removed and numbered anew under it (OrderedPaths, sb read).
THEOREM ReadersReadInOrder == CaptureSpec => ReadInOrder
<1> DEFINE InOrder == \A r \in Readers : \A v \in reading[r].out,
                         w \in reading'[r].out \ reading[r].out : v < w
<1>1. CaptureInit => ReadInv
  BY CaptureAssumption DEF CaptureInit, ReadInv, NotReading
<1>2. CaptureInv /\ ReadInv /\ [CaptureNext]_allVars => ReadInv'
  <2> SUFFICES ASSUME CaptureInv, ReadInv, [CaptureNext]_allVars
               PROVE  ReadInv'
    OBVIOUS
  <2>1. CASE \E r \in Readers : Reader(r)
    BY <2>1, ReaderKeepsReaders
  <2>2. CASE Writer \/ UNCHANGED allVars
    <3>1. UNCHANGED reading
      BY <2>2 DEF Writer, Start, StartFails, Write, WriteFails, CloseLive, Rename, Compress,
         RemoveRaw, Reopen, ListDrop, DropOldest, EndPrune, CloseCapture,
         End, allVars, captureVars
    <3>2. written \in Nat /\ (written' = written \/ written' = written + 1)
      <4>1. written \in Nat
        BY CaptureAssumption DEF CaptureInv, Typed
      <4> QED
        BY <2>2, <4>1 DEF Writer, Start, StartFails, Write, WriteFails, CloseLive, Rename,
           Compress, RemoveRaw, Reopen, ListDrop, DropOldest, EndPrune,
           CloseCapture, End, allVars, histVars
    <3>3. CaptureInv' /\ Moved
      BY InvKept
    <3> QED
      BY <3>1, <3>2, <3>3, WriterKeepsReaders DEF CaptureInv
  <2> QED
    BY <2>1, <2>2 DEF CaptureNext
<1>3. CaptureInv /\ ReadInv /\ [CaptureNext]_allVars => [InOrder]_allVars
  <2> SUFFICES ASSUME CaptureInv, ReadInv, CaptureNext
               PROVE  InOrder
    OBVIOUS
  <2> SUFFICES ASSUME NEW r \in Readers, NEW v \in reading[r].out,
                      NEW w \in reading'[r].out \ reading[r].out
               PROVE  v < w
    OBVIOUS
  <2>1. CASE ReadSegment(r)
    <3>1. reading[r].todo # {}
      BY <2>1 DEF ReadSegment
    <3>2. reading'[r].out = reading[r].out \cup Found(NextPath(r))
      BY <2>1 DEF ReadSegment, ReadInv
    <3> QED
      BY <3>1, <3>2, NextIsNewer
  <2>2. CASE ListSegments(r) \/ LookUpLive(r)
    BY <2>2 DEF ListSegments, LookUpLive, ReadInv
  <2>3. CASE ~Reader(r)
    <3>1. reading'[r] = reading[r]
      BY <2>3 DEF CaptureNext, Writer, Start, StartFails, Write, WriteFails, CloseLive,
         Rename, Compress, RemoveRaw, Reopen, ListDrop, DropOldest,
         EndPrune, CloseCapture, End, Reader, ListSegments, LookUpLive,
         ReadSegment, ReadInv
    <3> QED
      BY <3>1
  <2> QED
    BY <2>1, <2>2, <2>3 DEF Reader
<1> QED
  BY <1>1, <1>2, <1>3, InvHolds, PTL DEF CaptureSpec, ReadInOrder
=============================================================================
