------------------------ MODULE SubscriberRingProofs ------------------------
(***************************************************************************)
(* Proofs about the subscriber ring, for every bound, every replay, every  *)
(* set of chunk sizes and both policies.                                   *)
(***************************************************************************)
EXTENDS SubscriberRing, SequenceTheorems, TLAPS

-----------------------------------------------------------------------------
(***************************************************************************)
(* The runs of consecutive bytes that ring, chunk and client hold.         *)
(***************************************************************************)
\* A run of n bytes is a sequence of length n.
LEMMA BytesType ==
    ASSUME NEW m \in Nat, NEW n \in Nat
    PROVE  /\ Bytes(m, n) \in Seq(Nat)
           /\ Len(Bytes(m, n)) = n
           /\ \A i \in 1..n : Bytes(m, n)[i] = m + i
  <1>1. Bytes(m, n) \in [1..n -> Nat]
    BY DEF Bytes
  <1>2. Bytes(m, n) \in Seq(Nat)
    BY <1>1, SeqDef
  <1>3. Len(Bytes(m, n)) = n
    BY <1>2, LenProperties DEF Bytes
  <1> QED
    BY <1>2, <1>3 DEF Bytes

\* Two adjacent runs make one.
LEMMA BytesJoin ==
    ASSUME NEW m \in Nat, NEW n \in Nat, NEW k \in Nat
    PROVE  Bytes(m, n) \o Bytes(m + n, k) = Bytes(m, n + k)
  <1>1. m + n \in Nat /\ n + k \in Nat
    OBVIOUS
  <1> DEFINE a == Bytes(m, n)
             b == Bytes(m + n, k)
             c == Bytes(m, n + k)
  <1>2. a \in Seq(Nat) /\ Len(a) = n /\ \A i \in 1..n : a[i] = m + i
    BY BytesType
  <1>3. b \in Seq(Nat) /\ Len(b) = k /\ \A i \in 1..k : b[i] = m + n + i
    BY <1>1, BytesType
  <1>4. c \in Seq(Nat) /\ Len(c) = n + k /\ \A i \in 1..(n + k) : c[i] = m + i
    BY <1>1, BytesType
  <1> HIDE DEF a, b, c
  <1>5. /\ a \o b \in Seq(Nat) /\ Len(a \o b) = Len(a) + Len(b)
        /\ \A i \in 1..(Len(a) + Len(b)) : (a \o b)[i] =
              IF i <= Len(a) THEN a[i] ELSE b[i - Len(a)]
    BY <1>2, <1>3, ConcatProperties
  <1>6. ASSUME NEW i \in 1..Len(a \o b)
        PROVE  (a \o b)[i] = c[i]
    <2>1. i \in 1..(n + k) /\ c[i] = m + i
      BY <1>2, <1>3, <1>4, <1>5
    <2>2. CASE i <= n
      <3>1. (a \o b)[i] = a[i] /\ i \in 1..n
        BY <1>2, <1>3, <1>5, <2>1, <2>2
      <3> QED
        BY <1>2, <2>1, <3>1
    <2>3. CASE ~(i <= n)
      <3>1. (a \o b)[i] = b[i - n] /\ i - n \in 1..k
        BY <1>2, <1>3, <1>5, <2>1, <2>3
      <3>2. b[i - n] = m + n + (i - n)
        BY <1>3, <3>1
      <3> QED
        BY <2>1, <3>1, <3>2
    <2> QED
      BY <2>2, <2>3
  <1>7. a \o b = c
    BY <1>2, <1>3, <1>4, <1>5, <1>6, SeqEqual
  <1> QED
    BY <1>7 DEF a, b, c

\* A prefix of a run is a run from the same place.
LEMMA BytesPrefix ==
    ASSUME NEW m \in Nat, NEW n \in Nat, NEW j \in 0..n
    PROVE  SubSeq(Bytes(m, n), 1, j) = Bytes(m, j)
  <1>1. /\ Bytes(m, n) \in Seq(Nat)
        /\ \A i \in 1..n : Bytes(m, n)[i] = m + i
    BY BytesType
  <1>2. /\ Bytes(m, j) \in Seq(Nat) /\ Len(Bytes(m, j)) = j
        /\ \A i \in 1..j : Bytes(m, j)[i] = m + i
    BY BytesType
  <1> DEFINE prefix == SubSeq(Bytes(m, n), 1, j)
  <1>3. \A i \in 1..j : Bytes(m, n)[i] \in Nat
    BY <1>1
  <1>4. /\ prefix \in Seq(Nat)
        /\ Len(prefix) = IF 1 <= j THEN j - 1 + 1 ELSE 0
        /\ \A i \in 1..(j - 1 + 1) : prefix[i] = Bytes(m, n)[1 + i - 1]
    BY <1>3, SubSeqProperties
  <1>5. Len(prefix) = j
    BY <1>4
  <1>6. ASSUME NEW i \in 1..j
        PROVE  prefix[i] = Bytes(m, j)[i]
    BY <1>1, <1>2, <1>4
  <1> QED
    BY <1>2, <1>4, <1>5, <1>6, SeqEqual

\* What follows a prefix of a run is the run from there on.
LEMMA BytesSuffix ==
    ASSUME NEW m \in Nat, NEW n \in Nat, NEW j \in 0..n
    PROVE  SubSeq(Bytes(m, n), j + 1, n) = Bytes(m + j, n - j)
  <1>0. /\ m + j \in Nat /\ n - j \in Nat
        /\ j + 1 \in Int /\ n \in Int
    OBVIOUS
  <1> DEFINE run == Bytes(m, n)
             rest == Bytes(m + j, n - j)
             suffix == SubSeq(run, j + 1, n)
  <1>1. \A i \in 1..n : run[i] = m + i
    BY BytesType
  <1>2. /\ rest \in Seq(Nat) /\ Len(rest) = n - j
        /\ \A i \in 1..(n - j) : rest[i] = m + j + i
    BY <1>0, BytesType
  <1> HIDE DEF run, rest
  <1>3. \A i \in (j + 1)..n : run[i] \in Nat
    BY <1>1
  <1>4. /\ suffix \in Seq(Nat)
        /\ Len(suffix) = IF j + 1 <= n THEN n - (j + 1) + 1 ELSE 0
        /\ \A i \in 1..(n - (j + 1) + 1) : suffix[i] = run[j + 1 + i - 1]
    BY <1>0, <1>3, SubSeqProperties
  <1>5. Len(suffix) = n - j
    BY <1>4
  <1>6. ASSUME NEW i \in 1..(n - j)
        PROVE  suffix[i] = rest[i]
    <2>1. j + i \in 1..n /\ j + 1 + i - 1 = j + i /\ n - (j + 1) + 1 = n - j
      OBVIOUS
    <2>2. suffix[i] = run[j + i]
      BY <1>4, <2>1
    <2>3. run[j + i] = m + (j + i)
      BY <1>1, <2>1
    <2>4. rest[i] = m + j + i
      BY <1>2
    <2> QED
      BY <2>2, <2>3, <2>4
  <1>7. suffix = rest
    BY <1>2, <1>4, <1>5, <1>6, SeqEqual
  <1> QED
    BY <1>7 DEF rest, run

\* The empty run.
LEMMA BytesNone ==
    ASSUME NEW m \in Nat, NEW s \in Seq(Nat), Len(s) = 0
    PROVE  s = <<>> /\ Bytes(m, 0) = s
  <1>1. /\ Bytes(m, 0) \in Seq(Nat) /\ Len(Bytes(m, 0)) = 0
    BY BytesType
  <1>2. s = <<>>
    BY EmptySeq
  <1> QED
    BY <1>1, <1>2, EmptySeq

-----------------------------------------------------------------------------
(***************************************************************************)
(* The inductive invariant.                                                *)
(***************************************************************************)
\* Ring, chunk and client hold three adjacent runs, up to the last byte kept,
\* unless the connection broke and lost the chunk.
Adjacent ==
    /\ got = Bytes(0, Len(got))
    /\ Len(got) <= kept
    /\ ~broken => /\ chunk = Bytes(Len(got), Len(chunk))
                  /\ buf = Bytes(Len(got) + Len(chunk), Len(buf))
                  /\ Len(got) + Len(chunk) + Len(buf) = kept

\* A ring that dropped bytes is closed; an open one has dropped none.
Lossless ==
    /\ kept <= sent
    /\ ~closed => kept = sent
    /\ lagged => closed /\ kept < sent

\* Where the drain is, and what that says of the ring.
DrainInv ==
    /\ drain = "writing" <=> chunk # <<>>
    /\ drain = "notice" => closed /\ lagged /\ buf = <<>> /\ ~told
    /\ drain = "loop" \/ drain = "writing" => ~told
    /\ broken => drain \in {"leaving", "done"}
    /\ drain \in {"leaving", "done"} => closed
    /\ drain \in {"leaving", "done"} /\ ~broken => buf = <<>> /\ (told <=> lagged)

Bounded == maxBytes \in MaxBytes..(MaxBytes + Replay) /\ Len(buf) <= maxBytes

Needed == producer = "parked" => need \in Chunks

RingInv == RingTypeOK /\ Bounded /\ Needed /\ Adjacent /\ Lossless /\ DrainInv

\* The ring starts with the replay.
LEMMA RingInitInv == RingInit => RingInv
  <1> SUFFICES ASSUME RingInit PROVE RingInv
    OBVIOUS
  <1> USE RingAssumption DEF RingInit
  <1>0. /\ sent \in 0..Replay /\ kept = sent /\ buf = Bytes(0, sent)
        /\ maxBytes = MaxBytes + sent /\ backpressure \in BOOLEAN
    OBVIOUS
  <1>1. /\ Bytes(0, sent) \in Seq(Nat) /\ Len(Bytes(0, sent)) = sent
    BY <1>0, BytesType
  <1>2. <<>> \in Seq(Nat) /\ Len(<<>>) = 0
    BY EmptySeq
  <1>3. Bytes(0, 0) = <<>>
    BY <1>2, BytesNone
  <1>4. RingTypeOK
    <2>1. buf \in Seq(Nat) /\ chunk \in Seq(Nat) /\ got \in Seq(Nat)
      BY <1>0, <1>1, <1>2
    <2>2. maxBytes \in Nat /\ sent \in Nat /\ kept \in Nat /\ need \in Nat
      BY <1>0
    <2> QED
      BY <1>0, <2>1, <2>2 DEF RingTypeOK
  <1>5. Bounded /\ Needed
    BY <1>0, <1>1 DEF Bounded, Needed
  <1>6. Adjacent
    <2>1. 0 + 0 = 0 /\ 0 + sent = sent
      BY <1>0
    <2> QED
      BY <1>0, <1>1, <1>2, <1>3, <2>1 DEF Adjacent
  <1>7. Lossless /\ DrainInv
    BY <1>0 DEF Lossless, DrainInv
  <1> QED
    BY <1>4, <1>5, <1>6, <1>7 DEF RingInv

\* A byte that is taken extends the run in the ring.
LEMMA EnqueueInv ==
    ASSUME NEW n \in Chunks, RingInv, ~closed, HasRoom(n), Enqueue(n),
           UNCHANGED <<maxBytes, backpressure, drainVars>>
    PROVE  /\ buf' \in Seq(Nat) /\ sent' \in Nat /\ kept' \in Nat
           /\ Bounded' /\ Adjacent' /\ Lossless' /\ DrainInv'
  <1> USE RingAssumption
  <1>0. /\ buf' = buf \o Bytes(sent, n) /\ sent' = sent + n /\ kept' = kept + n
        /\ UNCHANGED <<closed, lagged, maxBytes, backpressure, drain, chunk, got, told, broken>>
    BY DEF Enqueue, drainVars, limitVars
  <1>1. /\ n \in Nat \ {0} /\ sent \in Nat /\ kept \in Nat /\ sent = kept
        /\ buf \in Seq(Nat) /\ Len(buf) \in Nat
        /\ got \in Seq(Nat) /\ Len(got) \in Nat
        /\ chunk \in Seq(Nat) /\ Len(chunk) \in Nat
        /\ ~broken
    BY LenProperties DEF RingInv, RingTypeOK, Lossless, DrainInv
  <1>2. /\ Bytes(sent, n) \in Seq(Nat) /\ Len(Bytes(sent, n)) = n
    BY <1>1, BytesType
  <1>3. buf' \in Seq(Nat) /\ Len(buf') = Len(buf) + n
    BY <1>0, <1>1, <1>2, ConcatProperties
  <1>4. /\ chunk = Bytes(Len(got), Len(chunk))
        /\ buf = Bytes(Len(got) + Len(chunk), Len(buf))
        /\ Len(got) + Len(chunk) + Len(buf) = kept
        /\ got = Bytes(0, Len(got)) /\ Len(got) <= kept
    BY <1>1 DEF RingInv, Adjacent
  <1>5. buf' = Bytes(Len(got) + Len(chunk), Len(buf'))
    <2>1. Len(got) + Len(chunk) \in Nat
      BY <1>1
    <2>2. Bytes(Len(got) + Len(chunk), Len(buf)) \o
            Bytes(Len(got) + Len(chunk) + Len(buf), n)
          = Bytes(Len(got) + Len(chunk), Len(buf) + n)
      BY <2>1, <1>1, BytesJoin
    <2> QED
      BY <2>2, <1>0, <1>1, <1>3, <1>4
  <1>6. Adjacent'
    <2>1. Len(got) <= kept + n
      BY <1>1, <1>4
    <2>2. Len(got) + Len(chunk) + Len(buf) = kept
      BY <1>4
    <2>3. /\ Len(got) \in Nat /\ Len(chunk) \in Nat /\ Len(buf) \in Nat
          /\ n \in Nat /\ Len(buf') = Len(buf) + n
      BY <1>1, <1>3
    <2>4. Len(got) + Len(chunk) + (Len(buf) + n) = kept + n
      BY <2>2, <2>3
    <2>5. Len(got) + Len(chunk) + Len(buf') = kept + n
      BY <2>3, <2>4
    <2> QED
      BY <2>1, <2>5, <1>0, <1>4, <1>5 DEF Adjacent
  <1>7. Bounded'
    BY <1>0, <1>1, <1>3 DEF Bounded, HasRoom, RingInv
  <1>8. Lossless'
    BY <1>0, <1>1 DEF Lossless, RingInv
  <1>9. DrainInv'
    BY <1>0 DEF DrainInv, RingInv
  <1> QED
    BY <1>0, <1>1, <1>3, <1>6, <1>7, <1>8, <1>9

\* What a write that takes no byte preserves.
LEMMA DiscardInv ==
    ASSUME NEW n \in Chunks, RingInv,
           (closed /\ Discard(n)) \/ (~closed /\ Overflow(n)),
           UNCHANGED <<maxBytes, backpressure, drainVars>>
    PROVE  /\ buf' = buf /\ kept' = kept /\ sent' \in Nat
           /\ closed' \in BOOLEAN /\ lagged' \in BOOLEAN
           /\ Bounded' /\ Adjacent' /\ Lossless' /\ DrainInv'
  <1>1. /\ n \in Nat \ {0} /\ sent \in Nat /\ kept \in Nat
        /\ closed \in BOOLEAN /\ lagged \in BOOLEAN
    BY RingAssumption DEF RingInv, RingTypeOK
  <1>2. /\ UNCHANGED <<buf, kept, maxBytes, backpressure, drain, chunk, got, told, broken>>
        /\ sent' = sent + n
    BY DEF Discard, Overflow, drainVars, limitVars
  <1>3. \/ closed /\ UNCHANGED <<closed, lagged>>
        \/ ~closed /\ closed' = TRUE /\ lagged' = TRUE
    BY DEF Discard, Overflow
  <1>4. Bounded' /\ Adjacent'
    BY <1>2 DEF RingInv, Bounded, Adjacent
  <1>5. Lossless'
    BY <1>1, <1>2, <1>3 DEF RingInv, Lossless
  <1>6. DrainInv'
    BY <1>2, <1>3 DEF RingInv, DrainInv
  <1>7. closed' \in BOOLEAN /\ lagged' \in BOOLEAN
    BY <1>1, <1>3
  <1>8. sent' \in Nat
    BY <1>1, <1>2
  <1> QED
    BY <1>2, <1>4, <1>5, <1>6, <1>7, <1>8

\* The PTY reader inside Write preserves the invariant.
LEMMA ProducerInv ==
    ASSUME RingInv,
           \/ \E n \in Chunks : Write(n) \/ Park(n)
           \/ Wake \/ StallElapses \/ TimerFires
    PROVE  RingInv'
  <1> USE RingAssumption
  <1>1. ASSUME NEW n \in Chunks, Write(n)
        PROVE  RingInv'
    <2>1. UNCHANGED <<maxBytes, backpressure, writeVars, drainVars>>
      BY <1>1 DEF Write, limitVars
    <2>2. CASE ~closed /\ HasRoom(n) /\ Enqueue(n)
      <3>1. /\ buf' \in Seq(Nat) /\ sent' \in Nat /\ kept' \in Nat
            /\ Bounded' /\ Adjacent' /\ Lossless' /\ DrainInv'
        BY <2>1, <2>2, EnqueueInv
      <3>2. RingTypeOK' /\ Needed'
        BY <2>1, <2>2, <3>1
        DEF RingInv, RingTypeOK, Needed, Enqueue, Broadcast, writeVars, drainVars, limitVars
      <3> QED
        BY <3>1, <3>2 DEF RingInv
    <2>3. CASE (closed /\ Discard(n)) \/ (~closed /\ Overflow(n))
      <3>1. /\ buf' = buf /\ kept' = kept /\ sent' \in Nat
            /\ closed' \in BOOLEAN /\ lagged' \in BOOLEAN
            /\ Bounded' /\ Adjacent' /\ Lossless' /\ DrainInv'
        BY <2>1, <2>3, DiscardInv
      <3>2. asleep' \in SUBSET {"producer", "drain"}
        BY <2>3 DEF RingInv, RingTypeOK, Discard, Overflow, Broadcast
      <3>3. RingTypeOK' /\ Needed'
        BY <2>1, <3>1, <3>2 DEF RingInv, RingTypeOK, Needed, writeVars, drainVars, limitVars
      <3> QED
        BY <3>1, <3>3 DEF RingInv
    <2>4. \/ ~closed /\ HasRoom(n) /\ Enqueue(n)
          \/ (closed /\ Discard(n)) \/ (~closed /\ Overflow(n))
      BY <1>1, Zenon DEF Write
    <2> QED
      BY <2>2, <2>3, <2>4, Zenon
  <1>2. ASSUME NEW n \in Chunks, Park(n)
        PROVE  RingInv'
    <2>1. n \in Nat
      OBVIOUS
    <2>2. RingTypeOK' /\ Needed'
      BY <1>2, <2>1 DEF RingInv, RingTypeOK, Needed, Park, drainVars, limitVars
    <2>3. Bounded' /\ Adjacent' /\ Lossless' /\ DrainInv'
      BY <1>2 DEF RingInv, Bounded, Adjacent, Lossless, DrainInv, Park, drainVars, limitVars
    <2> QED
      BY <2>2, <2>3 DEF RingInv
  <1>3. CASE Wake
    <2>1. need \in Chunks /\ UNCHANGED <<maxBytes, backpressure, drainVars>>
      BY <1>3 DEF Wake, RingInv, Needed, limitVars
    <2>2. CASE ~closed /\ HasRoom(need) /\ Enqueue(need) /\ Return
      <3>1. /\ buf' \in Seq(Nat) /\ sent' \in Nat /\ kept' \in Nat
            /\ Bounded' /\ Adjacent' /\ Lossless' /\ DrainInv'
        BY <2>1, <2>2, EnqueueInv
      <3>2. RingTypeOK' /\ Needed'
        BY <2>1, <2>2, <3>1
        DEF RingInv, RingTypeOK, Needed, Enqueue, Return, Broadcast, drainVars, limitVars
      <3> QED
        BY <3>1, <3>2 DEF RingInv
    <2>3. CASE ((closed /\ Discard(need)) \/ (~closed /\ Overflow(need))) /\ Return
      <3>1. /\ buf' = buf /\ kept' = kept /\ sent' \in Nat
            /\ closed' \in BOOLEAN /\ lagged' \in BOOLEAN
            /\ Bounded' /\ Adjacent' /\ Lossless' /\ DrainInv'
        BY <2>1, <2>3, DiscardInv
      <3>2. asleep' \in SUBSET {"producer", "drain"}
        BY <2>3 DEF RingInv, RingTypeOK, Discard, Overflow, Broadcast
      <3>3. RingTypeOK' /\ Needed'
        BY <2>1, <2>3, <3>1, <3>2 DEF RingInv, RingTypeOK, Needed, Return, drainVars, limitVars
      <3> QED
        BY <3>1, <3>3 DEF RingInv
    <2>4. CASE /\ asleep' = asleep \cup {"producer"}
               /\ UNCHANGED <<buf, closed, lagged, sent, kept, writeVars>>
      <3>1. RingTypeOK' /\ Needed'
        BY <2>1, <2>4 DEF RingInv, RingTypeOK, Needed, writeVars, drainVars, limitVars
      <3>2. Bounded' /\ Adjacent' /\ Lossless' /\ DrainInv'
        BY <2>1, <2>4 DEF RingInv, Bounded, Adjacent, Lossless, DrainInv, drainVars, limitVars
      <3> QED
        BY <3>1, <3>2 DEF RingInv
    <2>5. \/ ~closed /\ HasRoom(need) /\ Enqueue(need) /\ Return
          \/ ((closed /\ Discard(need)) \/ (~closed /\ Overflow(need))) /\ Return
          \/ /\ asleep' = asleep \cup {"producer"}
             /\ UNCHANGED <<buf, closed, lagged, sent, kept, writeVars>>
      BY <1>3, Zenon DEF Wake
    <2> QED
      BY <2>2, <2>3, <2>4, <2>5, Zenon
  <1>4. CASE StallElapses \/ TimerFires
    <2>1. /\ UNCHANGED <<buf, maxBytes, backpressure, closed, lagged, sent, kept, producer, need,
                         drainVars>>
          /\ timer' \in {"off", "armed", "passed", "fired"} /\ timer # "off"
          /\ asleep' \in SUBSET {"producer", "drain"}
      BY <1>4 DEF StallElapses, TimerFires, Broadcast, RingInv, RingTypeOK, limitVars
    <2>2. RingTypeOK' /\ Needed'
      BY <2>1 DEF RingInv, RingTypeOK, Needed, drainVars, limitVars
    <2>3. Bounded' /\ Adjacent' /\ Lossless' /\ DrainInv'
      BY <2>1 DEF RingInv, Bounded, Adjacent, Lossless, DrainInv, drainVars, limitVars
    <2> QED
      BY <2>2, <2>3 DEF RingInv
  <1> QED
    BY <1>1, <1>2, <1>3, <1>4

\* What the drain knows about the sequences while its connection works.
LEMMA RunsInHand ==
    ASSUME RingInv
    PROVE  /\ buf \in Seq(Nat) /\ Len(buf) \in Nat
           /\ got \in Seq(Nat) /\ Len(got) \in Nat
           /\ chunk \in Seq(Nat) /\ Len(chunk) \in Nat
           /\ kept \in Nat /\ sent \in Nat /\ kept <= sent
           /\ got = Bytes(0, Len(got))
           /\ drain \in {"loop", "writing", "notice"} =>
                 /\ ~broken
                 /\ chunk = Bytes(Len(got), Len(chunk))
                 /\ buf = Bytes(Len(got) + Len(chunk), Len(buf))
                 /\ Len(got) + Len(chunk) + Len(buf) = kept
           /\ drain \in {"loop", "notice"} => chunk = <<>>
  <1>1. /\ buf \in Seq(Nat) /\ got \in Seq(Nat) /\ chunk \in Seq(Nat)
        /\ kept \in Nat /\ sent \in Nat
    BY DEF RingInv, RingTypeOK
  <1>2. Len(buf) \in Nat /\ Len(got) \in Nat /\ Len(chunk) \in Nat
    BY <1>1, LenProperties
  <1>3. drain \in {"loop", "writing", "notice"} => ~broken
    BY DEF RingInv, DrainInv
  <1>4. drain \in {"loop", "notice"} => chunk = <<>>
    BY DEF RingInv, DrainInv
  <1>5. got = Bytes(0, Len(got)) /\ kept <= sent
    BY DEF RingInv, Adjacent, Lossless
  <1> QED
    BY <1>1, <1>2, <1>3, <1>4, <1>5 DEF RingInv, Adjacent

\* A delivery extends the run that the client has.
LEMMA DeliverRun ==
    ASSUME RingInv, drain = "writing", NEW n \in 0..Len(chunk)
    PROVE  /\ SubSeq(chunk, 1, n) = Bytes(Len(got), n)
           /\ SubSeq(chunk, n + 1, Len(chunk)) = Bytes(Len(got) + n, Len(chunk) - n)
           /\ got \o Bytes(Len(got), n) = Bytes(0, Len(got) + n)
           /\ got \o Bytes(Len(got), n) \in Seq(Nat)
           /\ Len(got \o Bytes(Len(got), n)) = Len(got) + n
           /\ Len(got) + n <= kept
  <1>1. /\ got \in Seq(Nat) /\ Len(got) \in Nat /\ Len(chunk) \in Nat
        /\ Len(buf) \in Nat /\ kept \in Nat
        /\ got = Bytes(0, Len(got))
        /\ chunk = Bytes(Len(got), Len(chunk))
        /\ Len(got) + Len(chunk) + Len(buf) = kept
    BY RunsInHand
  <1>2. n \in Nat /\ Len(got) + n \in Nat
    BY <1>1
  <1>3. SubSeq(chunk, 1, n) = Bytes(Len(got), n)
    <2>1. SubSeq(Bytes(Len(got), Len(chunk)), 1, n) = Bytes(Len(got), n)
      BY <1>1, BytesPrefix
    <2> QED
      BY <1>1, <2>1
  <1>4. got \o Bytes(Len(got), n) = Bytes(0, Len(got) + n)
    <2>1. Bytes(0, Len(got)) \o Bytes(0 + Len(got), n) = Bytes(0, Len(got) + n)
      <3>1. 0 \in Nat /\ Len(got) \in Nat /\ n \in Nat
        BY <1>1, <1>2
      <3> QED
        BY <3>1, BytesJoin
    <2>2. 0 + Len(got) = Len(got)
      BY <1>1
    <2> QED
      BY <1>1, <2>1, <2>2
  <1>5. /\ Bytes(0, Len(got) + n) \in Seq(Nat)
        /\ Len(Bytes(0, Len(got) + n)) = Len(got) + n
    BY <1>2, BytesType
  <1>6. Len(got) + n <= kept
    <2>1. Len(got) + Len(chunk) + Len(buf) = kept
      BY <1>1
    <2> QED
      BY <2>1, <1>1
  <1>7. SubSeq(chunk, n + 1, Len(chunk)) = Bytes(Len(got) + n, Len(chunk) - n)
    <2>1. SubSeq(Bytes(Len(got), Len(chunk)), n + 1, Len(chunk))
          = Bytes(Len(got) + n, Len(chunk) - n)
      BY <1>1, BytesSuffix
    <2> QED
      BY <1>1, <2>1
  <1> QED
    BY <1>3, <1>4, <1>5, <1>6, <1>7

\* The drain and Close preserve the invariant.
LEMMA DrainStepInv ==
    ASSUME RingInv, DrainStep \/ Close
    PROVE  RingInv'
  <1> USE RingAssumption
  <1> DEFINE Same == UNCHANGED <<maxBytes, backpressure, lagged, sent, kept, producer, need, timer>>
  <1>0. /\ buf \in Seq(Nat) /\ Len(buf) \in Nat
        /\ got \in Seq(Nat) /\ Len(got) \in Nat
        /\ chunk \in Seq(Nat) /\ Len(chunk) \in Nat
        /\ kept \in Nat /\ got = Bytes(0, Len(got))
    BY RunsInHand
  <1>1. <<>> \in Seq(Nat) /\ Len(<<>>) = 0
    BY EmptySeq
  <1>2. CASE DrainSleeps
    <2>1. RingTypeOK' /\ Needed'
      BY <1>2 DEF DrainSleeps, RingInv, RingTypeOK, Needed, writeVars, drainVars, limitVars
    <2>2. Bounded' /\ Adjacent' /\ Lossless' /\ DrainInv'
      BY <1>2 DEF DrainSleeps, RingInv, Bounded, Adjacent, Lossless, DrainInv, drainVars, limitVars
    <2> QED
      BY <2>1, <2>2 DEF RingInv
  <1>3. CASE DrainTakes
    <2>1. /\ drain = "loop" /\ drain' = "writing" /\ buf # <<>>
          /\ chunk' = buf /\ buf' = <<>> /\ asleep' = {}
          /\ Same /\ UNCHANGED <<closed, got, told, broken, moved>>
      BY <1>3 DEF DrainTakes, DrainReady, Broadcast, writeVars, limitVars
    <2>2. /\ ~broken /\ chunk = <<>>
          /\ buf = Bytes(Len(got) + Len(chunk), Len(buf))
          /\ Len(got) + Len(chunk) + Len(buf) = kept
      BY <2>1, RunsInHand
    <2>3. Len(chunk) = 0 /\ Len(got) + Len(chunk) = Len(got)
      BY <1>0, <1>1, <2>2
    <2>4. chunk' = Bytes(Len(got), Len(chunk')) /\ Len(got) + Len(chunk') = kept
      BY <1>0, <2>1, <2>2, <2>3
    <2>5. kept \in Nat /\ Bytes(kept, 0) = <<>>
      BY <1>0, <1>1, BytesNone
    <2>6. Adjacent'
      <3>1. kept + 0 = kept /\ Len(buf') = 0
        BY <1>0, <1>1, <2>1
      <3>2. buf' = Bytes(Len(got) + Len(chunk'), Len(buf'))
        BY <2>1, <2>4, <2>5, <3>1
      <3>3. Len(got) + Len(chunk') + Len(buf') = kept
        BY <2>4, <3>1
      <3> QED
        BY <2>1, <2>4, <3>2, <3>3 DEF Adjacent, RingInv
    <2>7. Bounded'
      <3>1. MaxBytes + Replay \in Nat
        OBVIOUS
      <3> QED
        BY <1>1, <2>1, <3>1 DEF Bounded, RingInv
    <2>8. RingTypeOK' /\ Needed'
      BY <1>1, <2>1 DEF RingInv, RingTypeOK, Needed
    <2>9. Lossless' /\ DrainInv'
      BY <2>1, <2>2 DEF RingInv, Lossless, DrainInv
    <2> QED
      BY <2>6, <2>7, <2>8, <2>9 DEF RingInv
  <1>4. CASE DrainEnds
    <2>1. /\ drain = "loop" /\ closed /\ buf = <<>>
          /\ drain' = IF lagged THEN "notice" ELSE "leaving"
          /\ Same /\ UNCHANGED <<buf, closed, asleep, chunk, got, told, broken, moved>>
      BY <1>4 DEF DrainEnds, DrainReady, writeVars, limitVars
    <2>2. RingTypeOK' /\ Needed'
      BY <2>1 DEF RingInv, RingTypeOK, Needed
    <2>3. Bounded' /\ Adjacent' /\ Lossless'
      BY <2>1 DEF RingInv, Bounded, Adjacent, Lossless
    <2>4. DrainInv'
      BY <2>1 DEF RingInv, DrainInv
    <2> QED
      BY <2>2, <2>3, <2>4 DEF RingInv
  <1>5. CASE DrainWrites
    <2>1. /\ drain = "writing" /\ moved' \in BOOLEAN
          /\ Same /\ UNCHANGED <<buf, closed, asleep, told, broken>>
      BY <1>5 DEF DrainWrites, writeVars, RingInv, RingTypeOK, limitVars
    <2>2. PICK n \in 1..Len(chunk) :
            /\ got' = got \o SubSeq(chunk, 1, n)
            /\ chunk' = SubSeq(chunk, n + 1, Len(chunk))
            /\ drain' = IF n = Len(chunk) THEN "loop" ELSE "writing"
      BY <1>5 DEF DrainWrites
    <2>3. /\ ~broken /\ buf = Bytes(Len(got) + Len(chunk), Len(buf))
          /\ Len(got) + Len(chunk) + Len(buf) = kept
      BY <2>1, RunsInHand
    <2>4. n \in 0..Len(chunk) /\ n \in Nat /\ Len(chunk) - n \in Nat
          /\ Len(got) + n \in Nat
      BY <1>0
    <2>5. /\ got' = Bytes(0, Len(got) + n) /\ got' \in Seq(Nat)
          /\ Len(got') = Len(got) + n /\ Len(got) + n <= kept
          /\ chunk' = Bytes(Len(got) + n, Len(chunk) - n)
      BY <2>1, <2>2, <2>4, DeliverRun
    <2>6. chunk' \in Seq(Nat) /\ Len(chunk') = Len(chunk) - n
      BY <2>4, <2>5, BytesType
    <2>7. Adjacent'
      <3>3. Len(got') = Len(got) + n
        BY <2>5
      <3>4. /\ Len(got) \in Nat /\ Len(chunk) \in Nat /\ n \in Nat
            /\ (Len(got) + n) + (Len(chunk) - n) = Len(got) + Len(chunk)
        BY <1>0, <2>4
      <3>1. Len(got') + Len(chunk') = Len(got) + Len(chunk)
        BY <3>3, <3>4, <2>6
      <3>2. chunk' = Bytes(Len(got'), Len(chunk'))
        BY <2>5, <2>6
      <3> QED
        BY <2>1, <2>3, <2>5, <3>1, <3>2 DEF Adjacent
    <2>8. Bounded' /\ Lossless' /\ Needed'
      BY <2>1 DEF RingInv, Bounded, Lossless, Needed
    <2>9. RingTypeOK'
      BY <2>1, <2>2, <2>5, <2>6 DEF RingInv, RingTypeOK
    <2>10. DrainInv'
      <3>1. n = Len(chunk) <=> chunk' = <<>>
        BY <1>0, <1>1, <2>4, <2>6, EmptySeq
      <3> QED
        BY <2>1, <2>2, <2>3, <3>1 DEF RingInv, DrainInv
    <2> QED
      BY <2>7, <2>8, <2>9, <2>10 DEF RingInv
  <1>6. CASE DrainWriteFails
    <2>1. /\ drain = "writing" /\ drain' = "leaving"
          /\ chunk' = <<>> /\ broken' = TRUE /\ closed' = TRUE /\ asleep' = {}
          /\ Same /\ UNCHANGED <<buf, got, told, moved>>
      BY <1>6 DEF DrainWriteFails, Broadcast, writeVars, limitVars
    <2>2. Adjacent'
      BY <2>1 DEF RingInv, Adjacent
    <2>3. Bounded' /\ Needed'
      BY <2>1 DEF RingInv, Bounded, Needed
    <2>4. RingTypeOK'
      BY <1>1, <2>1 DEF RingInv, RingTypeOK
    <2>5. Lossless' /\ DrainInv'
      BY <2>1 DEF RingInv, Lossless, DrainInv
    <2> QED
      BY <2>2, <2>3, <2>4, <2>5 DEF RingInv
  <1>7. CASE WriteNotice
    <2>1. /\ drain = "notice" /\ drain' = "leaving"
          /\ \/ told' = TRUE /\ UNCHANGED broken
             \/ broken' = TRUE /\ UNCHANGED told
          /\ Same /\ UNCHANGED <<buf, closed, asleep, chunk, got, moved>>
      BY <1>7 DEF WriteNotice, writeVars, limitVars
    <2>2. RingTypeOK' /\ Needed'
      BY <2>1 DEF RingInv, RingTypeOK, Needed
    <2>3. Bounded' /\ Adjacent' /\ Lossless'
      BY <2>1 DEF RingInv, Bounded, Adjacent, Lossless
    <2>4. DrainInv'
      BY <2>1 DEF RingInv, DrainInv
    <2> QED
      BY <2>2, <2>3, <2>4 DEF RingInv
  <1>8. CASE DrainLeaves
    <2>1. /\ drain = "leaving" /\ drain' = "done"
          /\ Same /\ UNCHANGED <<buf, closed, asleep, chunk, got, told, broken, moved>>
      BY <1>8 DEF DrainLeaves, writeVars, limitVars
    <2>2. RingTypeOK' /\ Needed'
      BY <2>1 DEF RingInv, RingTypeOK, Needed
    <2>3. Bounded' /\ Adjacent' /\ Lossless' /\ DrainInv'
      BY <2>1 DEF RingInv, Bounded, Adjacent, Lossless, DrainInv
    <2> QED
      BY <2>2, <2>3 DEF RingInv
  <1>9. CASE Close
    <2>1. /\ ~closed /\ closed' = TRUE /\ asleep' = {}
          /\ Same /\ UNCHANGED <<buf, drain, chunk, got, told, broken, moved>>
      BY <1>9 DEF Close, Broadcast, writeVars, drainVars, limitVars
    <2>2. RingTypeOK' /\ Needed'
      BY <2>1 DEF RingInv, RingTypeOK, Needed
    <2>3. Bounded' /\ Adjacent' /\ Lossless' /\ DrainInv'
      BY <2>1 DEF RingInv, Bounded, Adjacent, Lossless, DrainInv
    <2> QED
      BY <2>2, <2>3 DEF RingInv
  <1> QED
    BY <1>2, <1>3, <1>4, <1>5, <1>6, <1>7, <1>8, <1>9 DEF DrainStep

LEMMA RingInvariant == RingSpec => []RingInv
  <1>1. RingInit => RingInv
    BY RingInitInv
  <1>2. RingInv /\ [RingNext]_ringVars => RingInv'
    <2> SUFFICES ASSUME RingInv, [RingNext]_ringVars
                 PROVE  RingInv'
      OBVIOUS
    <2>1. CASE \/ \E n \in Chunks : Write(n) \/ Park(n)
               \/ Wake \/ StallElapses \/ TimerFires
      BY <2>1, ProducerInv
    <2>2. CASE DrainStep \/ Close
      BY <2>2, DrainStepInv
    <2>3. CASE UNCHANGED ringVars
      BY <2>3 DEF ringVars, writeVars, drainVars, RingInv, RingTypeOK, Bounded,
                  Needed, Adjacent, Lossless, DrainInv, limitVars
    <2> QED
      BY <2>1, <2>2, <2>3 DEF RingNext
  <1> QED
    BY <1>1, <1>2, PTL DEF RingSpec

-----------------------------------------------------------------------------
\* Every variable of the ring keeps its type, and a Write that has returned
\* leaves no timer behind.
THEOREM RingTypeCorrect == RingSpec => []RingTypeOK
  <1>1. RingInv => RingTypeOK
    BY DEF RingInv
  <1> QED
    BY <1>1, RingInvariant, PTL

\* The memory that a slow client costs is bounded, whatever it does.
THEOREM RingIsBounded == RingSpec => []RingBounded
  <1>1. RingInv => RingBounded
    <2>1. RingInv => Len(buf) \in Nat
      BY LenProperties DEF RingInv, RingTypeOK
    <2> QED
      BY <2>1, RingAssumption DEF RingInv, Bounded, RingBounded
  <1> QED
    BY <1>1, RingInvariant, PTL

\* A client whose connection works to the end has all that was kept for it, and
\* was told if more was dropped.
THEOREM NothingLeftBehind == RingSpec => []DrainedInFull
  <1>1. RingInv => DrainedInFull
    <2> SUFFICES ASSUME RingInv, drain = "done", ~broken
                 PROVE  Len(got) = kept /\ told = lagged
      BY DEF DrainedInFull
    <2>1. buf = <<>> /\ (told <=> lagged) /\ chunk = <<>>
      BY DEF RingInv, DrainInv
    <2>2. /\ Len(got) + Len(chunk) + Len(buf) = kept
          /\ told \in BOOLEAN /\ lagged \in BOOLEAN
      BY DEF RingInv, Adjacent, RingTypeOK
    <2>3. Len(got) = kept
      BY <2>1, <2>2, RunsInHand, EmptySeq
    <2>4. told = lagged
      BY <2>1, <2>2
    <2> QED
      BY <2>3, <2>4
  <1> QED
    BY <1>1, RingInvariant, PTL

\* The ring implements the stream: what the client receives is the output from
\* its first byte, in order and without a hole, and the notice of a lag comes
\* after the last byte kept and only if one was dropped.
THEOREM RingImplementsStream == RingSpec => StreamSpec
  <1>0. \A m, n : Stream!Bytes(m, n) = Bytes(m, n)
    BY DEF Stream!Bytes, Bytes
  <1>1. RingInit => Stream!StreamInit
    BY DEF RingInit, Stream!StreamInit
  <1>2. RingInv /\ [RingNext]_ringVars => [Stream!StreamNext]_(Stream!streamVars)
    <2> SUFFICES ASSUME RingInv, [RingNext]_ringVars
                 PROVE  [Stream!StreamNext]_(Stream!streamVars)
      OBVIOUS
    <2> DEFINE Still == UNCHANGED <<sent, kept, got, told>> /\ (drain = "done") = (drain' = "done")
    <2>0. Still => UNCHANGED Stream!streamVars
      BY DEF Stream!streamVars, limitVars
    <2>1. ASSUME NEW n \in Chunks, UNCHANGED drainVars,
                 \/ ~closed /\ Enqueue(n)
                 \/ Discard(n)
                 \/ Overflow(n)
          PROVE  Stream!Emit(n)
      <3>1. /\ UNCHANGED <<got, told, drain>> /\ sent' = sent + n
            /\ kept' = kept \/ (~closed /\ kept' = kept + n)
        BY <2>1 DEF drainVars, Enqueue, Discard, Overflow, limitVars
      <3>2. ~closed => kept = sent
        BY DEF RingInv, Lossless
      <3> QED
        BY <3>1, <3>2 DEF Stream!Emit
    <2>2. CASE \E n \in Chunks : Write(n)
      <3>1. PICK n \in Chunks : Write(n)
        BY <2>2
      <3>2. UNCHANGED drainVars /\ (\/ ~closed /\ Enqueue(n)
                                    \/ Discard(n)
                                    \/ Overflow(n))
        BY <3>1, Zenon DEF Write
      <3>3. Stream!Emit(n)
        BY <3>2, <2>1
      <3> QED
        BY <3>3 DEF Stream!StreamNext
    <2>3. CASE Wake
      <3>1. UNCHANGED drainVars
        BY <2>3 DEF Wake
      <3>2. need \in Chunks
        BY <2>3 DEF Wake, RingInv, Needed
      <3>3. CASE UNCHANGED <<buf, closed, lagged, sent, kept, writeVars>>
        BY <3>1, <3>3, <2>0 DEF drainVars, limitVars
      <3>4. CASE \/ ~closed /\ Enqueue(need)
                 \/ Discard(need)
                 \/ Overflow(need)
        <4>1. Stream!Emit(need)
          BY <3>1, <3>2, <3>4, <2>1
        <4> QED
          BY <3>2, <4>1 DEF Stream!StreamNext
      <3>5. \/ ~closed /\ Enqueue(need)
            \/ Discard(need)
            \/ Overflow(need)
            \/ UNCHANGED <<buf, closed, lagged, sent, kept, writeVars>>
        BY <2>3, Zenon DEF Wake
      <3> QED
        BY <3>3, <3>4, <3>5, Zenon
    <2>4. CASE \/ \E n \in Chunks : Park(n)
               \/ StallElapses \/ TimerFires \/ DrainSleeps \/ DrainTakes
               \/ DrainEnds \/ DrainWriteFails \/ Close
      BY <2>4, <2>0 DEF Park, DrainWriteFails, StallElapses, TimerFires, DrainSleeps, DrainTakes,
                        DrainEnds, DrainReady, Close, drainVars, limitVars
    <2>5. CASE DrainWrites
      <3>1. drain = "writing" /\ UNCHANGED <<sent, kept, told>>
        BY <2>5 DEF DrainWrites
      <3>2. PICK n \in 1..Len(chunk) :
              /\ got' = got \o SubSeq(chunk, 1, n)
              /\ drain' = IF n = Len(chunk) THEN "loop" ELSE "writing"
        BY <2>5 DEF DrainWrites
      <3>3. Len(got) \in Nat /\ Len(chunk) \in Nat /\ kept \in Nat
        BY RunsInHand
      <3>4. n \in 0..Len(chunk)
        BY <3>3
      <3>5. SubSeq(chunk, 1, n) = Bytes(Len(got), n) /\ Len(got) + n <= kept
        BY <3>1, <3>4, DeliverRun
      <3>6. n \in 1..(kept - Len(got))
        BY <3>3, <3>4, <3>5
      <3>7. ~told
        BY <3>1 DEF RingInv, DrainInv
      <3>8. Stream!Deliver(n)
        BY <1>0, <3>1, <3>2, <3>5, <3>7 DEF Stream!Deliver
      <3> QED
        BY <3>6, <3>8 DEF Stream!StreamNext
    <2>7. CASE WriteNotice
      <3>1. /\ drain = "notice" /\ drain' = "leaving"
            /\ told' = TRUE \/ UNCHANGED told
            /\ UNCHANGED <<sent, kept, got>>
        BY <2>7 DEF WriteNotice, writeVars, limitVars
      <3>2. CASE UNCHANGED told
        BY <3>1, <3>2, <2>0
      <3>3. CASE told' = TRUE
        <4>1. /\ ~told /\ buf = <<>> /\ lagged
          BY <3>1 DEF RingInv, DrainInv
        <4>2. /\ chunk = <<>> /\ Len(got) \in Nat
              /\ Len(got) + Len(chunk) + Len(buf) = kept
          BY <3>1, RunsInHand
        <4>3. Len(got) = kept
          BY <4>1, <4>2, EmptySeq
        <4>4. kept < sent
          BY <4>1 DEF RingInv, Lossless
        <4>5. Stream!TellLagged
          BY <3>1, <3>3, <4>1, <4>3, <4>4 DEF Stream!TellLagged
        <4> QED
          BY <4>5 DEF Stream!StreamNext
      <3> QED
        BY <3>1, <3>2, <3>3
    <2>8. CASE DrainLeaves
      <3>1. Stream!Hangup
        BY <2>8 DEF DrainLeaves, writeVars, Stream!Hangup, limitVars
      <3> QED
        BY <3>1 DEF Stream!StreamNext
    <2>9. CASE UNCHANGED ringVars
      BY <2>9, <2>0 DEF ringVars, drainVars, limitVars
    <2> QED
      BY <2>2, <2>3, <2>4, <2>5, <2>7, <2>8, <2>9 DEF RingNext, DrainStep
  <1> QED
    BY <1>1, <1>2, RingInvariant, PTL DEF RingSpec, StreamSpec, Stream!StreamSpec
=============================================================================
