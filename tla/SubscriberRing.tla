--------------------------- MODULE SubscriberRing ---------------------------
(***************************************************************************)
(* subscriberWriter (internal/terminal/terminalrunner/subscriber.go): the  *)
(* bounded queue between the one PTY reader and one client.                *)
(*                                                                         *)
(*   backpressure  an interactive attacher, not a passive observer          *)
(*   producer  the PTY reader inside Write; "parked" in waitForRoom        *)
(*   drain     the goroutine of Run                                        *)
(*   asleep    which of the two are inside cond.Wait                       *)
(*   timer     the deadline of waitForRoom: "passed" is the clock, "fired" *)
(*             the function of time.AfterFunc                              *)
(*   moved     the client has read something within the stall budget       *)
(*                                                                         *)
(* Every step holds mu, except the drain's writes to the connection.       *)
(***************************************************************************)
EXTENDS Naturals, Sequences

CONSTANTS MaxBytes,     \* the bound of the ring, without the replay
          Replay,       \* bytes of the replay seeded before the start
          Chunks,       \* the sizes of one Write
          Output        \* bound of the model: bytes written, replay included

ASSUME RingAssumption ==
    /\ MaxBytes \in Nat /\ Replay \in Nat /\ Output \in Nat
    /\ Chunks \subseteq Nat \ {0}

VARIABLES buf, maxBytes, backpressure, closed, lagged, sent, kept, producer, need,
          timer, drain, asleep, chunk, got, told, broken, moved

writeVars == <<producer, need, timer>>
drainVars == <<drain, chunk, got, told, broken, moved>>
limitVars == <<maxBytes, backpressure>>
ringVars  == <<buf, limitVars, closed, lagged, sent, kept, writeVars,
               drainVars, asleep>>

\* The n bytes after the first m; a byte is the position it has in the output.
Bytes(m, n) == [i \in 1..n |-> m + i]

RingTypeOK ==
    /\ buf \in Seq(Nat) /\ chunk \in Seq(Nat) /\ got \in Seq(Nat)
    /\ maxBytes \in Nat /\ sent \in Nat /\ kept \in Nat /\ need \in Nat
    /\ closed \in BOOLEAN /\ lagged \in BOOLEAN /\ backpressure \in BOOLEAN
    /\ told \in BOOLEAN /\ broken \in BOOLEAN /\ moved \in BOOLEAN
    /\ producer \in {"idle", "parked"}
    /\ timer \in {"off", "armed", "passed", "fired"}
    /\ drain \in {"loop", "writing", "notice", "leaving", "done"}
    /\ asleep \in SUBSET {"producer", "drain"}
    /\ producer = "idle" => timer = "off"

\* newSubscriberWriter, enableBackpressure and seedReplay, before the writer
\* is registered and Run is started; only an attacher has a replay.
RingInit ==
    /\ backpressure \in BOOLEAN
    /\ sent = IF backpressure THEN Replay ELSE 0
    /\ kept = sent /\ buf = Bytes(0, sent) /\ maxBytes = MaxBytes + sent
    /\ closed = FALSE /\ lagged = FALSE
    /\ producer = "idle" /\ need = 0 /\ timer = "off"
    /\ drain = "loop" /\ asleep = {}
    /\ chunk = <<>> /\ got = <<>> /\ told = FALSE /\ broken = FALSE
    /\ moved = FALSE

Broadcast == asleep' = {}
HasRoom(n) == Len(buf) + n <= maxBytes

-----------------------------------------------------------------------------
(***************************************************************************)
(* Write, called by the fan-out with n more bytes.  It always succeeds.    *)
(***************************************************************************)
Return == producer' = "idle" /\ need' = 0 /\ timer' = "off"

\* Mutant: the drain is not woken.
MutEnqueue(n) == /\ buf' = buf \o Bytes(sent, n)
                 /\ sent' = sent + n /\ kept' = kept + n
                 /\ UNCHANGED <<closed, lagged, asleep>>

Enqueue(n) == /\ buf' = buf \o Bytes(sent, n)
              /\ sent' = sent + n /\ kept' = kept + n
              /\ Broadcast
              /\ UNCHANGED <<closed, lagged>>

Discard(n) == sent' = sent + n /\ UNCHANGED <<buf, kept, closed, lagged, asleep>>

\* Mutant: the overflowing bytes are dropped, the ring stays open.
MutOverflow(n) == /\ sent' = sent + n
                  /\ lagged' = TRUE
                  /\ Broadcast
                  /\ UNCHANGED <<buf, kept, closed>>

Overflow(n) == /\ sent' = sent + n
               /\ lagged' = TRUE /\ closed' = TRUE
               /\ Broadcast
               /\ UNCHANGED <<buf, kept>>

Write(n) ==
    /\ producer = "idle" /\ sent + n <= Output
    /\ \/ closed /\ Discard(n)
       \/ ~closed /\ HasRoom(n) /\ Enqueue(n)
       \/ ~closed /\ ~HasRoom(n) /\ ~backpressure /\ Overflow(n)
    /\ UNCHANGED <<limitVars, writeVars, drainVars>>

\* waitForRoom: the timer is started, then cond.Wait.
Park(n) ==
    /\ producer = "idle" /\ sent + n <= Output
    /\ ~closed /\ ~HasRoom(n) /\ backpressure
    /\ producer' = "parked" /\ need' = n /\ timer' = "armed"
    /\ asleep' = asleep \cup {"producer"} /\ moved' = FALSE
    /\ UNCHANGED <<buf, limitVars, closed, lagged, sent, kept, drain, chunk, got,
                   told, broken>>

\* The loop of waitForRoom after a wake-up, and the rest of Write.
Wake ==
    /\ producer = "parked" /\ "producer" \notin asleep
    /\ \/ closed /\ Discard(need) /\ Return
       \/ ~closed /\ HasRoom(need) /\ Enqueue(need) /\ Return
       \/ ~closed /\ ~HasRoom(need) /\ timer # "armed" /\ Overflow(need) /\ Return
       \/ /\ ~closed /\ ~HasRoom(need) /\ timer = "armed"
          /\ asleep' = asleep \cup {"producer"}
          /\ UNCHANGED <<buf, closed, lagged, sent, kept, writeVars>>
    /\ UNCHANGED <<limitVars, drainVars>>

StallElapses ==
    /\ timer = "armed" /\ timer' = "passed"
    /\ UNCHANGED <<buf, limitVars, closed, lagged, sent, kept, producer, need,
                   drainVars, asleep>>

\* Mutant: the timer does not wake the producer.
MutTimerFires ==
    /\ timer = "passed" /\ timer' = "fired"
    /\ UNCHANGED <<buf, limitVars, closed, lagged, sent, kept, producer, need,
                   drainVars, asleep>>

TimerFires ==
    /\ timer = "passed" /\ timer' = "fired"
    /\ Broadcast
    /\ UNCHANGED <<buf, limitVars, closed, lagged, sent, kept, producer, need,
                   drainVars>>

-----------------------------------------------------------------------------
(***************************************************************************)
(* Run, the drain.                                                         *)
(***************************************************************************)
DrainReady == drain = "loop" /\ "drain" \notin asleep

DrainSleeps ==
    /\ DrainReady /\ buf = <<>> /\ ~closed
    /\ asleep' = asleep \cup {"drain"}
    /\ UNCHANGED <<buf, limitVars, closed, lagged, sent, kept, writeVars, drainVars>>

\* The whole ring at once, even if it was closed meanwhile.
DrainTakes ==
    /\ DrainReady /\ buf # <<>>
    /\ drain' = "writing" /\ chunk' = buf /\ buf' = <<>>
    /\ Broadcast
    /\ UNCHANGED <<limitVars, closed, lagged, sent, kept, writeVars, got, told,
                   broken, moved>>

\* Mutant: a lagged ring is left without its last bytes.
MutDrainEnds ==
    /\ DrainReady /\ closed /\ (buf = <<>> \/ lagged)
    /\ drain' = IF lagged THEN "notice" ELSE "leaving"
    /\ UNCHANGED <<buf, limitVars, closed, lagged, sent, kept, writeVars, asleep,
                   chunk, got, told, broken, moved>>

DrainEnds ==
    /\ DrainReady /\ buf = <<>> /\ closed
    /\ drain' = IF lagged THEN "notice" ELSE "leaving"
    /\ UNCHANGED <<buf, limitVars, closed, lagged, sent, kept, writeVars, asleep,
                   chunk, got, told, broken, moved>>

\* conn.Write returns when the whole chunk is written: a slow client takes it
\* piece by piece.
DrainWrites ==
    /\ drain = "writing"
    /\ \E n \in 1..Len(chunk) :
         /\ got' = got \o SubSeq(chunk, 1, n)
         /\ chunk' = SubSeq(chunk, n + 1, Len(chunk))
         /\ drain' = IF n = Len(chunk) THEN "loop" ELSE "writing"
    /\ moved' = (moved \/ timer = "armed")
    /\ UNCHANGED <<buf, limitVars, closed, lagged, sent, kept, writeVars, asleep,
                   told, broken>>

\* The peer is gone, or did not take the chunk before the write deadline.
DrainWriteFails ==
    /\ drain = "writing" /\ drain' = "leaving"
    /\ chunk' = <<>> /\ broken' = TRUE /\ closed' = TRUE
    /\ Broadcast
    /\ UNCHANGED <<buf, limitVars, lagged, sent, kept, writeVars, got, told, moved>>

WriteNotice ==
    /\ drain = "notice" /\ drain' = "leaving"
    /\ \/ told' = TRUE /\ UNCHANGED broken
       \/ broken' = TRUE /\ UNCHANGED told
    /\ UNCHANGED <<buf, limitVars, closed, lagged, sent, kept, writeVars, asleep,
                   chunk, got, moved>>

\* onDetach and conn.Close.
DrainLeaves ==
    /\ drain = "leaving" /\ drain' = "done"
    /\ UNCHANGED <<buf, limitVars, closed, lagged, sent, kept, writeVars, asleep,
                   chunk, got, told, broken, moved>>

DrainStep == \/ DrainSleeps \/ DrainTakes \/ DrainEnds \/ DrainWrites
             \/ DrainWriteFails \/ WriteNotice \/ DrainLeaves

\* Close, from the detach of a client or the end of the terminal.
Close ==
    /\ ~closed /\ closed' = TRUE
    /\ Broadcast
    /\ UNCHANGED <<buf, limitVars, lagged, sent, kept, writeVars, drainVars>>

RingNext == \/ \E n \in Chunks : Write(n) \/ Park(n)
            \/ Wake \/ StallElapses \/ TimerFires \/ DrainStep \/ Close

RingSpec == RingInit /\ [][RingNext]_ringVars

\* A woken producer gets mu, and timers fire.  Nothing is assumed of the
\* drain, which a client that does not read holds in conn.Write.
ProducerFairness == /\ WF_ringVars(Wake)
                    /\ WF_ringVars(StallElapses) /\ WF_ringVars(TimerFires)

StuckDrainSpec == RingSpec /\ ProducerFairness

\* The write deadline bounds every write of the drain, so Run goes on.
DrainServed == WF_ringVars(DrainStep)

-----------------------------------------------------------------------------
\* A slow client costs at most the bound of its ring: the replay and MaxBytes.
RingBounded == Len(buf) <= MaxBytes + Replay

\* The client sees the output in order and without a hole up to some byte, and
\* is told that it lagged only after the last byte it will ever get.
Stream == INSTANCE OutputStream WITH over <- drain = "done"
StreamSpec == Stream!StreamSpec

\* When the drain ends on a working connection the client has everything that
\* was taken for it, and knows it if more was dropped because it was too slow.
DrainedInFull ==
    drain = "done" /\ ~broken => Len(got) = kept /\ told = lagged

\* A client that does not read holds the PTY reader, and with it every other
\* client and the capture, for at most the stall budget (#217).
ProducerFreed == (producer = "parked") ~> (producer = "idle")

\* An interactive client that the drain is writing to is dropped only if it reads
\* nothing for the whole stall budget: a slow one paces the terminal.
OnlyStuckDropped ==
    [][lagged' /\ ~lagged /\ drain = "writing" => ~moved]_ringVars

\* Bytes in the ring reach the client, or its connection is broken; and the
\* drain goroutine ends after a Close, an overflow or a failed write: no
\* wake-up of the one condition variable is lost.
NoLostWakeUp ==
    DrainServed =>
        /\ \A n \in 1..Output : (kept >= n) ~> (Len(got) >= n \/ broken)
        /\ closed ~> (drain = "done")
=============================================================================
