---------------------------- MODULE OutputStream ----------------------------
(***************************************************************************)
(* What one client is promised of the terminal's output: the bytes 1, 2,   *)
(* ... in order and without a hole, from the first to some last one.  The  *)
(* stream may be cut; if it is, the client may be told so after the last   *)
(* byte, and it is never told so otherwise.                                *)
(***************************************************************************)
EXTENDS Naturals, Sequences

CONSTANTS Replay, \* bytes in the stream when a client with a replay joins
          Chunks  \* the sizes of one write of the terminal

VARIABLES sent, \* bytes the terminal has written, the replay included
          kept, \* bytes that will reach the client unless it goes away
          got,  \* what the client has received
          told, \* the client was told that it lagged
          over  \* the connection is closed

streamVars == <<sent, kept, got, told, over>>

\* The n bytes after the first m.
Bytes(m, n) == [i \in 1..n |-> m + i]

StreamInit == sent \in {0, Replay} /\ kept = sent /\ got = <<>> /\ told = FALSE /\ over = FALSE

\* A write is kept only if no earlier one was lost.
Emit(n) == /\ sent' = sent + n
           /\ kept' = kept \/ (kept = sent /\ kept' = kept + n)
           /\ UNCHANGED <<got, told, over>>

\* A delivery may be the last one: the connection breaks in the middle of it.
Deliver(n) == /\ ~told /\ ~over /\ Len(got) + n <= kept
              /\ got' = got \o Bytes(Len(got), n)
              /\ UNCHANGED <<sent, kept, told, over>>

TellLagged == /\ ~told /\ Len(got) = kept /\ kept < sent
              /\ told' = TRUE
              /\ UNCHANGED <<sent, kept, got, over>>

Hangup == ~over /\ over' = TRUE /\ UNCHANGED <<sent, kept, got, told>>

StreamNext == \/ \E n \in Chunks : Emit(n)
              \/ \E n \in 1..(kept - Len(got)) : Deliver(n)
              \/ TellLagged \/ Hangup

StreamSpec == StreamInit /\ [][StreamNext]_streamVars
=============================================================================
