---------------------------- MODULE ClientSession ----------------------------
(***************************************************************************)
(* An interactive client: the controller's Run loop and Close of           *)
(* internal/client, the runner's attach, detach and terminal restore of    *)
(* clientrunner, its two copiers and their manager, the process-wide stdin *)
(* pump, and the caller that waits for them (pkg/attach.Run or runClient). *)
(*                                                                         *)
(* A program runs its sessions one after the other over one tty and one    *)
(* pump.  Input is a sequence of chunks, numbered as the pump reads them;  *)
(* a chunk in Keys holds the detach keystroke.  The terminal at the other  *)
(* end is a peer that may answer, fail or hang up at any time.             *)
(***************************************************************************)
EXTENDS Integers, Sequences

CONSTANTS Plans,      \* the programs: each the modes of its sessions
          Chunks,     \* how many chunks the user types, then end of file
          Keys,       \* the chunks that hold ^]^]
          MaxEvents,  \* capacity of the controller's event channel
          MaxTrouble  \* bound: stops, cancels, hang-ups, exits, failures, stalls

ASSUME SessionAssumption ==
    /\ Plans \subseteq Seq({"attach", "new"}) /\ << >> \notin Plans
    /\ Chunks \in Nat /\ Keys \subseteq 1 .. Chunks
    /\ MaxEvents \in Nat \ {0} /\ MaxTrouble \in Nat

VARIABLES plan, cur,  \* the program, and the session it is in
          ses,        \* the current session
          in,         \* per session, its stdin->socket copier
          tty,        \* the mode of the parent terminal
          late,       \* history: a restore came before raw mode was published
          cut,        \* history: a restore left a copier that was still reading
          typed,      \* chunks the pump has read from the descriptor
          held,       \* what the pump offers on its channel, 0 for nothing
          leftover,   \* chunks stashed for the next reader
          eof,        \* the pump's sticky error
          handed,     \* what it has handed out: <<session, chunk>>
          trouble     \* how much has gone wrong or been asked from outside

pump == <<typed, held, leftover, eof, handed>>
sessionVars == <<plan, cur, ses, in, tty, late, cut, pump, trouble>>

EndOfInput == Chunks + 1

Fresh ==
    [pc |-> "new", caller |-> "wait", ready |-> FALSE, clean |-> FALSE,
     parent |-> FALSE, cancelled |-> FALSE, peer |-> "none",
     out |-> "unborn", manager |-> "unborn", events |-> << >>,
     once |-> "no", saved |-> "none", closer |-> "none", closed |-> FALSE,
     asked |-> FALSE, remote |-> "no", stop |-> FALSE, child |-> "none",
     mute |-> FALSE, stalled |-> FALSE]

SessionInit ==
    /\ plan \in Plans /\ cur = 1 /\ ses = Fresh
    /\ in = [s \in DOMAIN plan |-> "unborn"]
    /\ tty = "cooked" /\ late = FALSE /\ cut = FALSE
    /\ typed = 0 /\ held = 0 /\ leftover = << >> /\ eof = FALSE
    /\ handed = << >> /\ trouble = 0

Mode == plan[cur]
Alive == ses.pc # "panic"
Sent(e) == IF Len(ses.events) < MaxEvents THEN Append(ses.events, e)
           ELSE ses.events

Only(s) == /\ Alive /\ ses' = s
           /\ UNCHANGED <<plan, cur, in, tty, late, cut, pump, trouble>>
Trouble(s) == /\ Alive /\ trouble < MaxTrouble /\ trouble' = trouble + 1
              /\ ses' = s /\ UNCHANGED <<plan, cur, in, tty, late, cut, pump>>

(* The runner's context of a session, and the group context of its copiers. *)
Cancelled(s) == s < cur \/ ses.cancelled
GroupDone(s) == Cancelled(s) \/ in[s] = "gone" \/ ses.out = "gone"
Deadline(s) == s < cur \/ ses.manager = "done"
PeerGone(s) == s < cur \/ ses.peer = "closed"

-----------------------------------------------------------------------------
(* The stdin pump and the copier that reads it.                            *)

PumpReads ==
    /\ Alive /\ held = 0 /\ typed <= Chunks /\ \E s \in DOMAIN in : in[s] # "unborn"
    /\ typed' = typed + 1 /\ held' = typed'
    /\ UNCHANGED <<plan, cur, ses, in, tty, late, cut, leftover, eof, handed, trouble>>

CopierTo(s, st) == Alive /\ in' = [in EXCEPT ![s] = st]
Hand(s, c) == CopierTo(s, "got") /\ handed' = Append(handed, <<s, c>>)
PumpDone(s) == Cancelled(s)          \* the ctx of this session's pumpReader

InCheck(s) ==
    /\ in[s] = "check"
    /\ CopierTo(s, IF GroupDone(s) THEN "gone" ELSE "read")
    /\ UNCHANGED <<plan, cur, ses, tty, late, cut, pump, trouble>>

MutStashed == leftover # << >> /\ eof    \* mutant: the channel comes first
Stashed == leftover # << >>

InReads(s) ==
    /\ in[s] = "read"
    /\ IF Stashed
         THEN Hand(s, Head(leftover)) /\ leftover' = Tail(leftover)
         ELSE CopierTo(s, IF eof \/ PumpDone(s) THEN "gone" ELSE "parked")
              /\ UNCHANGED <<leftover, handed>>
    /\ UNCHANGED <<plan, cur, ses, tty, late, cut, typed, held, eof, trouble>>

InCancelled(s) ==
    /\ in[s] = "parked" /\ PumpDone(s)
    /\ CopierTo(s, "gone")
    /\ UNCHANGED <<plan, cur, ses, tty, late, cut, pump, trouble>>

MutStash(c) == leftover                           \* mutant: drops it
Stash(c) == Append(leftover, c)

InReceives(s) ==
    /\ in[s] = "parked" /\ held # 0
    /\ held' = 0
    /\ CASE held = EndOfInput ->
                eof' = TRUE /\ CopierTo(s, "gone")
                /\ UNCHANGED <<leftover, handed>>
         [] held # EndOfInput /\ PumpDone(s) ->
                leftover' = Stash(held) /\ CopierTo(s, "gone")
                /\ UNCHANGED <<eof, handed>>
         [] OTHER -> Hand(s, held) /\ UNCHANGED <<leftover, eof>>
    /\ UNCHANGED <<plan, cur, ses, tty, late, cut, typed, trouble>>

(* The escape filter sees the chunk, and reports ^]^] before it is written. *)
ChunkOf(s) == LET own == SelectSeq(handed, LAMBDA h : h[1] = s)
              IN own[Len(own)][2]
InFilters(s) ==
    /\ in[s] = "got"
    /\ CopierTo(s, "write")
    /\ ses' = IF s = cur /\ ChunkOf(s) \in Keys
                THEN [ses EXCEPT !.events = Sent("detach")] ELSE ses
    /\ UNCHANGED <<plan, cur, tty, late, cut, pump, trouble>>

InWrites(s) ==
    /\ in[s] = "write" /\ ~PeerGone(s) /\ ~Deadline(s)
    /\ CopierTo(s, "check")
    /\ UNCHANGED <<plan, cur, ses, tty, late, cut, pump, trouble>>

InWriteFails(s) ==
    /\ in[s] = "write" /\ (PeerGone(s) \/ Deadline(s))
    /\ CopierTo(s, "gone")
    /\ UNCHANGED <<plan, cur, ses, tty, late, cut, pump, trouble>>

InStep(s) == \/ InCheck(s) \/ InReads(s) \/ InCancelled(s) \/ InReceives(s)
             \/ InFilters(s) \/ InWriteFails(s)

-----------------------------------------------------------------------------
(* The socket->stdout copier and the manager of the two.                   *)

(* The user's terminal may take no output for as long as it likes (^S); a  *)
(* copier with output for it is stuck until it does, deadline or not.      *)
Stalls  == ~ses.stalled /\ Trouble([ses EXCEPT !.stalled = TRUE])
Resumes == /\ ses.stalled
           /\ Only([ses EXCEPT !.stalled = FALSE,
                               !.out = IF @ = "stuck" THEN "run" ELSE @])
OutSticks == /\ ses.out = "run" /\ ses.stalled
             /\ Only([ses EXCEPT !.out = "stuck"])
OutEnds ==
    /\ ses.out = "run" /\ (PeerGone(cur) \/ Deadline(cur))
    /\ Only([ses EXCEPT !.out = "gone"])

CopiersGone == in[cur] = "gone" /\ ses.out = "gone"

(* Its select sees the cancelled context first, unless both copiers are    *)
(* gone when it first looks: then either arm may be taken.                 *)
ManagerLooks ==
    /\ ses.manager = "look"
    /\ \/ ~GroupDone(cur) /\ Only([ses EXCEPT !.manager = "parked"])
       \/ CopiersGone /\ Only([ses EXCEPT !.manager = "missed"])
ManagerFires ==
    /\ ses.manager \in {"look", "parked"} /\ GroupDone(cur)
    /\ Only([ses EXCEPT !.manager = "done", !.events = Sent("error")])

-----------------------------------------------------------------------------
(* The restore of the parent terminal, which runs once.                    *)

RestoreBegun(s) == IF s.once = "no"
                     THEN [s EXCEPT !.once = "wait", !.cancelled = TRUE]
                     ELSE s

(* The wait for the copiers ends with them or after 500 ms: at any time,   *)
(* then.  That a cancelled copier is still reading by then is trouble, and *)
(* bounded as such.                                                        *)
MutStillReading == FALSE                          \* mutant: no wait
StillReading == in[cur] \in {"read", "parked"}

RestoreWaits ==
    /\ ses.once = "wait"
    /\ \/ ~StillReading /\ Only([ses EXCEPT !.once = "write"])
       \/ /\ Alive /\ StillReading /\ cut' = TRUE
          /\ trouble < MaxTrouble /\ trouble' = trouble + 1
          /\ ses' = [ses EXCEPT !.once = "write"]
          /\ UNCHANGED <<plan, cur, in, tty, late, pump>>

LastTermState == IF ses.pc = "publish" THEN "none" ELSE ses.saved

(* It writes to stdout first, which blocks while stdout does.              *)
RestoreWrites ==
    /\ Alive /\ ses.once = "write" /\ ~ses.stalled
    /\ tty' = IF LastTermState = "none" THEN tty ELSE LastTermState
    /\ late' = (late \/ ses.pc = "publish")
    /\ ses' = [ses EXCEPT !.once = "done"]
    /\ UNCHANGED <<plan, cur, in, cut, pump, trouble>>

-----------------------------------------------------------------------------
(* Controller.Close: one closer gets through, the others return at once.   *)

Closing(s, who) == IF s.closer = "none"
                     THEN [s EXCEPT !.closer = who, !.cancelled = TRUE]
                     ELSE s
CloseReturned(who) == ses.closer # "none" /\ (ses.closer = who => ses.closed)

CloseRestores ==
    /\ ses.closer # "none" /\ ses.once = "no"
    /\ Only(RestoreBegun(ses))
CloseEnds ==
    /\ ses.closer # "none" /\ ses.once = "done" /\ ~ses.closed
    /\ Only([ses EXCEPT !.closed = TRUE])

Serving == ses.pc \notin {"new", "metadata", "socket", "serve", "returned"}
StopRPC == /\ Serving /\ ~ses.stop
           /\ Trouble([ses EXCEPT !.stop = TRUE])
StopCloses == /\ ses.stop /\ ses.closer = "none"
              /\ Only(Closing(ses, "stop"))

(* Controller.Detach, which the loop or the client's control socket calls: *)
(* the runner restores the terminal whether the terminal answers or not.   *)
MutAfterDetach(answered) == IF answered THEN "restore" ELSE "done" \* mutant
AfterDetach(answered) == "restore"

RemoteDetach ==
    /\ Serving /\ ses.remote = "no"
    /\ Trouble(IF ses.pc \in {"target", "spawn"}  \* no terminalClient yet
                 THEN [ses EXCEPT !.pc = "panic"]
                 ELSE [ses EXCEPT !.asked = TRUE, !.remote = "call"])
RemoteAnswered ==
    /\ ses.remote = "call"
    /\ \E answered \in BOOLEAN, peer \in {ses.peer, "closed"} :
         Only([ses EXCEPT !.remote = AfterDetach(answered), !.peer = peer])
RemoteRestores ==
    /\ ses.remote = "restore"
    /\ Only(IF ses.once = "done" THEN [ses EXCEPT !.remote = "done"]
            ELSE RestoreBegun(ses))
    /\ ses.once \in {"no", "done"}

-----------------------------------------------------------------------------
(* Controller.Run.                                                         *)

To(p) == Only([ses EXCEPT !.pc = p])
Failed == [ses EXCEPT !.pc = "close", !.clean = ses.cancelled]
Fails == IF ses.cancelled THEN Only(Failed) ELSE Trouble(Failed)

RunnerMade == ses.pc = "new" /\ To("metadata")
CreateMetadata ==
    /\ ses.pc = "metadata"
    /\ To("socket") \/ Trouble([Failed EXCEPT !.mute = TRUE])
OpenSocketCtrl == ses.pc = "socket" /\ (To("serve") \/ Fails)
StartServer == ses.pc = "serve" /\ (Fails \/ (~ses.cancelled /\ To("target")))
Target == /\ ses.pc = "target"
          /\ Fails \/ To(IF Mode = "new" THEN "spawn" ELSE "dial")
StartTerminalCmd ==
    /\ ses.pc = "spawn"
    /\ Fails \/ Only([ses EXCEPT !.pc = "dial", !.child = "up"])
Dial == ses.pc = "dial" /\ (Fails \/ (~ses.cancelled /\ To("attach")))
Attach == /\ ses.pc = "attach"
          /\ \/ ~ses.cancelled
                /\ Only([ses EXCEPT !.pc = "resize", !.peer = "open"])
             \/ Fails
Resize == ses.pc = "resize" /\ (Fails \/ (~ses.cancelled /\ To("raw")))
(* MakeRaw; what it returns is the runner's lastTermState one step later.  *)
RawMode ==
    /\ ses.pc = "raw"
    /\ \/ Trouble([ses EXCEPT !.pc = "wire"])
       \/ /\ Alive /\ tty' = "raw" /\ late' = (late \/ ses.once = "done")
          /\ ses' = [ses EXCEPT !.pc = "publish", !.saved = tty]
          /\ UNCHANGED <<plan, cur, in, cut, pump, trouble>>
Publish == ses.pc = "publish" /\ To("wire")
WireInput ==
    /\ ses.pc = "wire" /\ ses' = [ses EXCEPT !.pc = "help"]
    /\ CopierTo(cur, "check")
    /\ UNCHANGED <<plan, cur, tty, late, cut, pump, trouble>>
Help == ses.pc = "help" /\ ~ses.stalled /\ To("wireOutput")
WireOutput ==
    /\ ses.pc = "wireOutput"
    /\ Only([ses EXCEPT !.pc = "ready", !.out = "run", !.manager = "look"])
WaitReady ==
    /\ ses.pc = "ready"
    /\ \/ ~ses.cancelled /\ Only([ses EXCEPT !.pc = "loop", !.ready = TRUE])
       \/ Fails

LoopEvent ==
    /\ ses.pc = "loop" /\ ses.events # << >>
    /\ LET s == [ses EXCEPT !.events = Tail(@)]
       IN Only(IF Head(ses.events) = "detach"
                 THEN [s EXCEPT !.pc = "detach", !.asked = TRUE]
                 ELSE [s EXCEPT !.pc = "closeEvent"])
LoopCloseRequest == ses.pc = "loop" /\ ses.closed /\ To("returned")
LoopCancelled == ses.pc = "loop" /\ ses.parent /\ Only(Failed)
LoopServerGone == ses.pc = "loop" /\ Trouble([ses EXCEPT !.pc = "close"])

Detach == /\ ses.pc = "detach"
          /\ \E answered \in BOOLEAN, peer \in {ses.peer, "closed"} :
               Only([ses EXCEPT !.peer = peer,
                     !.pc = IF AfterDetach(answered) = "restore"
                              THEN "restore" ELSE "loop"])
DetachRestores ==
    /\ ses.pc = "restore" /\ ses.once \in {"no", "done"}
    /\ IF ses.once = "done" THEN To("loop") ELSE Only(RestoreBegun(ses))

RunCloses == /\ ses.pc \in {"close", "closeEvent"} /\ ses.closer = "none"
             /\ Only(Closing(ses, "run"))
RunClosed ==
    /\ ses.pc \in {"close", "closeEvent"} /\ CloseReturned("run")
    /\ IF ses.pc = "closeEvent" THEN To("loop")
       ELSE Only([ses EXCEPT !.pc = "returned", !.ready = ~ses.mute])

RunStep == \/ RunnerMade \/ CreateMetadata \/ OpenSocketCtrl \/ StartServer
           \/ Target \/ StartTerminalCmd \/ Dial \/ Resize \/ RawMode
           \/ Publish \/ WireInput \/ Help \/ WireOutput \/ WaitReady
           \/ LoopEvent \/ LoopCloseRequest \/ LoopCancelled \/ Detach
           \/ DetachRestores \/ RunCloses \/ RunClosed

-----------------------------------------------------------------------------
(* The caller: pkg/attach.Run for "attach", runClient for "new".           *)

MutAfterCancel(m) == IF m = "attach" THEN "close" ELSE "returned" \* mutant
AfterCancel(m) == IF m = "attach" THEN "close" ELSE "waitClosed"

(* WaitReady, then the wait for Run or the context; that a caller whose    *)
(* context is cancelled when Run is ready takes either is part of it.      *)
CallerNotReady ==
    /\ ses.caller = "wait" /\ ses.parent
    /\ Only([ses EXCEPT !.caller = AfterCancel(Mode)])
CallerDrains ==
    /\ ses.caller = "wait" /\ ses.ready
    /\ \/ ses.parent
          /\ Only([ses EXCEPT !.caller = IF Mode = "attach" THEN "closeDrain"
                                         ELSE "waitClosed"])
       \/ ses.pc = "returned"
          /\ Only([ses EXCEPT !.caller =
                     IF Mode = "new" /\ ses.clean THEN "returned"
                     ELSE "waitClosed"])
CallerCloses ==
    /\ ses.caller \in {"close", "closeDrain"} /\ ses.closer = "none"
    /\ Only(IF ses.pc = "new" THEN [ses EXCEPT !.pc = "panic"]
            ELSE Closing(ses, "caller"))
CallerClosed ==
    /\ ses.caller \in {"close", "closeDrain"} /\ CloseReturned("caller")
    /\ Only([ses EXCEPT !.caller = IF @ = "close" THEN "waitRun"
                                   ELSE "waitBoth"])
CallerReturns ==
    /\ \/ ses.caller = "waitRun" /\ ses.pc = "returned"
       \/ ses.caller = "waitClosed" /\ ses.closed
       \/ ses.caller = "waitBoth" /\ ses.closed /\ ses.pc = "returned"
    /\ Only([ses EXCEPT !.caller = "returned"])

(* The next session, when nothing of the last one's close is left running. *)
NextSession ==
    /\ ses.caller = "returned" /\ cur < Len(plan)
    /\ ses.pc = "returned" /\ ses.closed /\ ses.remote # "restore"
    /\ cur' = cur + 1 /\ ses' = [Fresh EXCEPT !.stalled = ses.stalled]
    /\ UNCHANGED <<plan, in, tty, late, cut, pump, trouble>>

-----------------------------------------------------------------------------
ParentCancelled == /\ ~ses.parent /\ ses.caller # "returned"
                   /\ Trouble([ses EXCEPT !.parent = TRUE, !.cancelled = TRUE])
PeerCloses == ses.peer = "open" /\ Trouble([ses EXCEPT !.peer = "closed"])
ChildExits == /\ ses.child = "up"
              /\ Trouble([ses EXCEPT !.child = "exited",
                                     !.events = Sent("exited"),
                                     !.peer = IF @ = "open" THEN "closed" ELSE @])

CloseStep == \/ CloseRestores \/ CloseEnds \/ StopCloses \/ RestoreWaits
             \/ RestoreWrites \/ RemoteAnswered \/ RemoteRestores
CopierStep == OutEnds \/ ManagerLooks \/ ManagerFires
CallerStep == CallerNotReady \/ CallerDrains \/ CallerCloses \/ CallerClosed
              \/ CallerReturns
EnvStep == \/ PumpReads \/ Stalls \/ Resumes \/ OutSticks \/ StopRPC
           \/ RemoteDetach \/ ParentCancelled \/ PeerCloses \/ ChildExits

SessionNext ==
    \/ RunStep \/ Attach \/ LoopServerGone
    \/ CloseStep \/ CopierStep \/ CallerStep \/ NextSession \/ EnvStep
    \/ \E s \in DOMAIN in : InStep(s) \/ InWrites(s)

SessionSpec == SessionInit /\ [][SessionNext]_sessionVars

(* Go runs what can run: weaker than fairness of every goroutine, and      *)
(* enough, as nothing here repeats for ever.  Nothing is assumed of the    *)
(* user, of stdout, or of the terminal, which may never answer an attach   *)
(* and never read what the copier writes; the RPCs of the ping, the        *)
(* resize, the readiness and the detach have deadlines.                    *)
Runnable == \/ RunStep \/ CloseStep \/ CallerStep \/ CopierStep
            \/ ses.cancelled /\ Attach
            \/ \E s \in DOMAIN in : InStep(s)

SessionFairSpec == SessionSpec /\ WF_sessionVars(Runnable)

-----------------------------------------------------------------------------
(* stdin_pump.go: "a byte the pump has already pulled off the descriptor   *)
(* but not yet handed to a consumer is buffered and delivered to the next  *)
(* consumer".  What was handed out, stashed and held is what was typed, in *)
(* order, whatever session got it, unless a copier that was still reading  *)
(* has been left behind: two then read at once.                            *)
InputInOrder ==
    LET items == [i \in DOMAIN handed |-> handed[i][2]] \o leftover
                 \o (IF held = 0 THEN << >> ELSE <<held>>)
                 \o (IF eof THEN <<EndOfInput>> ELSE << >>)
    IN cut \/ items = [i \in 1 .. typed |-> i]

(* A closed session gets no more input: what is typed then is for the next *)
(* session, or for the shell, with the same exception.                     *)
InputToLiveSession ==
    [][\A i \in DOMAIN handed' \ DOMAIN handed :
         cut \/ (handed'[i][1] = cur /\ ~ses.closed)]_sessionVars

(* The caller gets its terminal back as it was, unless the only restore    *)
(* came before raw mode was set and published, or a Stop's Close is still  *)
(* at it.                                                                  *)
TtyRestored ==
    (ses.caller = "returned" /\ Alive) =>
        \/ tty = "cooked" \/ late
        \/ ses.closer = "stop" /\ ~ses.closed

(* A detach, a stop, a cancelled context, the end of the connection and a  *)
(* failed start each bring the caller back, or end the program (a Close or *)
(* a detach that comes before there is a runner or a terminal).  What they *)
(* cannot bring back is a stdout that is stalled for good, on which the    *)
(* teardown blocks, a Run that never says it is ready (see                 *)
(* CallerGetsError) and a manager that found both copiers gone at its      *)
(* first look.                                                             *)
Ended == \/ ses.asked \/ ses.stop \/ ses.parent \/ ses.pc = "returned"
         \/ ses.peer = "closed"
Excused == \/ ~Alive \/ ses.mute \/ ses.stalled \/ ses.manager = "missed"
SessionEnds == []<>(Ended => ses.caller = "returned" \/ Excused)

(* attach.go: Run returns any unrecoverable error of the controller.  A    *)
(* Run that has returned lets its caller return.                           *)
CallerGetsError ==
    (ses.pc = "returned") ~> (ses.caller = "returned")

=============================================================================
