------------------------ MODULE ClientSessionProofs ------------------------
(***************************************************************************)
(* Proofs about ClientSession: the user's input is handed out in order and *)
(* only to the session that is on, and the caller gets its terminal back.  *)
(***************************************************************************)
EXTENDS ClientSession, TLAPS

-----------------------------------------------------------------------------
(* The inductive invariant.                                                *)

RunSteps == {"new", "metadata", "socket", "serve", "target", "spawn", "dial",
             "attach", "resize", "raw", "publish", "wire", "help",
             "wireOutput", "ready", "loop", "detach", "restore", "close",
             "closeEvent", "returned", "panic"}
Events == {"detach", "error", "exited"}

SesType ==
    [pc : RunSteps,
     caller : {"wait", "close", "closeDrain", "waitRun", "waitBoth",
               "waitClosed", "returned"},
     ready : BOOLEAN, clean : BOOLEAN, parent : BOOLEAN, cancelled : BOOLEAN,
     peer : {"none", "open", "closed"},
     out : {"unborn", "run", "stuck", "gone"},
     manager : {"unborn", "look", "parked", "missed", "done"},
     events : Seq(Events),
     once : {"no", "wait", "write", "done"},
     saved : {"none", "cooked", "raw"},
     closer : {"none", "stop", "run", "caller"}, closed : BOOLEAN,
     asked : BOOLEAN, remote : {"no", "call", "restore", "done"},
     stop : BOOLEAN, child : {"none", "up", "exited"}, mute : BOOLEAN,
     stalled : BOOLEAN]

SessionTypes ==
    /\ plan \in Plans /\ cur \in DOMAIN plan /\ ses \in SesType
    /\ in \in [DOMAIN plan -> {"unborn", "check", "read", "parked", "got",
                               "write", "gone"}]
    /\ tty \in {"cooked", "raw"} /\ late \in BOOLEAN /\ cut \in BOOLEAN

(* A copier that is not reading from the pump.                             *)
Quiet == {"unborn", "check", "got", "write", "gone"}

(* Unless a restore left one behind, only the copier of a session whose    *)
(* restore is not past its wait reads.                                     *)
CopiersOK ==
    \/ cut
    \/ /\ \A s \in DOMAIN in : s < cur => in[s] \in Quiet
       /\ \A s \in DOMAIN in : s > cur => in[s] = "unborn"
       /\ ses.once \in {"write", "done"} => in[cur] \in Quiet

(* The restore and the close of a session, and who may have returned.      *)
CloseOK ==
    /\ ses.once # "no" => ses.cancelled
    /\ ses.closed => ses.once = "done" /\ ses.closer # "none"
    /\ ses.pc = "returned" => CloseReturned("run")
    /\ ses.caller = "wait" => ses.closer # "caller"
    /\ ses.caller \in {"waitRun", "waitBoth"} => CloseReturned("caller")
    /\ ses.caller = "returned" => ses.closed \/ ses.closer = "stop"

BeforeRaw == {"new", "metadata", "socket", "serve", "target", "spawn", "dial",
              "attach", "resize", "raw"}

(* What a restore that is still to come will write.                        *)
TtyOK ==
    /\ ses.pc \in BeforeRaw => ses.saved = "none"
    /\ ~late => /\ ses.saved # "raw"
                /\ ses.saved = "none" \/ ses.once = "done" => tty = "cooked"

(* The pump: what was handed out, what is stashed and what is offered are  *)
(* 1 .. typed, place by place.                                             *)
PumpTypes ==
    /\ typed \in 0 .. EndOfInput /\ held \in {0, typed} /\ eof \in BOOLEAN
    /\ handed \in Seq((DOMAIN plan) \X Nat) /\ leftover \in Seq(Nat)
Counted ==
    /\ eof => held = 0 /\ typed = EndOfInput
    /\ typed = Len(handed) + Len(leftover) + (IF held = 0 THEN 0 ELSE 1)
               + (IF eof THEN 1 ELSE 0)
HandedInPlace == \A i \in DOMAIN handed : handed[i][2] = i
StashInPlace == \A i \in DOMAIN leftover : leftover[i] = Len(handed) + i
NoneParked == \A s \in DOMAIN in : in[s] # "parked"
ParkedOK == NoneParked \/ leftover = << >>

PumpOK == PumpTypes /\ Counted /\ HandedInPlace /\ StashInPlace /\ ParkedOK

SessionOK == SessionTypes /\ CopiersOK /\ CloseOK /\ TtyOK

SessionInv == SessionOK /\ (cut \/ PumpOK)

-----------------------------------------------------------------------------
(* The steps that only move a session along.                               *)

(* A step of the session that starts no copier, ends no restore, closes    *)
(* nothing and leaves the caller where it is.                              *)
Steady ==
    /\ ses' \in SesType /\ UNCHANGED <<plan, cur, in, tty, late, cut>>
    /\ \/ ses'.once = ses.once
       \/ ses.once = "no" /\ ses'.once = "wait"
    /\ ses'.once # "no" => ses'.cancelled
    /\ ses'.closed = ses.closed /\ ses'.caller = ses.caller
    /\ ses'.saved = ses.saved
    /\ \/ ses'.closer = ses.closer
       \/ ses.closer = "none" /\ ses'.closer \in {"run", "stop"}
    /\ ses'.pc = "returned" => ses.pc = "returned" \/ CloseReturned("run")
    /\ ses'.pc \in BeforeRaw => ses.pc \in BeforeRaw

(* Such a step keeps the session's part of the invariant.                  *)
LEMMA SteadyKeeps ==
  ASSUME SessionTypes, CopiersOK, CloseOK, TtyOK, Steady
  PROVE  SessionTypes' /\ CopiersOK' /\ CloseOK' /\ TtyOK'
<1>1. SessionTypes'
  BY DEF SessionTypes, Steady
<1>2. CopiersOK'
  BY DEF CopiersOK, Steady
<1>3. CloseOK'
  BY DEF CloseOK, Steady, CloseReturned, SessionTypes, SesType
<1>4. TtyOK'
  BY DEF TtyOK, Steady, SessionTypes, SesType
<1> QED BY <1>1, <1>2, <1>3, <1>4

(* The session's record as the steps below find it.                        *)
Begun == ses \in SesType /\ (ses.once # "no" => ses.cancelled)

(* Writing one field of the record, for the steps that write several.      *)
LEMMA FieldWritten ==
  ASSUME NEW s \in SesType
  PROVE  /\ \A x \in RunSteps : [s EXCEPT !.pc = x] \in SesType
         /\ \A x \in {"none", "open", "closed"} : [s EXCEPT !.peer = x] \in SesType
         /\ \A x \in {"none", "up", "exited"} : [s EXCEPT !.child = x] \in SesType
         /\ \A x \in Seq(Events) : [s EXCEPT !.events = x] \in SesType
         /\ \A x \in {"no", "call", "restore", "done"} :
              [s EXCEPT !.remote = x] \in SesType
         /\ \A x \in BOOLEAN : [s EXCEPT !.ready = x] \in SesType
         /\ \A x \in BOOLEAN : [s EXCEPT !.cancelled = x] \in SesType
         /\ \A x \in {"none", "cooked", "raw"} : [s EXCEPT !.saved = x] \in SesType
         /\ \A x \in {"none", "stop", "run", "caller"} :
              [s EXCEPT !.closer = x] \in SesType
<1>1. \A x \in RunSteps : [s EXCEPT !.pc = x] \in SesType
  BY DEF SesType
<1>2. \A x \in {"none", "open", "closed"} : [s EXCEPT !.peer = x] \in SesType
  BY DEF SesType
<1>3. \A x \in {"none", "up", "exited"} : [s EXCEPT !.child = x] \in SesType
  BY DEF SesType
<1>4. \A x \in Seq(Events) : [s EXCEPT !.events = x] \in SesType
  BY DEF SesType
<1>5. \A x \in {"no", "call", "restore", "done"} :
         [s EXCEPT !.remote = x] \in SesType
  BY DEF SesType
<1>6. \A x \in BOOLEAN : [s EXCEPT !.ready = x] \in SesType
  BY DEF SesType
<1>7. \A x \in BOOLEAN : [s EXCEPT !.cancelled = x] \in SesType
  BY DEF SesType
<1>8. \A x \in {"none", "cooked", "raw"} : [s EXCEPT !.saved = x] \in SesType
  BY DEF SesType
<1>9. \A x \in {"none", "stop", "run", "caller"} :
         [s EXCEPT !.closer = x] \in SesType
  BY DEF SesType
<1> QED BY <1>1, <1>2, <1>3, <1>4, <1>5, <1>6, <1>7, <1>8, <1>9

(* Run goes on to step p.                                                  *)
LEMMA ToIsSteady ==
  ASSUME Begun, NEW p \in RunSteps, To(p),
         p = "returned" => CloseReturned("run"),
         p \in BeforeRaw => ses.pc \in BeforeRaw
  PROVE  Steady
<1>1. ses' = [ses EXCEPT !.pc = p] /\ UNCHANGED <<plan, cur, in, tty, late, cut>>
  BY DEF To, Only
<1>2. ses' \in SesType
  BY <1>1 DEF Begun, SesType
<1> QED BY <1>1, <1>2 DEF Begun, Steady, SesType, CloseReturned

(* Run fails: it goes on to its Close.                                     *)
LEMMA FailedIsSteady ==
  ASSUME Begun, UNCHANGED <<plan, cur, in, tty, late, cut>>,
         \/ ses' = Failed
         \/ ses' = [Failed EXCEPT !.mute = TRUE]
         \/ ses' = [ses EXCEPT !.pc = "close"]
  PROVE  Steady
<1>f. Failed \in SesType
  BY DEF Begun, SesType, Failed, RunSteps
<1>c. [Failed EXCEPT !.mute = TRUE] \in SesType
  BY <1>f DEF SesType
<1>d. [ses EXCEPT !.pc = "close"] \in SesType
  BY DEF Begun, SesType, RunSteps
<1>1. ses' \in SesType
  BY <1>f, <1>c, <1>d
<1>2. /\ ses'.pc = "close" /\ ses'.once = ses.once /\ ses'.out = ses.out
      /\ ses'.cancelled = ses.cancelled /\ ses'.closed = ses.closed
      /\ ses'.caller = ses.caller /\ ses'.saved = ses.saved
      /\ ses'.closer = ses.closer
  BY DEF Begun, SesType, Failed
<1> QED BY <1>1, <1>2 DEF Begun, Steady, BeforeRaw

(* So it is when it could not but fail, and when it just failed.           *)
LEMMA FailsIsSteady ==
  ASSUME Begun, Fails
  PROVE  Steady
BY FailedIsSteady DEF Fails, Only, Trouble

(* The event channel holds events.                                         *)
LEMMA SentIsEvents ==
  ASSUME Begun, NEW e \in Events
  PROVE  Sent(e) \in Seq(Events)
BY DEF Begun, SesType, Sent

(* The first of the restores begins.                                       *)
LEMMA RestoreBegunIsSteady ==
  ASSUME Begun, Only(RestoreBegun(ses))
  PROVE  Steady
<1>1. CASE ses.once # "no"
  BY <1>1 DEF Begun, Only, RestoreBegun, Steady
<1>2. CASE ses.once = "no"
  <2>1. ses' = [ses EXCEPT !.once = "wait", !.cancelled = TRUE]
    BY <1>2 DEF Only, RestoreBegun
  <2>2. ses' \in SesType
    BY <2>1 DEF Begun, SesType
  <2> QED BY <1>2, <2>1, <2>2 DEF Begun, SesType, Only, Steady, CloseReturned
<1> QED BY <1>1, <1>2

(* Run or Stop asks for the close.                                         *)
LEMMA ClosingIsSteady ==
  ASSUME Begun, ses.closer = "none",
         NEW who \in {"run", "stop"}, Only(Closing(ses, who))
  PROVE  Steady
<1>1. ses' = [ses EXCEPT !.closer = who, !.cancelled = TRUE]
  BY DEF Only, Closing
<1>2. ses' \in SesType
  BY <1>1 DEF Begun, SesType
<1> QED BY <1>1, <1>2 DEF Begun, Steady, SesType, Only, CloseReturned

(* NewClientRunnerExec: the controller has its runner.                     *)
LEMMA RunnerMadeIsSteady ==
  ASSUME Begun, RunnerMade
  PROVE  Steady
BY ToIsSteady DEF RunnerMade, BeforeRaw, RunSteps

(* The runner writes its metadata, or Run fails before it is ready.        *)
LEMMA CreateMetadataIsSteady ==
  ASSUME Begun, CreateMetadata
  PROVE  Steady
BY ToIsSteady, FailedIsSteady DEF CreateMetadata, Trouble, BeforeRaw, RunSteps

(* The control socket is opened, or not.                                   *)
LEMMA OpenSocketCtrlIsSteady ==
  ASSUME Begun, OpenSocketCtrl
  PROVE  Steady
BY ToIsSteady, FailsIsSteady DEF OpenSocketCtrl, BeforeRaw, RunSteps

(* The control server starts, or not.                                      *)
LEMMA StartServerIsSteady ==
  ASSUME Begun, StartServer
  PROVE  Steady
BY ToIsSteady, FailsIsSteady DEF StartServer, BeforeRaw, RunSteps

(* The client learns which terminal it is for, or does not.                *)
LEMMA TargetIsSteady ==
  ASSUME Begun, Target
  PROVE  Steady
BY ToIsSteady, FailsIsSteady DEF Target, BeforeRaw, RunSteps

(* A new terminal is started, or not.                                      *)
LEMMA StartTerminalCmdIsSteady ==
  ASSUME Begun, StartTerminalCmd
  PROVE  Steady
<1>1. CASE Fails
  BY <1>1, FailsIsSteady
<1>2. CASE Only([ses EXCEPT !.pc = "dial", !.child = "up"])
  <2>1. ses' = [ses EXCEPT !.pc = "dial", !.child = "up"]
    BY <1>2 DEF Only
  <2>2. [ses EXCEPT !.pc = "dial"] \in SesType
    BY FieldWritten DEF Begun, RunSteps
  <2>3. [[ses EXCEPT !.pc = "dial"] EXCEPT !.child = "up"] \in SesType
    BY <2>2, FieldWritten
  <2>4. ses' \in SesType
    BY <2>1, <2>3
  <2> QED BY <1>2, <2>1, <2>4
    DEF Begun, Steady, SesType, CloseReturned, BeforeRaw, Only, StartTerminalCmd
<1> QED BY <1>1, <1>2 DEF StartTerminalCmd

(* The terminal answers its ping, or does not.                             *)
LEMMA DialIsSteady ==
  ASSUME Begun, Dial
  PROVE  Steady
BY ToIsSteady, FailsIsSteady DEF Dial, BeforeRaw, RunSteps

(* The first resize goes out, or does not.                                 *)
LEMMA ResizeIsSteady ==
  ASSUME Begun, Resize
  PROVE  Steady
BY ToIsSteady, FailsIsSteady DEF Resize, BeforeRaw, RunSteps

(* The terminal hands out the connection, or does not.                     *)
LEMMA AttachIsSteady ==
  ASSUME Begun, Attach
  PROVE  Steady
<1>1. CASE Fails
  BY <1>1, FailsIsSteady
<1>2. CASE Only([ses EXCEPT !.pc = "resize", !.peer = "open"])
  <2>1. ses' = [ses EXCEPT !.pc = "resize", !.peer = "open"]
    BY <1>2 DEF Only
  <2>2. [ses EXCEPT !.pc = "resize"] \in SesType
    BY FieldWritten DEF Begun, RunSteps
  <2>3. [[ses EXCEPT !.pc = "resize"] EXCEPT !.peer = "open"] \in SesType
    BY <2>2, FieldWritten
  <2>4. ses' \in SesType
    BY <2>1, <2>3
  <2> QED BY <1>2, <2>1, <2>4
    DEF Begun, Steady, SesType, CloseReturned, BeforeRaw, Only, Attach
<1> QED BY <1>1, <1>2 DEF Attach

(* The mode MakeRaw returned is published.                                 *)
LEMMA PublishIsSteady ==
  ASSUME Begun, Publish
  PROVE  Steady
BY ToIsSteady DEF Publish, BeforeRaw, RunSteps

(* The help message is written.                                            *)
LEMMA HelpIsSteady ==
  ASSUME Begun, Help
  PROVE  Steady
BY ToIsSteady DEF Help, BeforeRaw, RunSteps

(* The socket->stdout copier and the manager start.                        *)
LEMMA WireOutputIsSteady ==
  ASSUME Begun, WireOutput
  PROVE  Steady
<1>1. ses' = [ses EXCEPT !.pc = "ready", !.out = "run", !.manager = "look"]
      /\ UNCHANGED <<plan, cur, in, tty, late, cut>>
  BY DEF WireOutput, Only
<1>2. [ses EXCEPT !.pc = "ready"] \in SesType
  BY FieldWritten DEF Begun, RunSteps
<1>3. ses' \in SesType
  BY <1>1, <1>2 DEF SesType
<1> QED BY <1>1, <1>3 DEF Begun, SesType, Steady, BeforeRaw

(* The terminal says it is ready, or does not.                             *)
LEMMA WaitReadyIsSteady ==
  ASSUME Begun, WaitReady
  PROVE  Steady
<1>1. CASE Fails
  BY <1>1, FailsIsSteady
<1>2. CASE Only([ses EXCEPT !.pc = "loop", !.ready = TRUE])
  <2>1. ses' = [ses EXCEPT !.pc = "loop", !.ready = TRUE]
    BY <1>2 DEF Only
  <2>2. ses' \in SesType
    BY <2>1 DEF Begun, SesType, RunSteps
  <2> QED BY <1>2, <2>1, <2>2
    DEF Begun, Steady, SesType, CloseReturned, BeforeRaw, Only
<1> QED BY <1>1, <1>2 DEF WaitReady

(* The loop takes an event: a detach, or one that closes.                  *)
LEMMA LoopEventIsSteady ==
  ASSUME Begun, LoopEvent
  PROVE  Steady
<1>1. Tail(ses.events) \in Seq(Events)
  BY DEF LoopEvent, Begun, SesType
<1>2. CASE Only([ses EXCEPT !.events = Tail(ses.events), !.pc = "detach",
                            !.asked = TRUE])
  <2>1. ses' = [ses EXCEPT !.events = Tail(ses.events), !.pc = "detach", !.asked = TRUE]
    BY <1>2 DEF Only
  <2>2. ses' \in SesType
    BY <2>1, <1>1 DEF Begun, SesType, RunSteps
  <2> QED BY <1>2, <2>1, <2>2
    DEF Begun, Steady, SesType, CloseReturned, BeforeRaw, Only
<1>3. CASE Only([ses EXCEPT !.events = Tail(ses.events), !.pc = "closeEvent"])
  <2>1. ses' = [ses EXCEPT !.events = Tail(ses.events), !.pc = "closeEvent"]
    BY <1>3 DEF Only
  <2>2. ses' \in SesType
    BY <2>1, <1>1 DEF Begun, SesType, RunSteps
  <2> QED BY <1>3, <2>1, <2>2
    DEF Begun, Steady, SesType, CloseReturned, BeforeRaw, Only
<1> QED BY <1>2, <1>3 DEF LoopEvent

(* The loop sees that the close is over.                                   *)
LEMMA LoopCloseRequestIsSteady ==
  ASSUME Begun, LoopCloseRequest, CloseOK
  PROVE  Steady
<1>1. CloseReturned("run")
  BY DEF CloseReturned, LoopCloseRequest, CloseOK
<1> QED BY <1>1, ToIsSteady DEF LoopCloseRequest, BeforeRaw, RunSteps

(* The loop sees its context cancelled.                                    *)
LEMMA LoopCancelledIsSteady ==
  ASSUME Begun, LoopCancelled
  PROVE  Steady
BY FailedIsSteady DEF LoopCancelled, Only

(* The loop sees its control server gone.                                  *)
LEMMA LoopServerGoneIsSteady ==
  ASSUME Begun, LoopServerGone
  PROVE  Steady
BY FailedIsSteady DEF LoopServerGone, Trouble

(* The Detach RPC of the loop comes back.                                  *)
LEMMA DetachIsSteady ==
  ASSUME Begun, Detach
  PROVE  Steady
<1> PICK peer \in {ses.peer, "closed"} :
       Only([ses EXCEPT !.peer = peer, !.pc = "restore"])
  BY DEF Detach, AfterDetach
<1> QED BY DEF Begun, SesType, Steady, CloseReturned, BeforeRaw, Only, Trouble, Detach,
      RunSteps

(* The loop's detach restores the terminal, or finds it restored.          *)
LEMMA DetachRestoresIsSteady ==
  ASSUME Begun, DetachRestores
  PROVE  Steady
BY ToIsSteady, RestoreBegunIsSteady DEF DetachRestores, BeforeRaw, RunSteps

(* Run is the one that closes.                                             *)
LEMMA RunClosesIsSteady ==
  ASSUME Begun, RunCloses
  PROVE  Steady
BY ClosingIsSteady DEF RunCloses

(* Run's Close comes back.                                                 *)
LEMMA RunClosedIsSteady ==
  ASSUME Begun, RunClosed
  PROVE  Steady
<1>1. CASE To("loop")
  BY <1>1, ToIsSteady DEF BeforeRaw, RunSteps
<1>2. CASE Only([ses EXCEPT !.pc = "returned", !.ready = ~ses.mute])
  <2>1. ses' = [ses EXCEPT !.pc = "returned", !.ready = ~ses.mute]
    BY <1>2 DEF Only
  <2>2. [ses EXCEPT !.pc = "returned"] \in SesType
    BY FieldWritten DEF Begun, RunSteps
  <2>3. [[ses EXCEPT !.pc = "returned"] EXCEPT !.ready = ~ses.mute] \in SesType
    BY <2>2, FieldWritten
  <2>4. ses' \in SesType
    BY <2>1, <2>3
  <2> QED BY <1>2, <2>1, <2>4
    DEF Begun, Steady, SesType, CloseReturned, BeforeRaw, Only, RunClosed
<1> QED BY <1>1, <1>2 DEF RunClosed

(* Close begins the restore.                                               *)
LEMMA CloseRestoresIsSteady ==
  ASSUME Begun, CloseRestores
  PROVE  Steady
BY RestoreBegunIsSteady DEF CloseRestores

(* A Stop is the one that closes.                                          *)
LEMMA StopClosesIsSteady ==
  ASSUME Begun, StopCloses
  PROVE  Steady
BY ClosingIsSteady DEF StopCloses

(* The Detach RPC of another client comes back.                            *)
LEMMA RemoteAnsweredIsSteady ==
  ASSUME Begun, RemoteAnswered
  PROVE  Steady
<1> PICK peer \in {ses.peer, "closed"} :
       Only([ses EXCEPT !.remote = "restore", !.peer = peer])
  BY DEF RemoteAnswered, AfterDetach
<1>1. ses' = [ses EXCEPT !.remote = "restore", !.peer = peer]
  BY DEF Only
<1>2. [ses EXCEPT !.remote = "restore"] \in SesType
  BY FieldWritten DEF Begun
<1>3. ses.peer \in {"none", "open", "closed"}
  BY DEF Begun, SesType
<1>4. [[ses EXCEPT !.remote = "restore"] EXCEPT !.peer = peer] \in SesType
  BY <1>2, <1>3, FieldWritten
<1>5. ses' \in SesType
  BY <1>1, <1>4
<1> QED BY <1>1, <1>5
  DEF Begun, SesType, Steady, CloseReturned, BeforeRaw, Only, Trouble

(* Another client's detach restores the terminal.                          *)
LEMMA RemoteRestoresIsSteady ==
  ASSUME Begun, RemoteRestores
  PROVE  Steady
<1>1. CASE Only([ses EXCEPT !.remote = "done"])
  BY <1>1 DEF Begun, SesType, Steady, CloseReturned, BeforeRaw, Only, Trouble
<1> QED BY <1>1, RestoreBegunIsSteady DEF RemoteRestores

(* Stdout takes no output for a while.                                     *)
LEMMA StallsIsSteady ==
  ASSUME Begun, Stalls
  PROVE  Steady
BY DEF Stalls, Begun, SesType, Steady, CloseReturned, BeforeRaw, Only, Trouble

(* It takes output again, and a copier that was stuck gets on.             *)
LEMMA ResumesIsSteady ==
  ASSUME Begun, Resumes
  PROVE  Steady
<1> PICK o \in {"unborn", "run", "stuck", "gone"} :
       o = IF ses.out = "stuck" THEN "run" ELSE ses.out
  BY DEF Begun, SesType
<1>1. /\ ses' = [ses EXCEPT !.stalled = FALSE, !.out = o]
      /\ UNCHANGED <<plan, cur, in, tty, late, cut>>
  BY DEF Resumes, Only
<1>2. ses' \in SesType
  BY <1>1 DEF Begun, SesType
<1> QED BY <1>1, <1>2 DEF Begun, SesType, Steady

(* The socket->stdout copier ends.                                         *)
LEMMA OutEndsIsSteady ==
  ASSUME Begun, OutEnds
  PROVE  Steady
BY DEF OutEnds, Begun, SesType, Steady, CloseReturned, BeforeRaw, Only, Trouble

(* The writer to stdout blocks.                                            *)
LEMMA OutSticksIsSteady ==
  ASSUME Begun, OutSticks
  PROVE  Steady
BY DEF OutSticks, Begun, SesType, Steady, CloseReturned, BeforeRaw, Only, Trouble

(* The copiers' manager looks for the first time.                          *)
LEMMA ManagerLooksIsSteady ==
  ASSUME Begun, ManagerLooks
  PROVE  Steady
BY DEF ManagerLooks, Begun, SesType, Steady, CloseReturned, BeforeRaw, Only,
      Trouble

(* The manager reports that the copiers are over.                          *)
LEMMA ManagerFiresIsSteady ==
  ASSUME Begun, ManagerFires
  PROVE  Steady
<1>1. Sent("error") \in Seq(Events)
  BY SentIsEvents DEF Events
<1>2. ses' = [ses EXCEPT !.manager = "done", !.events = Sent("error")]
  BY DEF ManagerFires, Only
<1>3. ses' \in SesType
  BY <1>1, <1>2 DEF Begun, SesType
<1> QED BY <1>2, <1>3
  DEF Begun, SesType, Steady, CloseReturned, Only, ManagerFires

(* A Stop comes in.                                                        *)
LEMMA StopRPCIsSteady ==
  ASSUME Begun, StopRPC
  PROVE  Steady
BY DEF StopRPC, Begun, SesType, Steady, CloseReturned, BeforeRaw, Only, Trouble

(* Another client asks for a detach, before or after there is a terminal.  *)
LEMMA RemoteDetachIsSteady ==
  ASSUME Begun, RemoteDetach
  PROVE  Steady
<1>1. CASE ses' = [ses EXCEPT !.pc = "panic"]
  BY <1>1
    DEF Begun, SesType, Steady, CloseReturned, BeforeRaw, Only, Trouble,
        RemoteDetach, RunSteps
<1>2. CASE ses' = [ses EXCEPT !.asked = TRUE, !.remote = "call"]
  BY <1>2
    DEF Begun, SesType, Steady, CloseReturned, BeforeRaw, Only, Trouble,
        RemoteDetach
<1> QED BY <1>1, <1>2 DEF RemoteDetach, Trouble

(* The program's context is cancelled.                                     *)
LEMMA ParentCancelledIsSteady ==
  ASSUME Begun, ParentCancelled
  PROVE  Steady
BY DEF ParentCancelled, Begun, SesType, Steady, CloseReturned, BeforeRaw, Only,
      Trouble

(* The terminal hangs up.                                                  *)
LEMMA PeerClosesIsSteady ==
  ASSUME Begun, PeerCloses
  PROVE  Steady
BY DEF PeerCloses, Begun, SesType, Steady, CloseReturned, BeforeRaw, Only,
      Trouble

(* The terminal the client started exits.                                  *)
LEMMA ChildExitsIsSteady ==
  ASSUME Begun, ChildExits
  PROVE  Steady
<1>1. Sent("exited") \in Seq(Events)
  BY SentIsEvents DEF Events
<1>2. ses' = [ses EXCEPT !.child = "exited", !.events = Sent("exited"),
                    !.peer = IF ses.peer = "open" THEN "closed" ELSE ses.peer]
  BY DEF ChildExits, Trouble
<1>3. [ses EXCEPT !.child = "exited"] \in SesType
  BY FieldWritten DEF Begun
<1>4. [[ses EXCEPT !.child = "exited"] EXCEPT !.events = Sent("exited")] \in SesType
  BY <1>1, <1>3, FieldWritten
<1>5. ses.peer \in {"none", "open", "closed"}
  BY DEF Begun, SesType
<1>6. [[[ses EXCEPT !.child = "exited"] EXCEPT !.events = Sent("exited")]
         EXCEPT !.peer = IF ses.peer = "open" THEN "closed" ELSE ses.peer]
           \in SesType
  BY <1>4, <1>5, FieldWritten
<1>7. ses' \in SesType
  BY <1>2, <1>6
<1> QED BY <1>2, <1>7
  DEF Begun, SesType, Steady, CloseReturned, Trouble, ChildExits

-----------------------------------------------------------------------------
(* The other steps of the session: the wait and the write of the restore,  *)
(* the end of the close, the switch to raw mode, the start of the copiers  *)
(* and the caller.                                                         *)

(* Sessions are numbered 1 .. Len(plan).                                   *)
LEMMA Sessions ==
  ASSUME SessionTypes
  PROVE  /\ plan \in Seq({"attach", "new"}) /\ Len(plan) \in Nat
         /\ DOMAIN plan = 1 .. Len(plan) /\ DOMAIN in = 1 .. Len(plan)
         /\ cur \in 1 .. Len(plan)
BY SessionAssumption DEF SessionTypes

(* A restore stops waiting when the session's copier reads no more, or     *)
(* leaves it reading.                                                      *)
LEMMA RestoreWaitsKeeps ==
  ASSUME SessionOK, RestoreWaits
  PROVE  SessionOK'
<1> USE DEF SessionOK
<1>1. ses' = [ses EXCEPT !.once = "write"] /\ UNCHANGED <<plan, cur, in, tty, late>>
  BY DEF RestoreWaits, Only
<1>2. cut' = TRUE \/ (cut' = cut /\ in[cur] \in Quiet)
  BY DEF RestoreWaits, Only, StillReading, Quiet, SessionTypes
<1>3. ses' \in SesType
  BY <1>1 DEF SessionTypes, SesType
<1>4. SessionTypes'
  BY <1>1, <1>2, <1>3 DEF SessionTypes
<1>5. CopiersOK'
  BY <1>1, <1>2 DEF CopiersOK, SessionTypes
<1>6. CloseOK' /\ TtyOK'
  BY <1>1, <1>3
    DEF SessionTypes, SesType, RestoreWaits, CloseOK, TtyOK, CloseReturned
<1> QED BY <1>4, <1>5, <1>6

(* The restore writes the mode that is published, if one is; before that   *)
(* it is a late switch's.                                                  *)
LEMMA RestoreWritesKeeps ==
  ASSUME SessionOK, RestoreWrites
  PROVE  SessionOK'
<1> USE DEF SessionOK
<1>1. /\ ses' = [ses EXCEPT !.once = "done"] /\ UNCHANGED <<plan, cur, in, cut>>
      /\ tty' = (IF LastTermState = "none" THEN tty ELSE LastTermState)
      /\ late' = (late \/ ses.pc = "publish")
  BY DEF RestoreWrites
<1>2. SessionTypes'
  BY <1>1 DEF SessionTypes, SesType, LastTermState
<1>3. CopiersOK' /\ CloseOK'
  BY <1>1
    DEF SessionTypes, SesType, CopiersOK, CloseOK, CloseReturned, RestoreWrites
<1>4. TtyOK'
  BY <1>1 DEF SessionTypes, SesType, TtyOK, LastTermState
<1> QED BY <1>2, <1>3, <1>4

(* Close ends after the restore.                                           *)
LEMMA CloseEndsKeeps ==
  ASSUME SessionOK, CloseEnds
  PROVE  SessionOK'
<1> USE DEF SessionOK
<1>1. ses' = [ses EXCEPT !.closed = TRUE] /\ UNCHANGED <<plan, cur, in, tty, late, cut>>
  BY DEF CloseEnds, Only
<1>2. SessionTypes'
  BY <1>1 DEF SessionTypes, SesType
<1>3. CopiersOK' /\ CloseOK' /\ TtyOK'
  BY <1>1
    DEF SessionTypes, SesType, CopiersOK, CloseOK, TtyOK, CloseReturned,
        CloseEnds
<1> QED BY <1>2, <1>3

(* The switch to raw mode: it saves a cooked mode, or one an earlier late  *)
(* switch left behind.                                                     *)
LEMMA RawModeKeeps ==
  ASSUME SessionOK, RawMode
  PROVE  SessionOK'
<1> USE DEF SessionOK
<1>1. CASE ses' = [ses EXCEPT !.pc = "wire"] /\ UNCHANGED <<plan, cur, in, tty, late, cut>>
  <2>1. SessionTypes'
    BY <1>1 DEF SessionTypes, SesType, RunSteps
  <2>2. CopiersOK' /\ CloseOK' /\ TtyOK'
    BY <1>1 DEF SessionTypes, SesType, CopiersOK, CloseOK, TtyOK, CloseReturned,
                RawMode, BeforeRaw
  <2> QED BY <2>1, <2>2
<1>2. CASE /\ ses' = [ses EXCEPT !.pc = "publish", !.saved = tty]
           /\ tty' = "raw" /\ late' = (late \/ ses.once = "done")
           /\ UNCHANGED <<plan, cur, in, cut>>
  <2>0. [ses EXCEPT !.pc = "publish"] \in SesType
    BY FieldWritten DEF SessionTypes, RunSteps
  <2>5. [[ses EXCEPT !.pc = "publish"] EXCEPT !.saved = tty] \in SesType
    BY <2>0, FieldWritten DEF SessionTypes
  <2>1. SessionTypes'
    BY <1>2, <2>5 DEF SessionTypes
  <2>2. /\ ses'.pc = "publish" /\ ses'.saved = tty /\ ses'.once = ses.once
        /\ ses'.cancelled = ses.cancelled /\ ses'.closed = ses.closed
        /\ ses'.caller = ses.caller /\ ses'.closer = ses.closer
    BY <1>2 DEF SessionTypes, SesType
  <2>3. CopiersOK' /\ CloseOK'
    BY <1>2, <2>2 DEF CopiersOK, CloseOK, CloseReturned
  <2>4. TtyOK'
    BY <1>2, <2>2 DEF SessionTypes, SesType, TtyOK, RawMode, BeforeRaw
  <2> QED BY <2>1, <2>3, <2>4
<1> QED BY <1>1, <1>2 DEF RawMode, Trouble

(* The stdin->socket copier starts: its first look is quiet still.         *)
LEMMA WireInputKeeps ==
  ASSUME SessionOK, WireInput
  PROVE  SessionOK'
<1> USE DEF SessionOK
<1>1. /\ ses' = [ses EXCEPT !.pc = "help"] /\ in' = [in EXCEPT ![cur] = "check"]
      /\ UNCHANGED <<plan, cur, tty, late, cut>>
  BY DEF WireInput, CopierTo
<1>2. ses' \in SesType
  BY <1>1, FieldWritten DEF SessionTypes, RunSteps
<1>3. SessionTypes'
  BY <1>1, <1>2 DEF SessionTypes
<1>4. /\ ses'.pc = "help" /\ ses'.saved = ses.saved /\ ses'.once = ses.once
      /\ ses'.cancelled = ses.cancelled /\ ses'.closed = ses.closed
      /\ ses'.caller = ses.caller /\ ses'.closer = ses.closer
  BY <1>1 DEF SessionTypes, SesType
<1>5. CopiersOK'
  BY <1>1, <1>4, Sessions DEF SessionTypes, CopiersOK, Quiet
<1>6. CloseOK' /\ TtyOK'
  BY <1>1, <1>4 DEF CloseOK, TtyOK, CloseReturned, BeforeRaw
<1> QED BY <1>3, <1>5, <1>6

(* The caller moves to step p: what CloseOK says of that step must hold.   *)
LEMMA CallerToKeeps ==
  ASSUME SessionOK,
         NEW p \in {"close", "closeDrain", "waitRun", "waitBoth",
                    "waitClosed", "returned"},
         Only([ses EXCEPT !.caller = p]),
         p \in {"waitRun", "waitBoth"} => CloseReturned("caller"),
         p = "returned" => ses.closed \/ ses.closer = "stop"
  PROVE  SessionOK'
<1> USE DEF SessionOK
<1>1. ses' = [ses EXCEPT !.caller = p] /\ UNCHANGED <<plan, cur, in, tty, late, cut>>
  BY DEF Only
<1>2. SessionTypes'
  BY <1>1 DEF SessionTypes, SesType
<1>3. CopiersOK' /\ CloseOK' /\ TtyOK'
  BY <1>1 DEF SessionTypes, SesType, CopiersOK, CloseOK, TtyOK, CloseReturned
<1> QED BY <1>2, <1>3

(* The caller's context is cancelled before Run is ready.                  *)
LEMMA CallerNotReadyKeeps ==
  ASSUME SessionOK, CallerNotReady
  PROVE  SessionOK'
BY CallerToKeeps DEF CallerNotReady, AfterCancel

(* The caller drains the errors of a Run: if Run returned clean, the close *)
(* that made it return was a finished one, or a Stop's.                    *)
LEMMA CallerDrainsKeeps ==
  ASSUME SessionOK, CallerDrains
  PROVE  SessionOK'
<1>1. CASE Only([ses EXCEPT !.caller = IF Mode = "attach" THEN "closeDrain"
                                         ELSE "waitClosed"])
  BY <1>1, CallerToKeeps
<1>2. CASE /\ ses.pc = "returned"
           /\ Only([ses EXCEPT !.caller =
                      IF Mode = "new" /\ ses.clean THEN "returned"
                      ELSE "waitClosed"])
  <2>1. ses.closed \/ ses.closer = "stop"
    BY <1>2
      DEF CallerDrains, SessionOK, SessionTypes, SesType, CloseOK, CloseReturned
  <2> QED BY <1>2, <2>1, CallerToKeeps
<1> QED BY <1>1, <1>2 DEF CallerDrains

(* The caller is the one that closes, or finds no runner and panics.       *)
LEMMA CallerClosesKeeps ==
  ASSUME SessionOK, CallerCloses
  PROVE  SessionOK'
<1> USE DEF SessionOK
<1>1. CASE ses.pc = "new"
  <2>1. ses' = [ses EXCEPT !.pc = "panic"] /\ UNCHANGED <<plan, cur, in, tty, late, cut>>
    BY <1>1 DEF CallerCloses, Only
  <2>2. SessionTypes'
    BY <2>1 DEF SessionTypes, SesType, RunSteps
  <2>3. CopiersOK' /\ CloseOK' /\ TtyOK'
    BY <2>1
      DEF SessionTypes, SesType, CopiersOK, CloseOK, TtyOK, CloseReturned,
          BeforeRaw
  <2> QED BY <2>2, <2>3
<1>2. CASE ses.pc # "new"
  <2>1. ses' = [ses EXCEPT !.closer = "caller", !.cancelled = TRUE]
        /\ UNCHANGED <<plan, cur, in, tty, late, cut>>
    BY <1>2 DEF CallerCloses, Only, Closing
  <2>4. [ses EXCEPT !.closer = "caller"] \in SesType
    BY FieldWritten DEF SessionTypes
  <2>5. [[ses EXCEPT !.closer = "caller"] EXCEPT !.cancelled = TRUE] \in SesType
    BY <2>4, FieldWritten
  <2>2. SessionTypes'
    BY <2>1, <2>5 DEF SessionTypes
  <2>3. CopiersOK' /\ CloseOK' /\ TtyOK'
    BY <2>1 DEF SessionTypes, SesType, CallerCloses, CopiersOK, CloseOK, TtyOK,
                CloseReturned, BeforeRaw
  <2> QED BY <2>2, <2>3
<1> QED BY <1>1, <1>2

(* The caller's Close comes back.                                          *)
LEMMA CallerClosedKeeps ==
  ASSUME SessionOK, CallerClosed
  PROVE  SessionOK'
BY CallerToKeeps DEF CallerClosed

(* The caller comes back when what it waited for is over.                  *)
LEMMA CallerReturnsKeeps ==
  ASSUME SessionOK, CallerReturns
  PROVE  SessionOK'
<1>1. ses.closed \/ ses.closer = "stop"
  BY DEF CallerReturns, SessionOK, SessionTypes, SesType, CloseOK, CloseReturned
<1> QED BY <1>1, CallerToKeeps DEF CallerReturns

(* The next session starts with a cooked terminal, or after a late switch. *)
LEMMA NextSessionKeeps ==
  ASSUME SessionOK, NextSession
  PROVE  SessionOK'
<1> USE DEF SessionOK
<1>1. /\ cur' = cur + 1 /\ cur < Len(plan)
      /\ ses' = [Fresh EXCEPT !.stalled = ses.stalled]
      /\ UNCHANGED <<plan, in, tty, late, cut>>
  BY DEF NextSession
<1>3. cur \in 1 .. Len(plan) /\ DOMAIN plan = 1 .. Len(plan) /\ Len(plan) \in Nat
  BY Sessions
<1>4. SessionTypes'
  <2>1. cur' \in DOMAIN plan'
    BY <1>1, <1>3
  <2>2. << >> \in Seq(Events)
    OBVIOUS
  <2>3. ses' \in SesType
    <3>1. Fresh \in SesType /\ ses.stalled \in BOOLEAN
      BY <2>2 DEF Fresh, SesType, RunSteps, SessionTypes
    <3>2. [Fresh EXCEPT !.stalled = ses.stalled] \in SesType
      BY <3>1 DEF SesType
    <3> QED BY <1>1, <3>2
  <2> QED BY <1>1, <2>1, <2>3 DEF SessionTypes
<1>5. cut \/ in[cur] \in Quiet
  BY DEF NextSession, CopiersOK, CloseOK
<1>6. CopiersOK'
  BY <1>1, <1>5, Sessions DEF CopiersOK, Fresh, SessionTypes, Quiet
<1>7. CloseOK' /\ TtyOK'
  BY <1>1 DEF CloseOK, TtyOK, Fresh, NextSession
<1> QED BY <1>4, <1>6, <1>7

-----------------------------------------------------------------------------
(* The pump and the copiers that read it.                                  *)

(* Only the copier of the session that is on, with its restore to come,    *)
(* may hold or ask for a chunk.                                            *)
LEMMA ReaderIsLive ==
  ASSUME SessionOK, ~cut, NEW s \in DOMAIN in, in[s] \notin Quiet
  PROVE  s = cur /\ ses.once \notin {"write", "done"} /\ ~ses.closed
BY Sessions DEF SessionOK, SessionTypes, CopiersOK, CloseOK, Quiet

(* A copier's step: to a quiet state, or of a copier that was not quiet.   *)
LEMMA CopierStepKeeps ==
  ASSUME SessionOK, NEW s \in DOMAIN in,
         NEW st \in {"check", "read", "parked", "got", "write", "gone"},
         CopierTo(s, st), UNCHANGED <<plan, cur, ses, tty, late, cut>>,
         in[s] # "unborn",
         st \in Quiet \/ in[s] \notin Quiet \/ ~GroupDone(s)
  PROVE  SessionOK'
<1> USE DEF SessionOK
<1>1. in' = [in EXCEPT ![s] = st]
  BY DEF CopierTo
<1>2. SessionTypes'
  BY <1>1 DEF SessionTypes
<1>3. CopiersOK'
  <2> SUFFICES ASSUME ~cut
               PROVE  CopiersOK'
    BY DEF CopiersOK
  <2>1. s <= cur
    BY Sessions DEF CopiersOK
  <2>2. st \in Quiet \/ (s = cur /\ ses.once \notin {"write", "done"})
    <3>1. CASE in[s] \notin Quiet
      BY <3>1, ReaderIsLive
    <3>2. CASE ~GroupDone(s)
      <4>1. ~(s < cur) /\ ~ses.cancelled
        BY <3>2 DEF GroupDone, Cancelled
      <4> QED BY <2>1, <4>1, Sessions DEF CloseOK
    <3>3. CASE st \in Quiet
      BY <3>3
    <3> QED BY <3>1, <3>2, <3>3
  <2> QED BY <1>1, <2>1, <2>2, Sessions DEF SessionTypes, CopiersOK, Quiet
<1>4. CloseOK' /\ TtyOK'
  BY DEF CloseOK, TtyOK, CloseReturned
<1> QED BY <1>2, <1>3, <1>4

(* A step that leaves the pump alone and parks no reader.                  *)
LEMMA PumpStays ==
  ASSUME PumpOK, UNCHANGED <<plan, pump>>, NoneParked => NoneParked'
  PROVE  PumpOK'
BY DEF PumpOK, PumpTypes, Counted, HandedInPlace, StashInPlace, ParkedOK, pump

(* A copier's step that does not park.                                     *)
LEMMA NotParked ==
  ASSUME SessionTypes, NEW s \in DOMAIN in,
         NEW st \in Quiet \cup {"read", "got", "write"},
         CopierTo(s, st), NoneParked
  PROVE  NoneParked'
BY DEF SessionTypes, CopierTo, NoneParked, Quiet

(* The chunk handed out next has the next number.                          *)
LEMMA HandKeeps ==
  ASSUME PumpTypes, HandedInPlace, NEW s \in DOMAIN plan,
         Hand(s, Len(handed) + 1), plan' = plan
  PROVE  /\ handed' \in Seq((DOMAIN plan') \X Nat) /\ Len(handed') = Len(handed) + 1
         /\ HandedInPlace'
<1> PICK n \in Nat : n = Len(handed) + 1
  BY DEF PumpTypes
<1>1. handed \in Seq((DOMAIN plan) \X Nat)
  BY DEF PumpTypes
<1>0. <<s, n>> \in (DOMAIN plan) \X Nat
  OBVIOUS
<1>2. handed' = Append(handed, <<s, n>>)
  BY DEF Hand
<1>3. handed' \in Seq((DOMAIN plan) \X Nat) /\ Len(handed') = n
  BY <1>0, <1>1, <1>2
<1>4. \A i \in 1 .. Len(handed) : handed'[i] = handed[i]
  BY <1>1, <1>2
<1>5. handed'[n] = <<s, n>>
  BY <1>1, <1>2
<1>6. \A i \in 1 .. n : i = n \/ i \in 1 .. Len(handed)
  BY <1>1
<1>7. DOMAIN handed' = 1 .. n /\ DOMAIN handed = 1 .. Len(handed)
  BY <1>1, <1>3
<1>8. HandedInPlace'
  BY <1>4, <1>5, <1>6, <1>7 DEF HandedInPlace
<1> QED BY <1>3, <1>8

(* The pump reads the next chunk when it offers none.                      *)
LEMMA PumpReadsKeeps ==
  ASSUME SessionOK, cut \/ PumpOK, PumpReads
  PROVE  SessionOK' /\ (cut \/ PumpOK')
<1>1. SessionOK'
  BY DEF PumpReads, SessionOK, SessionTypes, CopiersOK, CloseOK, TtyOK,
        CloseReturned
<1> SUFFICES ASSUME ~cut, PumpOK
             PROVE  PumpOK'
  BY <1>1
<1>2. UNCHANGED <<plan, in, handed, leftover, eof>> /\ held = 0 /\ typed <= Chunks
      /\ typed' = typed + 1 /\ held' = typed + 1
  BY DEF PumpReads
<1>3. PumpTypes' /\ Counted'
  BY <1>2, SessionAssumption DEF PumpOK, PumpTypes, Counted, EndOfInput
<1>4. HandedInPlace' /\ StashInPlace' /\ ParkedOK'
  BY <1>2 DEF PumpOK, HandedInPlace, StashInPlace, ParkedOK, NoneParked
<1> QED BY <1>3, <1>4 DEF PumpOK

(* The copier looks at its context.                                        *)
LEMMA InCheckKeeps ==
  ASSUME SessionOK, cut \/ PumpOK, NEW s \in DOMAIN in, InCheck(s)
  PROVE  SessionOK' /\ (cut \/ PumpOK')
<1>1. SessionOK'
  BY CopierStepKeeps DEF InCheck, Quiet
<1>2. cut \/ PumpOK'
  BY PumpStays, NotParked DEF InCheck, Quiet, SessionOK
<1> QED BY <1>1, <1>2

(* A parked reader is cancelled.                                           *)
LEMMA InCancelledKeeps ==
  ASSUME SessionOK, cut \/ PumpOK, NEW s \in DOMAIN in, InCancelled(s)
  PROVE  SessionOK' /\ (cut \/ PumpOK')
<1>1. SessionOK'
  BY CopierStepKeeps DEF InCancelled, Quiet
<1>2. cut \/ PumpOK'
  BY PumpStays, NotParked DEF InCancelled, Quiet, SessionOK
<1> QED BY <1>1, <1>2

(* The chunk goes to the terminal, or the write fails.                     *)
LEMMA InWritesKeeps ==
  ASSUME SessionOK, cut \/ PumpOK, NEW s \in DOMAIN in, InWrites(s) \/ InWriteFails(s)
  PROVE  SessionOK' /\ (cut \/ PumpOK')
<1>1. SessionOK'
  BY CopierStepKeeps DEF InWrites, InWriteFails, Quiet
<1>2. cut \/ PumpOK'
  BY PumpStays, NotParked DEF InWrites, InWriteFails, Quiet, SessionOK
<1> QED BY <1>1, <1>2

(* The filter posts a detach, which is a steady step of the session.       *)
LEMMA InFiltersKeeps ==
  ASSUME SessionOK, cut \/ PumpOK, NEW s \in DOMAIN in, InFilters(s)
  PROVE  SessionOK' /\ (cut \/ PumpOK')
<1> USE DEF SessionOK
<1>1. /\ in' = [in EXCEPT ![s] = "write"] /\ in[s] = "got"
      /\ UNCHANGED <<plan, cur, tty, late, cut, pump>>
  BY DEF InFilters, CopierTo
<1>3. Begun
  BY DEF Begun, SessionTypes, CloseOK
<1>4. Sent("detach") \in Seq(Events)
  BY <1>3, SentIsEvents DEF Events
<1>5. ses' = ses \/ ses' = [ses EXCEPT !.events = Sent("detach")]
  BY DEF InFilters
<1>6. ses' \in SesType
  BY <1>3, <1>4, <1>5, FieldWritten DEF Begun
<1>7. /\ ses'.pc = ses.pc /\ ses'.saved = ses.saved /\ ses'.once = ses.once
      /\ ses'.cancelled = ses.cancelled /\ ses'.closed = ses.closed
      /\ ses'.caller = ses.caller /\ ses'.closer = ses.closer
  BY <1>5 DEF SessionTypes, SesType
<1>8. SessionTypes'
  BY <1>1, <1>6 DEF SessionTypes
<1>9. CopiersOK'
  BY <1>1, <1>7, Sessions DEF SessionTypes, CopiersOK, Quiet
<1>10. CloseOK' /\ TtyOK'
  BY <1>1, <1>7 DEF CloseOK, TtyOK, CloseReturned
<1>11. cut \/ PumpOK'
  BY <1>1, PumpStays, NotParked DEF InFilters
<1> QED BY <1>8, <1>9, <1>10, <1>11

(* A chunk is handed out from the head of the stash, or the reader parks   *)
(* with nothing stashed.                                                   *)
LEMMA InReadsKeeps ==
  ASSUME SessionOK, cut \/ PumpOK, NEW s \in DOMAIN in, InReads(s)
  PROVE  SessionOK' /\ (cut \/ PumpOK')
<1>1. SessionOK'
  BY CopierStepKeeps DEF InReads, Hand, Quiet
<1> SUFFICES ASSUME ~cut, PumpOK
             PROVE  PumpOK'
  BY <1>1
<1>2. s \in DOMAIN plan /\ UNCHANGED <<plan, typed, held, eof>>
  BY DEF SessionOK, SessionTypes, InReads
<1>3. CASE leftover # << >>
  <2>1. leftover \in Seq(Nat) /\ Len(leftover) \in Nat \ {0} /\ Len(handed) \in Nat
    BY <1>3 DEF PumpOK, PumpTypes
  <2>2. Head(leftover) = Len(handed) + 1
    BY <2>1 DEF PumpOK, StashInPlace
  <2>3. Hand(s, Len(handed) + 1) /\ leftover' = Tail(leftover)
    BY <1>3, <2>2 DEF InReads, Stashed
  <2>4. /\ handed' \in Seq((DOMAIN plan') \X Nat) /\ Len(handed') = Len(handed) + 1
        /\ HandedInPlace'
    BY <1>2, <2>3, HandKeeps DEF PumpOK
  <2>5. /\ Len(leftover') = Len(leftover) - 1 /\ leftover' \in Seq(Nat)
        /\ \A i \in 1 .. Len(leftover') : leftover'[i] = leftover[i + 1]
    BY <2>1, <2>3
  <2>6. StashInPlace'
    <3>1. \A i \in 1 .. Len(leftover') : leftover[i + 1] = Len(handed) + (i + 1)
      <4>1. DOMAIN leftover = 1 .. Len(leftover)
        BY <2>1
      <4>2. \A i \in 1 .. Len(leftover') : i + 1 \in 1 .. Len(leftover)
        BY <2>1, <2>5
      <4> QED BY <4>1, <4>2 DEF PumpOK, StashInPlace
    <3>2. DOMAIN leftover' = 1 .. Len(leftover')
      BY <2>5
    <3>3. \A i \in 1 .. Len(leftover') : leftover'[i] = Len(handed') + i
      BY <2>1, <2>4, <2>5, <3>1
    <3> QED BY <3>2, <3>3 DEF StashInPlace
  <2>7. PumpTypes' /\ Counted'
    BY <1>2, <2>1, <2>4, <2>5 DEF PumpOK, PumpTypes, Counted, EndOfInput
  <2>8. NoneParked'
    BY <1>3, <2>3, NotParked DEF PumpOK, ParkedOK, Hand, SessionOK
  <2> QED BY <2>4, <2>6, <2>7, <2>8 DEF PumpOK, ParkedOK
<1>4. CASE leftover = << >>
  <2>1. UNCHANGED <<leftover, handed>>
    BY <1>4 DEF InReads, Stashed
  <2>2. PumpTypes' /\ Counted' /\ HandedInPlace' /\ StashInPlace'
    BY <1>2, <2>1 DEF PumpOK, PumpTypes, Counted, HandedInPlace, StashInPlace
  <2> QED BY <1>4, <2>1, <2>2 DEF PumpOK, ParkedOK
<1> QED BY <1>3, <1>4

(* The parked reader takes the offer: it is handed out, as nothing was     *)
(* stashed before it, or it is stashed behind what was.                    *)
LEMMA InReceivesKeeps ==
  ASSUME SessionOK, cut \/ PumpOK, NEW s \in DOMAIN in, InReceives(s)
  PROVE  SessionOK' /\ (cut \/ PumpOK')
<1>1. SessionOK'
  BY CopierStepKeeps DEF InReceives, Hand, Quiet
<1> SUFFICES ASSUME ~cut, PumpOK
             PROVE  PumpOK'
  BY <1>1
<1>2. /\ held' = 0 /\ held # 0 /\ in[s] = "parked" /\ UNCHANGED <<plan, typed>>
  BY DEF InReceives
<1>3. /\ held = typed /\ ~eof /\ typed \in Nat /\ leftover = << >>
  BY <1>2, SessionAssumption
    DEF PumpOK, PumpTypes, Counted, ParkedOK, NoneParked,
                                 EndOfInput
<1>4. typed = Len(handed) + 1 /\ Len(handed) \in Nat
  BY <1>2, <1>3 DEF PumpOK, PumpTypes, Counted
<1>5. s \in DOMAIN plan
  BY DEF SessionOK, SessionTypes
<1>6. CASE eof' = TRUE /\ held = EndOfInput /\ UNCHANGED <<leftover, handed>>
  <2>1. PumpTypes'
    BY <1>2, <1>3, <1>4, <1>6 DEF PumpOK, PumpTypes
  <2>2. Counted'
    BY <1>2, <1>3, <1>4, <1>6 DEF Counted
  <2> QED BY <1>2, <1>3, <1>6, <2>1, <2>2
          DEF PumpOK, HandedInPlace, StashInPlace, ParkedOK
<1>7. CASE leftover' = Stash(held) /\ UNCHANGED <<eof, handed>> /\ CopierTo(s, "gone")
  <2>1. leftover' = <<typed>>
    BY <1>3, <1>7 DEF Stash
  <2>2. /\ Len(leftover') = 1 /\ leftover' \in Seq(Nat)
        /\ DOMAIN leftover' = {1} /\ leftover'[1] = typed
    BY <1>3, <2>1
  <2>3. PumpTypes'
    BY <1>2, <1>3, <1>7, <2>2 DEF PumpOK, PumpTypes
  <2>6. Counted'
    BY <1>2, <1>3, <1>4, <1>7, <2>2 DEF Counted
  <2>4. HandedInPlace' /\ StashInPlace'
    BY <1>4, <1>7, <2>2 DEF PumpOK, HandedInPlace, StashInPlace
  <2>5. NoneParked'
    <3>1. \A r \in DOMAIN in : in[r] = "parked" => r = cur
      BY ReaderIsLive DEF Quiet
    <3> QED BY <1>2, <1>7, <3>1
      DEF CopierTo, NoneParked, SessionOK, SessionTypes
  <2> QED BY <2>3, <2>4, <2>5, <2>6 DEF PumpOK, ParkedOK
<1>8. CASE Hand(s, held) /\ UNCHANGED <<leftover, eof>>
  <2>1. /\ handed' \in Seq((DOMAIN plan') \X Nat) /\ Len(handed') = Len(handed) + 1
        /\ HandedInPlace'
    BY <1>2, <1>3, <1>4, <1>5, <1>8, HandKeeps DEF PumpOK
  <2>2. PumpTypes' /\ Counted'
    BY <1>2, <1>3, <1>4, <1>8, <2>1 DEF PumpOK, PumpTypes, Counted
  <2>3. StashInPlace' /\ ParkedOK'
    BY <1>3, <1>8 DEF StashInPlace, ParkedOK
  <2> QED BY <2>1, <2>2, <2>3 DEF PumpOK
<1> QED BY <1>6, <1>7, <1>8 DEF InReceives

-----------------------------------------------------------------------------
(* The invariant is inductive.                                             *)

(* The first session of a program satisfies it.                            *)
LEMMA InitEstablishes ==
  ASSUME SessionInit
  PROVE  SessionInv
<1>1. plan \in Seq({"attach", "new"}) /\ plan # << >>
  BY SessionAssumption DEF SessionInit
<1>2. Len(plan) \in Nat \ {0} /\ DOMAIN plan = 1 .. Len(plan)
  BY <1>1
<1>3. cur \in DOMAIN plan
  BY <1>2 DEF SessionInit
<1>4. << >> \in Seq(Events)
  OBVIOUS
<1>5. ses \in SesType
  BY <1>4 DEF SessionInit, Fresh, SesType, RunSteps
<1>6. SessionTypes
  BY <1>3, <1>5 DEF SessionInit, SessionTypes
<1>7. CopiersOK
  BY <1>3 DEF SessionInit, Fresh, CopiersOK, Quiet
<1>8. CloseOK /\ TtyOK
  BY DEF SessionInit, Fresh, CloseOK, TtyOK
<1>9. /\ handed = << >> /\ leftover = << >> /\ Len(<< >>) = 0
      /\ \A S : << >> \in Seq(S)
      /\ typed = 0 /\ held = 0 /\ eof = FALSE
  BY DEF SessionInit
<1>10. PumpTypes /\ Counted
  <2>1. PumpTypes
    <3>1. 0 \in 0 .. EndOfInput
      BY SessionAssumption DEF EndOfInput
    <3> QED BY <1>9, <3>1 DEF PumpTypes
  <2>2. Len(handed) = 0 /\ Len(leftover) = 0
    BY <1>9
  <2> QED BY <1>9, <2>1, <2>2 DEF Counted
<1>11. HandedInPlace /\ StashInPlace /\ ParkedOK
  BY <1>9 DEF HandedInPlace, StashInPlace, ParkedOK
<1> QED BY <1>6, <1>7, <1>8, <1>10, <1>11 DEF SessionInv, SessionOK, PumpOK

(* A steady step leaves the pump alone, and so do the session's others.    *)
LEMMA SteadySteps ==
  ASSUME SessionInv,
         \/ RunStep /\ ~RawMode /\ ~WireInput
         \/ Attach \/ LoopServerGone \/ CopierStep
         \/ CloseStep /\ ~RestoreWaits /\ ~RestoreWrites /\ ~CloseEnds
         \/ (EnvStep /\ ~PumpReads)
  PROVE  Steady
<1>1. Begun /\ CloseOK
  BY DEF SessionInv, SessionOK, SessionTypes, CloseOK, Begun
<1>2. CASE RunStep /\ ~RawMode /\ ~WireInput
  BY <1>1, <1>2, RunnerMadeIsSteady, CreateMetadataIsSteady,
     OpenSocketCtrlIsSteady, StartServerIsSteady, TargetIsSteady,
     StartTerminalCmdIsSteady, DialIsSteady, ResizeIsSteady, PublishIsSteady,
     HelpIsSteady, WireOutputIsSteady, WaitReadyIsSteady,
     LoopEventIsSteady, LoopCloseRequestIsSteady, LoopCancelledIsSteady,
     DetachIsSteady, DetachRestoresIsSteady, RunClosesIsSteady, RunClosedIsSteady
     DEF RunStep
<1>3. CASE Attach \/ LoopServerGone \/ CopierStep
  BY <1>1, <1>3, AttachIsSteady, LoopServerGoneIsSteady, OutEndsIsSteady, ManagerLooksIsSteady, ManagerFiresIsSteady DEF CopierStep
<1>4. CASE CloseStep /\ ~RestoreWaits /\ ~RestoreWrites /\ ~CloseEnds
  BY <1>1, <1>4, CloseRestoresIsSteady, StopClosesIsSteady,
     RemoteAnsweredIsSteady, RemoteRestoresIsSteady DEF CloseStep
<1>5. CASE EnvStep /\ ~PumpReads
  BY <1>1, <1>5, StallsIsSteady, ResumesIsSteady, OutSticksIsSteady, StopRPCIsSteady, RemoteDetachIsSteady,
     ParentCancelledIsSteady, PeerClosesIsSteady, ChildExitsIsSteady DEF EnvStep
<1> QED BY <1>2, <1>3, <1>4, <1>5

(* What every step but the copiers' and the pump's leaves alone.           *)
LEMMA SessionStepsKeepPump ==
  ASSUME \/ RunStep \/ Attach \/ LoopServerGone \/ CloseStep \/ CopierStep
         \/ CallerStep \/ NextSession \/ (EnvStep /\ ~PumpReads)
  PROVE  UNCHANGED <<plan, pump>> /\ (WireInput \/ UNCHANGED in) /\ (cut => cut')
<1>1. CASE RunStep
  BY <1>1
    DEF RunStep, RunnerMade, CreateMetadata, OpenSocketCtrl, StartServer,
        Target,
        StartTerminalCmd, Dial, Resize, RawMode, Publish, WireInput, Help,
        WireOutput, WaitReady, LoopEvent,
        LoopCloseRequest, LoopCancelled, Detach, DetachRestores, RunCloses,
        RunClosed, To, Fails, Only, Trouble
<1>2. CASE Attach \/ LoopServerGone \/ CopierStep
  BY <1>2
    DEF Attach, LoopServerGone, CopierStep, OutEnds, ManagerLooks,
        ManagerFires, Fails, Only, Trouble
<1>3. CASE CloseStep
  <2>1. CASE RestoreWaits
    BY <2>1 DEF RestoreWaits, Only, pump
  <2>2. CASE CloseStep /\ ~RestoreWaits
    <3>1. CASE RestoreWrites
      BY <3>1 DEF RestoreWrites
    <3>2. CASE CloseRestores \/ CloseEnds \/ StopCloses
      BY <3>2 DEF CloseRestores, CloseEnds, StopCloses, Only
    <3>3. CASE RemoteAnswered
      <4> PICK x : Only(x)
        BY <3>3 DEF RemoteAnswered
      <4> QED BY DEF Only
    <3>4. CASE RemoteRestores
      <4> PICK x : Only(x)
        BY <3>4 DEF RemoteRestores
      <4> QED BY DEF Only
    <3> QED BY <2>2, <3>1, <3>2, <3>3, <3>4 DEF CloseStep
  <2> QED BY <1>3, <2>1, <2>2
<1>4. CASE CallerStep \/ NextSession
  BY <1>4 DEF CallerStep, CallerNotReady, CallerDrains, CallerCloses, CallerClosed,
        CallerReturns, NextSession, Only
<1>5. CASE EnvStep /\ ~PumpReads
  BY <1>5 DEF EnvStep, Stalls, Resumes, OutSticks, StopRPC, RemoteDetach, ParentCancelled,
        PeerCloses, ChildExits, Only, Trouble
<1> QED BY <1>1, <1>2, <1>3, <1>4, <1>5

(* Every step keeps it.                                                    *)
LEMMA StepKeeps ==
  ASSUME SessionInv, [SessionNext]_sessionVars
  PROVE  SessionInv'
<1>0. SessionOK /\ (cut \/ PumpOK)
  BY DEF SessionInv
<1> SUFFICES SessionOK' /\ (cut \/ PumpOK') /\ (cut => cut')
  BY <1>0 DEF SessionInv, SessionOK, SessionTypes
<1>1. CASE UNCHANGED sessionVars
  <2>1. SessionOK'
    BY <1>0, <1>1 DEF SessionOK, SessionTypes, CopiersOK, CloseOK, TtyOK,
                      CloseReturned, sessionVars
  <2>2. (cut \/ PumpOK') /\ cut' = cut
    BY <1>0, <1>1, PumpStays DEF sessionVars, NoneParked
  <2> QED BY <2>1, <2>2
<1>2. ASSUME \/ RunStep \/ Attach \/ LoopServerGone \/ CloseStep \/ CopierStep
             \/ CallerStep \/ NextSession \/ (EnvStep /\ ~PumpReads)
      PROVE  SessionOK' /\ (cut \/ PumpOK') /\ (cut => cut')
  <2>1. /\ UNCHANGED <<plan, pump>> /\ (WireInput \/ UNCHANGED in)
        /\ (cut => cut')
    BY <1>2, SessionStepsKeepPump
  <2>2. cut \/ PumpOK'
    <3>1. CASE WireInput
      <4>1. CopierTo(cur, "check") /\ cur \in DOMAIN in
        BY <1>0, <3>1 DEF WireInput, SessionOK, SessionTypes
      <4>2. NoneParked => NoneParked'
        BY <1>0, <4>1, NotParked DEF SessionOK, Quiet
      <4> QED BY <1>0, <2>1, <4>2, PumpStays
    <3>2. CASE UNCHANGED in
      BY <1>0, <2>1, <3>2, PumpStays DEF NoneParked
    <3> QED BY <2>1, <3>1, <3>2
  <2>3. SessionOK'
    <3>1. CASE Steady
      BY <1>0, <3>1, SteadyKeeps DEF SessionOK
    <3>2. CASE RawMode \/ WireInput \/ RestoreWaits \/ RestoreWrites \/ CloseEnds
      BY <1>0, <3>2, RawModeKeeps, WireInputKeeps, RestoreWaitsKeeps,
         RestoreWritesKeeps, CloseEndsKeeps
    <3>3. CASE CallerStep \/ NextSession
      BY <1>0, <3>3, CallerNotReadyKeeps, CallerDrainsKeeps, CallerClosesKeeps,
         CallerClosedKeeps, CallerReturnsKeeps, NextSessionKeeps DEF CallerStep
    <3> QED BY <1>2, <3>1, <3>2, <3>3, SteadySteps
  <2> QED BY <2>1, <2>2, <2>3
<1>3. CASE PumpReads
  <2>1. cut' = cut
    BY <1>3 DEF PumpReads
  <2> QED BY <1>0, <1>3, <2>1, PumpReadsKeeps
<1>4. ASSUME NEW s \in DOMAIN in, InStep(s) \/ InWrites(s)
      PROVE  SessionOK' /\ (cut \/ PumpOK') /\ (cut => cut')
  <2>1. cut' = cut
    BY <1>4 DEF InStep, InCheck, InReads, InCancelled, InReceives, InFilters,
                InWrites, InWriteFails
  <2> QED BY <1>0, <1>4, <2>1, InCheckKeeps, InReadsKeeps, InCancelledKeeps,
             InReceivesKeeps, InFiltersKeeps, InWritesKeeps DEF InStep
<1> QED BY <1>1, <1>2, <1>3, <1>4 DEF SessionNext, EnvStep

(* It holds in every state.                                                *)
LEMMA SessionInvariant == SessionSpec => []SessionInv
<1>1. SessionInit => SessionInv
  BY InitEstablishes
<1>2. SessionInv /\ [SessionNext]_sessionVars => SessionInv'
  BY StepKeeps
<1> QED BY <1>1, <1>2, PTL DEF SessionSpec

-----------------------------------------------------------------------------
(* What the invariant says.                                                *)

(* Two sequences that count on from each other.                            *)
LEMMA CountsOn ==
  ASSUME NEW s \in Seq(Nat), NEW t \in Seq(Nat),
         \A i \in 1 .. Len(s) : s[i] = i,
         \A i \in 1 .. Len(t) : t[i] = Len(s) + i
  PROVE  /\ s \o t \in Seq(Nat) /\ Len(s \o t) = Len(s) + Len(t)
         /\ \A i \in 1 .. Len(s \o t) : (s \o t)[i] = i
<1>1. s \o t \in Seq(Nat) /\ Len(s \o t) = Len(s) + Len(t)
  OBVIOUS
<1>2. ASSUME NEW i \in 1 .. Len(s \o t)
      PROVE  (s \o t)[i] = i
  <2>1. CASE i <= Len(s)
    BY <1>1, <2>1
  <2>2. CASE i > Len(s)
    <3>1. i - Len(s) \in 1 .. Len(t)
      BY <1>1, <2>2
    <3>2. (s \o t)[i] = t[i - Len(s)]
      BY <1>1, <2>2
    <3> QED BY <3>1, <3>2
  <2> QED BY <2>1, <2>2
<1> QED BY <1>1, <1>2

(* A sequence that counts is 1 .. n.                                       *)
LEMMA CountedUp ==
  ASSUME NEW r \in Seq(Nat), NEW n \in Nat, Len(r) = n, \A i \in 1 .. n : r[i] = i
  PROVE  r = [i \in 1 .. n |-> i]
OBVIOUS

(* Counted place by place, the chunks are 1 .. typed.                      *)
LEMMA InvGivesInputInOrder ==
  ASSUME PumpOK
  PROVE  InputInOrder
<1> PICK h, b, c : /\ h = [i \in DOMAIN handed |-> handed[i][2]]
                   /\ b = (IF held = 0 THEN << >> ELSE <<held>>)
                   /\ c = (IF eof THEN <<EndOfInput>> ELSE << >>)
  OBVIOUS
<1>1. /\ typed \in Nat /\ EndOfInput \in Nat /\ held \in {0, typed}
      /\ eof \in BOOLEAN /\ leftover \in Seq(Nat)
      /\ DOMAIN handed = 1 .. Len(handed) /\ Len(handed) \in Nat
  BY SessionAssumption DEF PumpOK, PumpTypes, EndOfInput
<1>2. h = [i \in 1 .. Len(handed) |-> i]
  BY <1>1 DEF PumpOK, HandedInPlace
<1>3. h \in Seq(Nat) /\ Len(h) = Len(handed) /\ \A i \in 1 .. Len(h) : h[i] = i
  BY <1>1, <1>2
<1>4. /\ h \o leftover \in Seq(Nat) /\ Len(h \o leftover) = Len(h) + Len(leftover)
      /\ \A i \in 1 .. Len(h \o leftover) : (h \o leftover)[i] = i
  <2>1. \A i \in 1 .. Len(leftover) : leftover[i] = Len(h) + i
    BY <1>1, <1>3 DEF PumpOK, StashInPlace
  <2> QED BY <1>1, <1>3, <2>1, CountsOn
<1> PICK l \in Seq(Nat) : l = h \o leftover
  BY <1>4
<1>5. /\ b \in Seq(Nat) /\ Len(b) = (IF held = 0 THEN 0 ELSE 1)
      /\ \A i \in 1 .. Len(b) : b[i] = typed
  BY <1>1
<1>6. /\ c \in Seq(Nat) /\ Len(c) = (IF eof THEN 1 ELSE 0)
      /\ \A i \in 1 .. Len(c) : c[i] = EndOfInput
  BY <1>1
<1>7. Len(l) + Len(b) + Len(c) = typed
  BY <1>1, <1>3, <1>4, <1>5, <1>6 DEF PumpOK, Counted
<1>8. /\ l \o b \in Seq(Nat) /\ Len(l \o b) = Len(l) + Len(b)
      /\ \A i \in 1 .. Len(l \o b) : (l \o b)[i] = i
  <2>1. \A i \in 1 .. Len(b) : b[i] = Len(l) + i
    <3>1. CASE held = 0
      BY <1>5, <3>1
    <3>2. CASE held # 0
      <4>1. ~eof /\ Len(b) = 1 /\ Len(c) = 0
        BY <1>1, <1>5, <1>6, <3>2 DEF PumpOK, Counted
      <4>2. Len(l) \in Nat /\ typed = Len(l) + 1
        BY <1>1, <1>7, <4>1
      <4>3. \A i \in 1 .. Len(b) : i = 1
        BY <4>1
      <4> QED BY <1>5, <4>2, <4>3
    <3> QED BY <3>1, <3>2
  <2> QED BY <1>4, <1>5, <2>1, CountsOn
<1> PICK m \in Seq(Nat) : m = l \o b
  BY <1>8
<1>9. /\ m \o c \in Seq(Nat) /\ Len(m \o c) = Len(m) + Len(c)
      /\ \A i \in 1 .. Len(m \o c) : (m \o c)[i] = i
  <2>1. \A i \in 1 .. Len(c) : c[i] = Len(m) + i
    <3>1. CASE ~eof
      BY <1>6, <3>1
    <3>2. CASE eof
      <4>1. typed = EndOfInput /\ Len(c) = 1
        BY <1>6, <3>2 DEF PumpOK, Counted
      <4>2. Len(m) \in Nat /\ typed = Len(m) + 1
        BY <1>1, <1>7, <1>8, <4>1
      <4>3. \A i \in 1 .. Len(c) : i = 1
        BY <4>1
      <4> QED BY <1>6, <4>1, <4>2, <4>3
    <3> QED BY <3>1, <3>2
  <2> QED BY <1>6, <1>8, <2>1, CountsOn
<1> PICK r \in Seq(Nat) : r = m \o c
  BY <1>9
<1>11. Len(r) = typed /\ \A i \in 1 .. Len(r) : r[i] = i
  BY <1>7, <1>8, <1>9
<1>12. m \o c = [i \in 1 .. typed |-> i]
  <2> PICK n \in Nat : n = typed
    BY <1>1
  <2>1. Len(r) = n /\ \A i \in 1 .. n : r[i] = i
    BY <1>11
  <2>2. r = [i \in 1 .. n |-> i]
    BY <2>1, CountedUp
  <2> QED BY <2>2
<1> QED BY <1>12 DEF InputInOrder

(* stdin_pump.go: what the pump has read is handed out once, in order, to  *)
(* whichever session reads, and what no session took is kept for the next, *)
(* unless a restore has left a copier behind that was still reading.       *)
THEOREM InputInOrderAlways == SessionSpec => []InputInOrder
<1>1. SessionInv => InputInOrder
  BY InvGivesInputInOrder DEF SessionInv, InputInOrder
<1> QED BY <1>1, SessionInvariant, PTL

(* clientrunner's restore: when the caller has been let go, its terminal   *)
(* is cooked again, unless the only restore came before raw mode was set   *)
(* and published, or a Stop's Close is still at work.                      *)
THEOREM TtyRestoredAlways == SessionSpec => []TtyRestored
<1>1. SessionInv => TtyRestored
  BY DEF SessionInv, SessionOK, SessionTypes, SesType, CloseOK, TtyOK, TtyRestored
<1> QED BY <1>1, SessionInvariant, PTL

(* Only a step of a copier's read or receive hands a chunk out.            *)
LEMMA HandsToLive ==
  ASSUME SessionInv, [SessionNext]_sessionVars,
         ~cut, NEW i \in DOMAIN handed' \ DOMAIN handed
  PROVE  handed'[i][1] = cur /\ ~ses.closed
<1>1. SessionOK /\ PumpOK
  BY DEF SessionInv
<1>2. handed' # handed
  OBVIOUS
<1>3. PICK s \in DOMAIN in : InReads(s) \/ InReceives(s)
  <2>1. ~UNCHANGED sessionVars /\ ~UNCHANGED pump
    BY <1>2 DEF sessionVars, pump
  <2>2. ~PumpReads
    BY <1>2 DEF PumpReads
  <2>3. PICK s \in DOMAIN in : InStep(s) \/ InWrites(s)
    BY <2>1, <2>2, SessionStepsKeepPump DEF SessionNext, EnvStep
  <2> QED BY <2>1, <2>3 DEF InStep, InCheck, InCancelled, InFilters, InWrites,
                            InWriteFails
<1>4. s = cur /\ ~ses.closed
  BY <1>1, <1>3, ReaderIsLive DEF InReads, InReceives, Quiet
<1>5. PICK c : handed' = Append(handed, <<s, c>>)
  BY <1>2, <1>3 DEF InReads, InReceives, Hand
<1>6. handed \in Seq((DOMAIN plan) \X Nat)
  BY <1>1 DEF PumpOK, PumpTypes
<1>7. /\ DOMAIN handed = 1 .. Len(handed) /\ Len(handed) \in Nat
      /\ DOMAIN handed' = 1 .. Len(handed) + 1
      /\ handed'[Len(handed) + 1] = <<s, c>>
  BY <1>5, <1>6
<1>8. i = Len(handed) + 1
  BY <1>7
<1> QED BY <1>4, <1>7, <1>8

(* No closed session, and none but the current, is handed input, with the  *)
(* same exception.                                                         *)
THEOREM InputGoesToTheLive == SessionSpec => InputToLiveSession
<1>1. SessionInv /\ [SessionNext]_sessionVars =>
        [\A i \in DOMAIN handed' \ DOMAIN handed :
           cut \/ (handed'[i][1] = cur /\ ~ses.closed)]_sessionVars
  BY HandsToLive
<1> QED BY <1>1, SessionInvariant, PTL DEF SessionSpec, InputToLiveSession

=============================================================================
