--------------------------- MODULE TerminalProofs ---------------------------
(***************************************************************************)
(* Proofs about a terminal process, from the inside out: the safety of the *)
(* runner; the controller, which takes only steps of the runner and so     *)
(* inherits its invariants, and what a closed controller, a returned Run   *)
(* and its error tell of the runner; the exit of the process after a Close *)
(* of Run's own.                                                           *)
(***************************************************************************)
EXTENDS TerminalMain, TLAPS

-----------------------------------------------------------------------------
(* TerminalRunner.                                                         *)

\* trySendEvent keeps the event channel a sequence of events.
LEMMA SendEventTypes ==
  ASSUME TypeOK, NEW e \in {"error", "exited"}, TrySendEvent(e)
  PROVE  events' \in Seq({"error", "exited"}) /\ dropped' \in BOOLEAN
<1>1. CASE Len(events) < EventCap
  <2>1. events' = Append(events, e) /\ dropped' = dropped
    BY <1>1 DEF TrySendEvent
  <2> QED
    BY <2>1 DEF TypeOK
<1>2. CASE ~(Len(events) < EventCap)
  BY <1>2 DEF TrySendEvent, TypeOK
<1> QED
  BY <1>1, <1>2

\* A step of the start sequence keeps the types.
LEMMA StartStepTypes ==
  ASSUME TypeOK, StartStep
  PROVE  TypeOK'
<1> USE DEF TypeOK, StartSteps, CloseSteps, States, startVars, closeVars,
     childVars, watchVars, ptyVars, rpcVars, eventVars
<1>1. CASE CreateMetadata
  BY <1>1 DEF CreateMetadata, StartMovesTo
<1>2. CASE OpenSocketCtrl
  BY <1>2 DEF OpenSocketCtrl, StartFails
<1>3. CASE StartServer
  BY <1>3 DEF StartServer, StartFails
<1>4. CASE PrepareCommand
  BY <1>4 DEF PrepareCommand, StartMovesTo, SaveState, WriteOutcomes
<1>5. CASE Fork
  BY <1>5 DEF Fork, StartFails
<1>6. CASE RegisterChild
  BY <1>6 DEF RegisterChild, StartFails
<1>7. CASE SpawnWatch
  BY <1>7 DEF SpawnWatch
<1>8. CASE OpenCapture
  BY <1>8 DEF OpenCapture, StartFails
<1>9. CASE WirePipes
  BY <1>9 DEF WirePipes, StartFails
<1>10. CASE SpawnWaiter
  BY <1>10 DEF SpawnWaiter, SaveState, WriteOutcomes
<1>11. CASE SetupShell
  BY <1>11 DEF SetupShell, Announce, SaveState, WriteOutcomes
<1>12. CASE WritePrompt
  BY <1>12 DEF WritePrompt
<1>13. CASE OnInitShell
  BY <1>13 DEF OnInitShell, Announce, SaveState, WriteOutcomes
<1>14. CASE WriteStage
  <2>1. start' \in {"ready", "failed"}
    BY <1>14 DEF WriteStage
  <2>2. state' \in States
    BY <1>14 DEF WriteStage, SaveState
  <2> QED
    BY <1>14, <2>1, <2>2 DEF WriteStage
<1> QED
  BY <1>1, <1>2, <1>3, <1>4, <1>5, <1>6, <1>7, <1>8, <1>9, <1>10, <1>11,
     <1>12, <1>13, <1>14 DEF StartStep


\* A step of Close keeps the types.
LEMMA CloseStepTypes ==
  ASSUME TypeOK, CloseStep
  PROVE  TypeOK'
<1> USE DEF TypeOK, StartSteps, CloseSteps, States, startVars, closeVars,
     childVars, watchVars, ptyVars, rpcVars, eventVars
<1>1. CASE LatchClosing
  BY <1>1 DEF LatchClosing, CloseMoves
<1>2. CASE SnapshotChild
  BY <1>2 DEF SnapshotChild, CloseMoves
<1>3. CASE SendTerm
  BY <1>3 DEF SendTerm, Signal, CloseMoves
<1>4. CASE ChildDoneInTime
  BY <1>4 DEF ChildDoneInTime
<1>5. CASE GraceExpires
  <2>1. signals' \in SUBSET {"TERM", "KILL"}
    BY <1>5 DEF GraceExpires, Signal
  <2>2. close' = "reap"
    BY <1>5 DEF GraceExpires, CloseMoves
  <2> QED
    BY <1>5, <2>1, <2>2 DEF GraceExpires
<1>6. CASE KillGraceExpires
  BY <1>6 DEF KillGraceExpires, CloseMoves
<1>7. CASE CancelCtx
  BY <1>7 DEF CancelCtx, CloseMoves
<1>8. CASE StopForwarder
  BY <1>8 DEF StopForwarder, CloseMoves
<1>9. CASE StopReaper
  BY <1>9 DEF StopReaper, ReapZombie, CloseMoves
<1>10. CASE CloseListener
  BY <1>10 DEF CloseListener, CloseMoves
<1>11. CASE CloseMaster
  BY <1>11 DEF CloseMaster, ClosePTY, CloseMoves
<1>12. CASE CloseCapture
  BY <1>12 DEF CloseCapture, CloseMoves
<1>13. CASE FinishClose
  BY <1>13 DEF FinishClose, CloseMoves
<1>14. CASE SendTermToSelf
  <2>1. ctxDone' \in BOOLEAN
    BY <1>14 DEF SendTermToSelf
  <2> QED
    BY <1>14, <2>1 DEF SendTermToSelf, CloseMoves
<1> QED
  BY <1>1, <1>2, <1>3, <1>4, <1>5, <1>6, <1>7, <1>8, <1>9, <1>10, <1>11,
     <1>12, <1>13, <1>14 DEF CloseStep


\* A step of a goroutine keeps the types.
LEMMA GoroutineStepTypes ==
  ASSUME TypeOK, GoroutineStep
  PROVE  TypeOK'
<1> USE DEF TypeOK, StartSteps, CloseSteps, States, startVars, closeVars,
     childVars, watchVars, ptyVars, rpcVars, eventVars
<1>1. CASE Reap
  BY <1>1 DEF Reap, ReapZombie
<1>2. CASE AwaitExit
  BY <1>2 DEF AwaitExit
<1>3. CASE MarkChildDone
  BY <1>3 DEF MarkChildDone
<1>4. CASE Rendezvous
  BY <1>4 DEF Rendezvous
<1>5. CASE WatchGivesUp
  BY <1>5 DEF WatchGivesUp
<1>6. CASE WaiterGivesUp
  BY <1>6 DEF WaiterGivesUp
<1>7. CASE ReportExit
  <2>1. events' \in Seq({"error", "exited"}) /\ dropped' \in BOOLEAN
    BY <1>7, SendEventTypes DEF ReportExit
  <2> QED
    BY <1>7, <2>1 DEF ReportExit
<1>8. CASE ReadPTY
  BY <1>8 DEF ReadPTY
<1>9. CASE WriteFanOut
  BY <1>9 DEF WriteFanOut
<1>10. CASE ReaderFails
  <2>1. events' \in Seq({"error", "exited"}) /\ dropped' \in BOOLEAN
    BY <1>10, SendEventTypes DEF ReaderFails
  <2> QED
    BY <1>10, <2>1 DEF ReaderFails
<1>11. CASE WriterFails
  <2>1. events' \in Seq({"error", "exited"}) /\ dropped' \in BOOLEAN
    BY <1>11, SendEventTypes DEF WriterFails
  <2> QED
    BY <1>11, <2>1 DEF WriterFails
<1>12. CASE CtxClosesPTY
  BY <1>12 DEF CtxClosesPTY, ClosePTY
<1>13. CASE CtxClosesListener
  BY <1>13 DEF CtxClosesListener
<1>14. CASE ServerExits
  BY <1>14 DEF ServerExits
<1>15. CASE AcceptFails
  BY <1>15 DEF AcceptFails
<1>16. CASE ReleaseProcess
  BY <1>16 DEF ReleaseProcess
<1> QED
  BY <1>1, <1>2, <1>3, <1>4, <1>5, <1>6, <1>7, <1>8, <1>9, <1>10, <1>11,
     <1>12, <1>13, <1>14, <1>15, <1>16 DEF GoroutineStep


\* Every variable of the runner keeps its type (the fields of Exec and the
\* program points of its goroutines), in every mode and environment.
THEOREM TypeCorrect == Spec => []TypeOK
<1>1. RunnerInit => TypeOK
  <2> SUFFICES ASSUME RunnerInit PROVE TypeOK
    OBVIOUS
  <2>1. events \in Seq({"error", "exited"})
    BY DEF RunnerInit
  <2>2. reaper \in {"off", "running", "stopped"}
    BY DEF RunnerInit
  <2> QED
    BY <2>1, <2>2 DEF RunnerInit, TypeOK, StartSteps, CloseSteps, States
<1>2. TypeOK /\ [Next]_runnerVars => TypeOK'
  <2> SUFFICES ASSUME TypeOK, [Next]_runnerVars PROVE TypeOK'
    OBVIOUS
  <2> USE DEF TypeOK, StartSteps, CloseSteps, States, startVars, closeVars,
        childVars, watchVars, ptyVars, rpcVars, eventVars
  <2>1. CASE StartStep
    BY <2>1, StartStepTypes
  <2>2. CASE BeginClose
    BY <2>2 DEF BeginClose, CloseMoves, SaveState, WriteOutcomes
  <2>3. CASE CloseStep
    BY <2>3, CloseStepTypes
  <2>4. CASE ChildExits
    BY <2>4 DEF ChildExits
  <2>5. CASE GoroutineStep
    BY <2>5, GoroutineStepTypes
  <2>6. CASE CancelParent
    BY <2>6 DEF CancelParent
  <2>7. CASE TakeEvent
    BY <2>7 DEF TakeEvent
  <2>8. CASE UNCHANGED runnerVars
    BY <2>8 DEF runnerVars
  <2> QED
    BY <2>1, <2>2, <2>3, <2>4, <2>5, <2>6, <2>7, <2>8 DEF Next
<1> QED
  BY <1>1, <1>2, PTL DEF Spec

-----------------------------------------------------------------------------
(***************************************************************************)
(* NoSurvivor.  ChildInv adds to it what each goroutine knows of the       *)
(* child: nobody forks once closing is latched; a childDone that is set,   *)
(* and an exit the reaper recorded, mean that the child was reaped; and in *)
(* init mode, where watchChildExit also ends on a cancelled context, the   *)
(* context is cancelled by Close alone: after shutdownChild, or by the     *)
(* SIGTERM it sends to sbsh itself when the child has been reaped.         *)
(***************************************************************************)
ChildInv ==
  /\ closing <=> close \notin {"idle", "latch"}
  /\ start \in BeforeFork => child = "none"
  /\ (childDone \/ watch \in {"exited", "released", "send", "done"}) =>
        (child = "reaped" \/ (InitMode /\ ctxDone))
  /\ tracked \in {"pending", "full", "taken"} => child = "reaped"
  /\ InitMode /\ ctxDone => close \in PastShutdown \/ child = "reaped"
  /\ close \in {"sigself", "graceself"} => InitMode /\ child = "reaped"
  /\ watch = "released" => InitMode
  /\ close = "reap" /\ child = "running" => "KILL" \in signals
  /\ NoSurvivor

\* A step of the start sequence keeps ChildInv.
LEMMA StartStepChild ==
  ASSUME TypeOK, ChildInv, StartStep
  PROVE  ChildInv'
<1> USE DEF ChildInv, NoSurvivor, BeforeFork, PastShutdown, startVars,
     closeVars, childVars, watchVars, ptyVars, rpcVars, eventVars
<1>1. CASE CreateMetadata
  BY <1>1 DEF CreateMetadata, StartMovesTo
<1>2. CASE OpenSocketCtrl
  BY <1>2 DEF OpenSocketCtrl, StartFails
<1>3. CASE StartServer
  BY <1>3 DEF StartServer, StartFails
<1>4. CASE PrepareCommand
  BY <1>4 DEF PrepareCommand, StartMovesTo, SaveState, WriteOutcomes
<1>5. CASE Fork
  BY <1>5 DEF Fork, StartFails
<1>6. CASE RegisterChild
  BY <1>6 DEF RegisterChild, StartFails
<1>7. CASE SpawnWatch
  BY <1>7 DEF SpawnWatch
<1>8. CASE OpenCapture
  BY <1>8 DEF OpenCapture, StartFails
<1>9. CASE WirePipes
  BY <1>9 DEF WirePipes, StartFails
<1>10. CASE SpawnWaiter
  BY <1>10 DEF SpawnWaiter, SaveState, WriteOutcomes
<1>11. CASE SetupShell
  BY <1>11 DEF SetupShell, Announce, SaveState, WriteOutcomes
<1>12. CASE WritePrompt
  BY <1>12 DEF WritePrompt
<1>13. CASE OnInitShell
  BY <1>13 DEF OnInitShell, Announce, SaveState, WriteOutcomes
<1>14. CASE WriteStage
  BY <1>14 DEF WriteStage, SaveState, WriteOutcomes, PTYWriteMayFail
<1> QED
  BY <1>1, <1>2, <1>3, <1>4, <1>5, <1>6, <1>7, <1>8, <1>9, <1>10, <1>11,
     <1>12, <1>13, <1>14 DEF StartStep

\* A step of Close keeps ChildInv.
LEMMA CloseStepChild ==
  ASSUME TypeOK, ChildInv, CloseStep
  PROVE  ChildInv'
<1> USE DEF ChildInv, NoSurvivor, BeforeFork, PastShutdown, startVars,
     closeVars, childVars, watchVars, ptyVars, rpcVars, eventVars
<1>1. CASE LatchClosing
  BY <1>1 DEF LatchClosing, CloseMoves
<1>2. CASE SnapshotChild
  BY <1>2 DEF SnapshotChild, CloseMoves
<1>3. CASE SendTerm
  BY <1>3 DEF SendTerm, Signal, CloseMoves
<1>4. CASE ChildDoneInTime
  BY <1>4 DEF ChildDoneInTime
<1>5. CASE GraceExpires
  BY <1>5 DEF GraceExpires, Signal, CloseMoves
<1>6. CASE KillGraceExpires
  BY <1>6 DEF KillGraceExpires, CloseMoves
<1>7. CASE CancelCtx
  BY <1>7 DEF CancelCtx, CloseMoves
<1>8. CASE StopForwarder
  BY <1>8 DEF StopForwarder, CloseMoves
<1>9. CASE StopReaper
  BY <1>9 DEF StopReaper, ReapZombie, CloseMoves
<1>10. CASE CloseListener
  BY <1>10 DEF CloseListener, CloseMoves
<1>11. CASE CloseMaster
  BY <1>11 DEF CloseMaster, ClosePTY, CloseMoves
<1>12. CASE CloseCapture
  BY <1>12 DEF CloseCapture, CloseMoves
<1>13. CASE FinishClose
  BY <1>13 DEF FinishClose, CloseMoves
<1>14. CASE SendTermToSelf
  BY <1>14 DEF SendTermToSelf, CloseMoves
<1> QED
  BY <1>1, <1>2, <1>3, <1>4, <1>5, <1>6, <1>7, <1>8, <1>9, <1>10, <1>11,
     <1>12, <1>13, <1>14 DEF CloseStep

\* A step of a goroutine keeps ChildInv.
LEMMA GoroutineStepChild ==
  ASSUME TypeOK, ChildInv, GoroutineStep
  PROVE  ChildInv'
<1> USE DEF ChildInv, NoSurvivor, BeforeFork, PastShutdown, startVars,
     closeVars, childVars, watchVars, ptyVars, rpcVars, eventVars
<1>1. CASE Reap
  BY <1>1 DEF Reap, ReapZombie
<1>2. CASE AwaitExit
  BY <1>2 DEF AwaitExit
<1>3. CASE MarkChildDone
  BY <1>3 DEF MarkChildDone
<1>4. CASE Rendezvous
  BY <1>4 DEF Rendezvous
<1>5. CASE WatchGivesUp
  BY <1>5 DEF WatchGivesUp
<1>6. CASE WaiterGivesUp
  BY <1>6 DEF WaiterGivesUp
<1>7. CASE ReportExit
  BY <1>7 DEF ReportExit
<1>8. CASE ReadPTY
  BY <1>8 DEF ReadPTY
<1>9. CASE WriteFanOut
  BY <1>9 DEF WriteFanOut
<1>10. CASE ReaderFails
  BY <1>10 DEF ReaderFails
<1>11. CASE WriterFails
  BY <1>11 DEF WriterFails
<1>12. CASE CtxClosesPTY
  BY <1>12 DEF CtxClosesPTY, ClosePTY
<1>13. CASE CtxClosesListener
  BY <1>13 DEF CtxClosesListener
<1>14. CASE ServerExits
  BY <1>14 DEF ServerExits
<1>15. CASE AcceptFails
  BY <1>15 DEF AcceptFails
<1>16. CASE ReleaseProcess
  BY <1>16 DEF ReleaseProcess
<1> QED
  BY <1>1, <1>2, <1>3, <1>4, <1>5, <1>6, <1>7, <1>8, <1>9, <1>10, <1>11,
     <1>12, <1>13, <1>14, <1>15, <1>16 DEF GoroutineStep

\* Close leaves no child behind (shutdownChild, the closing latch of startPty,
\* the PID-1 reaper), outside init mode, and in init mode as long as nobody
\* cancels the context the runner was given.
THEOREM NothingSurvivesClose ==
  ASSUME ~(InitMode /\ "cancel" \in Env)
  PROVE  Spec => []NoSurvivor
<1>1. RunnerInit => ChildInv
  BY DEF RunnerInit, ChildInv, NoSurvivor, BeforeFork, PastShutdown
<1>2. TypeOK /\ ChildInv /\ [Next]_runnerVars => ChildInv'
  <2> SUFFICES ASSUME TypeOK, ChildInv, [Next]_runnerVars PROVE ChildInv'
    OBVIOUS
  <2> USE DEF ChildInv, NoSurvivor, BeforeFork, PastShutdown, startVars,
        closeVars, childVars, watchVars, ptyVars, rpcVars, eventVars
  <2>1. CASE StartStep
    BY <2>1, StartStepChild
  <2>2. CASE BeginClose
    BY <2>2 DEF BeginClose, CloseMoves
  <2>3. CASE CloseStep
    BY <2>3, CloseStepChild
  <2>4. CASE ChildExits
    BY <2>4 DEF ChildExits
  <2>5. CASE GoroutineStep
    BY <2>5, GoroutineStepChild
  <2>6. CASE CancelParent
    BY <2>6 DEF CancelParent
  <2>7. CASE TakeEvent
    BY <2>7 DEF TakeEvent
  <2>8. CASE UNCHANGED runnerVars
    BY <2>8 DEF runnerVars
  <2> QED
    BY <2>1, <2>2, <2>3, <2>4, <2>5, <2>6, <2>7, <2>8 DEF Next
<1>3. ChildInv => NoSurvivor
  BY DEF ChildInv
<1> QED
  BY <1>1, <1>2, <1>3, TypeCorrect, PTL DEF Spec

-----------------------------------------------------------------------------
(***************************************************************************)
(* NoEventLost.  Three goroutines report to the caller, each once and as   *)
(* its last act: the events queued and those still due never exceed three. *)
(***************************************************************************)
BeforeWire == BeforeWatch \cup {"watched", "captured"}
Due(pc) == IF pc = "done" THEN 0 ELSE 1

EventInv ==
  /\ start \in BeforeWire => reader = "none" /\ writer = "none"
  /\ start \in BeforeWire \cup {"wired"} => waiter = "none"
  /\ Len(events) + Due(reader) + Due(writer) + Due(waiter) <= 3
  /\ ~dropped

\* The length of the event queue is a number.
LEMMA QueueLength == ASSUME TypeOK PROVE Len(events) \in Nat
BY DEF TypeOK

\* A goroutine that has not ended owes one event.
LEMMA DueValues ==
  \A pc : /\ Due(pc) \in {0, 1}
          /\ pc = "done" => Due(pc) = 0
          /\ pc # "done" => Due(pc) = 1
BY DEF Due

\* With room in the channel, trySendEvent queues the event.
LEMMA SendEventCounts ==
  ASSUME TypeOK, Len(events) < 3, NEW e, TrySendEvent(e)
  PROVE  Len(events') = Len(events) + 1 /\ dropped' = dropped
<1>1. Len(events) \in Nat
  BY DEF TypeOK
<1>2. events' = Append(events, e) /\ dropped' = dropped
  BY <1>1, RunnerAssumption DEF TrySendEvent
<1> QED
  BY <1>2 DEF TypeOK

\* A step of the start sequence keeps EventInv.
LEMMA StartStepEvents ==
  ASSUME TypeOK, EventInv, StartStep
  PROVE  EventInv'
<1> USE QueueLength, DueValues
<1> USE DEF EventInv, BeforeWire, BeforeWatch, BeforeFork, startVars,
     closeVars, childVars, watchVars, ptyVars, rpcVars, eventVars
<1>1. CASE CreateMetadata
  BY <1>1 DEF CreateMetadata, StartMovesTo
<1>2. CASE OpenSocketCtrl
  BY <1>2 DEF OpenSocketCtrl, StartFails
<1>3. CASE StartServer
  BY <1>3 DEF StartServer, StartFails
<1>4. CASE PrepareCommand
  BY <1>4 DEF PrepareCommand, StartMovesTo, SaveState, WriteOutcomes
<1>5. CASE Fork
  BY <1>5 DEF Fork, StartFails
<1>6. CASE RegisterChild
  BY <1>6 DEF RegisterChild, StartFails
<1>7. CASE SpawnWatch
  BY <1>7 DEF SpawnWatch
<1>8. CASE OpenCapture
  BY <1>8 DEF OpenCapture, StartFails
<1>9. CASE WirePipes
  BY <1>9 DEF WirePipes, StartFails
<1>10. CASE SpawnWaiter
  BY <1>10 DEF SpawnWaiter, SaveState, WriteOutcomes
<1>11. CASE SetupShell
  BY <1>11 DEF SetupShell, Announce, SaveState, WriteOutcomes
<1>12. CASE WritePrompt
  BY <1>12 DEF WritePrompt
<1>13. CASE OnInitShell
  BY <1>13 DEF OnInitShell, Announce, SaveState, WriteOutcomes
<1>14. CASE WriteStage
  BY <1>14 DEF WriteStage, SaveState, WriteOutcomes, PTYWriteMayFail
<1> QED
  BY <1>1, <1>2, <1>3, <1>4, <1>5, <1>6, <1>7, <1>8, <1>9, <1>10, <1>11,
     <1>12, <1>13, <1>14 DEF StartStep

\* A step of Close keeps EventInv.
LEMMA CloseStepEvents ==
  ASSUME TypeOK, EventInv, CloseStep
  PROVE  EventInv'
<1> USE QueueLength, DueValues
<1> USE DEF EventInv, BeforeWire, BeforeWatch, BeforeFork, startVars,
     closeVars, childVars, watchVars, ptyVars, rpcVars, eventVars
<1>1. CASE LatchClosing
  BY <1>1 DEF LatchClosing, CloseMoves
<1>2. CASE SnapshotChild
  BY <1>2 DEF SnapshotChild, CloseMoves
<1>3. CASE SendTerm
  BY <1>3 DEF SendTerm, Signal, CloseMoves
<1>4. CASE ChildDoneInTime
  BY <1>4 DEF ChildDoneInTime
<1>5. CASE GraceExpires
  BY <1>5 DEF GraceExpires, Signal, CloseMoves
<1>6. CASE KillGraceExpires
  BY <1>6 DEF KillGraceExpires, CloseMoves
<1>7. CASE CancelCtx
  BY <1>7 DEF CancelCtx, CloseMoves
<1>8. CASE StopForwarder
  BY <1>8 DEF StopForwarder, CloseMoves
<1>9. CASE StopReaper
  BY <1>9 DEF StopReaper, ReapZombie, CloseMoves
<1>10. CASE CloseListener
  BY <1>10 DEF CloseListener, CloseMoves
<1>11. CASE CloseMaster
  BY <1>11 DEF CloseMaster, ClosePTY, CloseMoves
<1>12. CASE CloseCapture
  BY <1>12 DEF CloseCapture, CloseMoves
<1>13. CASE FinishClose
  BY <1>13 DEF FinishClose, CloseMoves
<1>14. CASE SendTermToSelf
  BY <1>14 DEF SendTermToSelf, CloseMoves
<1> QED
  BY <1>1, <1>2, <1>3, <1>4, <1>5, <1>6, <1>7, <1>8, <1>9, <1>10, <1>11,
     <1>12, <1>13, <1>14 DEF CloseStep

\* A step of a goroutine keeps EventInv.
LEMMA GoroutineStepEvents ==
  ASSUME TypeOK, EventInv, GoroutineStep
  PROVE  EventInv'
<1> USE QueueLength, DueValues
<1> USE DEF EventInv, BeforeWire, BeforeWatch, BeforeFork, startVars,
     closeVars, childVars, watchVars, ptyVars, rpcVars, eventVars
<1>1. CASE Reap
  BY <1>1 DEF Reap, ReapZombie
<1>2. CASE AwaitExit
  BY <1>2 DEF AwaitExit
<1>3. CASE MarkChildDone
  BY <1>3 DEF MarkChildDone
<1>4. CASE Rendezvous
  BY <1>4 DEF Rendezvous
<1>5. CASE WatchGivesUp
  BY <1>5 DEF WatchGivesUp
<1>6. CASE WaiterGivesUp
  BY <1>6 DEF WaiterGivesUp
<1>7. CASE ReportExit
  <2>1. Len(events) < 3 /\ TrySendEvent("exited")
    BY <1>7 DEF ReportExit
  <2>2. Len(events') = Len(events) + 1 /\ dropped' = dropped
    BY <2>1, SendEventCounts
  <2>3. Due(waiter) = 1 /\ Due(waiter') = 0
    BY <1>7 DEF ReportExit
  <2> QED
    BY <1>7, <2>2, <2>3 DEF ReportExit
<1>8. CASE ReadPTY
  BY <1>8 DEF ReadPTY
<1>9. CASE WriteFanOut
  BY <1>9 DEF WriteFanOut
<1>10. CASE ReaderFails
  <2>1. Len(events) < 3 /\ TrySendEvent("error")
    BY <1>10 DEF ReaderFails
  <2>2. Len(events') = Len(events) + 1 /\ dropped' = dropped
    BY <2>1, SendEventCounts
  <2>3. Due(reader) = 1 /\ Due(reader') = 0
    BY <1>10 DEF ReaderFails
  <2> QED
    BY <1>10, <2>2, <2>3 DEF ReaderFails
<1>11. CASE WriterFails
  <2>1. Len(events) < 3 /\ TrySendEvent("error")
    BY <1>11 DEF WriterFails
  <2>2. Len(events') = Len(events) + 1 /\ dropped' = dropped
    BY <2>1, SendEventCounts
  <2>3. Due(writer) = 1 /\ Due(writer') = 0
    BY <1>11 DEF WriterFails
  <2> QED
    BY <1>11, <2>2, <2>3 DEF WriterFails
<1>12. CASE CtxClosesPTY
  BY <1>12 DEF CtxClosesPTY, ClosePTY
<1>13. CASE CtxClosesListener
  BY <1>13 DEF CtxClosesListener
<1>14. CASE ServerExits
  BY <1>14 DEF ServerExits
<1>15. CASE AcceptFails
  BY <1>15 DEF AcceptFails
<1>16. CASE ReleaseProcess
  BY <1>16 DEF ReleaseProcess
<1> QED
  BY <1>1, <1>2, <1>3, <1>4, <1>5, <1>6, <1>7, <1>8, <1>9, <1>10, <1>11,
     <1>12, <1>13, <1>14, <1>15, <1>16 DEF GoroutineStep

\* No event of the terminal is dropped, whatever the capacity of the channel
\* as long as the three goroutines that call trySendEvent fit in it.
THEOREM EveryEventQueued == Spec => []NoEventLost
<1>1. RunnerInit => EventInv
  BY DEF RunnerInit, EventInv, Due, BeforeWire, BeforeWatch, BeforeFork
<1>2. TypeOK /\ EventInv /\ [Next]_runnerVars => EventInv'
  <2> SUFFICES ASSUME TypeOK, EventInv, [Next]_runnerVars PROVE EventInv'
    OBVIOUS
  <2> USE DEF EventInv, BeforeWire, BeforeWatch, BeforeFork, startVars,
        closeVars, childVars, watchVars, ptyVars, rpcVars, eventVars
  <2>1. CASE StartStep
    BY <2>1, StartStepEvents
  <2>2. CASE BeginClose
    BY <2>2 DEF BeginClose, CloseMoves
  <2>3. CASE CloseStep
    BY <2>3, CloseStepEvents
  <2>4. CASE ChildExits
    BY <2>4 DEF ChildExits
  <2>5. CASE GoroutineStep
    BY <2>5, GoroutineStepEvents
  <2>6. CASE CancelParent
    BY <2>6 DEF CancelParent
  <2>7. CASE TakeEvent
    <3>1. Len(events') = Len(events) - 1
      BY <2>7 DEF TakeEvent, TypeOK
    <3>2. UNCHANGED <<start, reader, writer, waiter, dropped>>
      BY <2>7 DEF TakeEvent
    <3> QED
      BY <3>1, <3>2, QueueLength, DueValues
  <2>8. CASE UNCHANGED runnerVars
    BY <2>8 DEF runnerVars
  <2> QED
    BY <2>1, <2>2, <2>3, <2>4, <2>5, <2>6, <2>7, <2>8 DEF Next
<1>3. EventInv => NoEventLost
  BY DEF EventInv, NoEventLost
<1> QED
  BY <1>1, <1>2, <1>3, TypeCorrect, PTL DEF Spec

-----------------------------------------------------------------------------
(* TerminalController and TerminalMain.                                    *)

\* Cancelling the controller's context is a step of the runner, or none.
LEMMA CancelIsRunnerStep ==
  ASSUME CancelBoth
  PROVE  [Next]_runnerVars
BY DEF CancelBoth, Next

\* Every step of Run is a step of the runner, or none.
LEMMA RunIsRunnerStep ==
  ASSUME RunStep
  PROVE  [Next]_runnerVars
<1>1. CASE RunRefusesSpec
  BY <1>1 DEF RunRefusesSpec
<1>2. CASE RunStarts
  BY <1>2 DEF RunStarts, Next
<1>3. CASE RunSeesCtxDone
  BY <1>3 DEF RunSeesCtxDone
<1>4. CASE RunTakesEvent
  BY <1>4 DEF RunTakesEvent, Next
<1>5. CASE RunSeesRPCDone
  BY <1>5 DEF RunSeesRPCDone
<1>6. CASE RunTakesCloseReq
  BY <1>6 DEF RunTakesCloseReq
<1>7. CASE RunCallsClose
  BY <1>7 DEF RunCallsClose
<1>8. CASE RunAfterClose
  BY <1>8 DEF RunAfterClose
<1> QED
  BY <1>1, <1>2, <1>3, <1>4, <1>5, <1>6, <1>7, <1>8 DEF RunStep

\* Every step of Close is a step of the runner, or none.
LEMMA CloserIsRunnerStep ==
  ASSUME CloserStep
  PROVE  [Next]_runnerVars
<1>1. CASE CloserCancels
  BY <1>1, CancelIsRunnerStep DEF CloserCancels
<1>2. CASE CloserNotifies
  BY <1>2 DEF CloserNotifies
<1>3. CASE CloserClosesRunner
  BY <1>3 DEF CloserClosesRunner, Next
<1>4. CASE CloserRequests
  BY <1>4 DEF CloserRequests
<1>5. CASE CloserMarks
  BY <1>5 DEF CloserMarks
<1> QED
  BY <1>1, <1>2, <1>3, <1>4, <1>5 DEF CloserStep

\* Controller.Run, Close and Stop take only steps of the runner, as their
\* definitions have it, so what is proved of the runner holds here.
LEMMA ControllerTakesRunnerSteps == CtrlSpec => Spec
<1>1. CtrlInit => RunnerInit
  BY DEF CtrlInit
<1>2. [CtrlNext]_ctrlVars => [Next]_runnerVars
  <2> SUFFICES ASSUME [CtrlNext]_ctrlVars PROVE [Next]_runnerVars
    OBVIOUS
  <2>1. CASE RunStep
    BY <2>1, RunIsRunnerStep
  <2>2. CASE Stop
    BY <2>2 DEF Stop
  <2>3. CASE CloserStep
    BY <2>3, CloserIsRunnerStep
  <2>4. CASE Interrupt
    BY <2>4, CancelIsRunnerStep DEF Interrupt
  <2>5. CASE RunnerProceeds
    BY <2>5 DEF RunnerProceeds, Next
  <2>6. CASE UNCHANGED ctrlVars
    BY <2>6 DEF ctrlVars
  <2> QED
    BY <2>1, <2>2, <2>3, <2>4, <2>5, <2>6 DEF CtrlNext
<1> QED
  BY <1>1, <1>2, PTL DEF CtrlSpec, Spec

\* No event of the terminal is dropped under the controller either.
THEOREM ControllerLosesNoEvent == CtrlSpec => []NoEventLost
BY ControllerTakesRunnerSteps, EveryEventQueued, PTL

-----------------------------------------------------------------------------
(***************************************************************************)
(* RunnerClosedFirst.  What was sent or closed after sr.Close is a witness *)
(* of it: the body of Close passed "runner", and only it moves the         *)
(* runner's Close.  Run does not go on, nor return, inside a Close of its  *)
(* own.                                                                    *)
(***************************************************************************)
PastRunner == {"request", "mark", "done"}

CloserInv ==
  /\ closedBy \in {"nobody", "run", "stop"}
  /\ closer = "idle" <=> closedBy = "nobody"
  /\ closedBy = "run" => run \in CallsOfClose \/ closer = "done"
  /\ run = "starting" => closedBy # "run"
  /\ closer \in PastRunner => close = "done"
  /\ closeReqCh = 1 => closer \in PastRunner
  /\ returned = "closeReq" => closer \in PastRunner

\* The steps of the runner outside Close leave close alone.
LEMMA CloseIsKept ==
  /\ StartStep => UNCHANGED close
  /\ ChildExits \/ GoroutineStep => UNCHANGED close
  /\ CancelParent => UNCHANGED close
  /\ TakeEvent => UNCHANGED close
<1> USE DEF closeVars
<1>1. StartStep => UNCHANGED close
  BY DEF StartStep, CreateMetadata, OpenSocketCtrl, StartServer,
     PrepareCommand, Fork, RegisterChild, SpawnWatch, OpenCapture, WirePipes,
     SpawnWaiter, SetupShell, WritePrompt, OnInitShell, WriteStage, Announce
<1>2. ChildExits \/ GoroutineStep => UNCHANGED close
  BY DEF ChildExits, GoroutineStep, Reap, AwaitExit, MarkChildDone,
     ReleaseProcess, Rendezvous, WatchGivesUp, WaiterGivesUp, ReportExit, ReadPTY,
     WriteFanOut, ReaderFails, WriterFails, CtxClosesPTY, CtxClosesListener,
     ServerExits, AcceptFails
<1>3. CancelParent => UNCHANGED close
  BY DEF CancelParent
<1>4. TakeEvent => UNCHANGED close
  BY DEF TakeEvent
<1> QED
  BY <1>1, <1>2, <1>3, <1>4

\* A Close that has finished takes no more steps.
LEMMA DoneIsLast == BeginClose \/ CloseStep => close # "done"
BY DEF BeginClose, CloseStep, LatchClosing, SnapshotChild, SendTerm,
   SendTermToSelf, ChildDoneInTime, GraceExpires, KillGraceExpires, CancelCtx, StopForwarder,
   StopReaper, CloseListener, CloseMaster, CloseCapture, FinishClose,
   CloseMoves

\* A step of Run keeps CloserInv.
LEMMA RunKeepsCloser ==
  ASSUME CloserInv, RunStep
  PROVE  CloserInv'
<1> USE DEF CloserInv, PastRunner, RunReturns, closerVars, chanVars, runVars,
        runnerVars, closeVars, CallsOfClose
<1>1. CASE RunRefusesSpec
  BY <1>1 DEF RunRefusesSpec
<1>2. CASE RunStarts
  BY <1>2, CloseIsKept DEF RunStarts
<1>3. CASE RunSeesCtxDone
  BY <1>3 DEF RunSeesCtxDone
<1>4. CASE RunTakesEvent
  BY <1>4, CloseIsKept DEF RunTakesEvent
<1>5. CASE RunSeesRPCDone
  BY <1>5 DEF RunSeesRPCDone
<1>6. CASE RunTakesCloseReq
  BY <1>6 DEF RunTakesCloseReq
<1>7. CASE RunCallsClose
  BY <1>7 DEF RunCallsClose, ClaimClose, shuttingDown
<1>8. CASE RunAfterClose
  BY <1>8 DEF RunAfterClose
<1> QED
  BY <1>1, <1>2, <1>3, <1>4, <1>5, <1>6, <1>7, <1>8 DEF RunStep

\* A step of the body of Close keeps CloserInv.
LEMMA CloserKeepsCloser ==
  ASSUME CloserInv, CloserStep
  PROVE  CloserInv'
<1> USE DEF CloserInv, PastRunner, CloserMoves, closerVars, chanVars, runVars,
        runnerVars, closeVars
<1>1. CASE CloserCancels
  <2>1. UNCHANGED close
    BY <1>1, CloseIsKept DEF CloserCancels, CancelBoth
  <2> QED
    BY <1>1, <2>1 DEF CloserCancels
<1>2. CASE CloserNotifies
  BY <1>2 DEF CloserNotifies
<1>3. CASE CloserClosesRunner
  BY <1>3, DoneIsLast DEF CloserClosesRunner
<1>4. CASE CloserRequests
  BY <1>4 DEF CloserRequests
<1>5. CASE CloserMarks
  BY <1>5 DEF CloserMarks
<1> QED
  BY <1>1, <1>2, <1>3, <1>4, <1>5 DEF CloserStep

\* Every step of the controller keeps CloserInv.
LEMMA CloserKept ==
  ASSUME CloserInv, [CtrlNext]_ctrlVars
  PROVE  CloserInv'
<1> USE DEF CloserInv, PastRunner, closerVars, chanVars, runVars,
      runnerVars, closeVars
<1>1. CASE RunStep
  BY <1>1, RunKeepsCloser
<1>2. CASE Stop
  BY <1>2 DEF Stop, ClaimClose, shuttingDown
<1>3. CASE CloserStep
  BY <1>3, CloserKeepsCloser
<1>4. CASE Interrupt
  <2>1. UNCHANGED close
    BY <1>4, CloseIsKept DEF Interrupt, CancelBoth
  <2> QED
    BY <1>4, <2>1 DEF Interrupt
<1>5. CASE RunnerProceeds
  BY <1>5, CloseIsKept DEF RunnerProceeds, ctrlOwnVars
<1>6. CASE UNCHANGED ctrlVars
  BY <1>6 DEF ctrlVars, ctrlOwnVars
<1> QED
  BY <1>1, <1>2, <1>3, <1>4, <1>5, <1>6 DEF CtrlNext

\* CloserInv is an invariant of the controller.
THEOREM CloserIsOrdered == CtrlSpec => []CloserInv
<1>1. CtrlInit => CloserInv
  BY DEF CtrlInit, CloserInv, PastRunner
<1>2. CloserInv /\ [CtrlNext]_ctrlVars => CloserInv'
  BY CloserKept
<1> QED
  BY <1>1, <1>2, PTL DEF CtrlSpec

\* Outside init mode, closedCh, Run's ErrCloseReq and any return of Run after a
\* Close of its own mean that the runner is closed and the child gone.
THEOREM ClosedMeansRunnerClosed ==
  ASSUME ~InitMode
  PROVE  CtrlSpec => []RunnerClosedFirst
<1>1. CloserInv /\ NoSurvivor => RunnerClosedFirst
  BY DEF CloserInv, PastRunner, NoSurvivor, PastShutdown, RunnerClosedFirst,
     closed, CallsOfClose
<1>2. Spec => []NoSurvivor
  BY NothingSurvivesClose
<1> QED
  BY <1>1, <1>2, CloserIsOrdered, ControllerTakesRunnerSteps, PTL

-----------------------------------------------------------------------------
(***************************************************************************)
(* CanceledFromOutside.  A Close of Run's own leaves its request in        *)
(* closeReqCh for the loop that goes on after it, and the ctx.Done arm     *)
(* looks there first.                                                      *)
(***************************************************************************)
ReasonInv ==
  /\ ctrlDone => parentDone \/ closedBy # "nobody"
  /\ run = "loop" /\ closedBy = "run" => closer = "done"
  /\ closer \in {"mark", "done"} /\ run # "returned" => closeReqCh = 1
  /\ run = "onCtxDone" => parentDone \/ closedBy = "stop"
  /\ run # "returned" => returned = "no"
  /\ CanceledFromOutside

\* A step of Run keeps ReasonInv.
LEMMA RunKeepsReason ==
  ASSUME CloserInv, ReasonInv, RunStep
  PROVE  ReasonInv'
<1> USE DEF CloserInv, PastRunner, ReasonInv, CanceledFromOutside, RunReturns,
        closerVars, chanVars, ctxVars, runVars
<1>1. CASE RunRefusesSpec
  BY <1>1 DEF RunRefusesSpec
<1>2. CASE RunStarts
  BY <1>2 DEF RunStarts
<1>3. CASE RunSeesCtxDone
  BY <1>3 DEF RunSeesCtxDone
<1>4. CASE RunTakesEvent
  BY <1>4 DEF RunTakesEvent
<1>5. CASE RunSeesRPCDone
  BY <1>5 DEF RunSeesRPCDone
<1>6. CASE RunTakesCloseReq
  BY <1>6 DEF RunTakesCloseReq
<1>7. CASE RunCallsClose
  BY <1>7 DEF RunCallsClose, ClaimClose, shuttingDown, CallsOfClose
<1>8. CASE RunAfterClose
  BY <1>8 DEF RunAfterClose, CallsOfClose
<1> QED
  BY <1>1, <1>2, <1>3, <1>4, <1>5, <1>6, <1>7, <1>8 DEF RunStep

\* A step of the body of Close keeps ReasonInv.
LEMMA CloserKeepsReason ==
  ASSUME CloserInv, ReasonInv, CloserStep
  PROVE  ReasonInv'
<1> USE DEF CloserInv, PastRunner, ReasonInv, CanceledFromOutside, CloserMoves,
        closerVars, chanVars, ctxVars, runVars
<1>1. CASE CloserCancels
  BY <1>1 DEF CloserCancels, CancelBoth
<1>2. CASE CloserNotifies
  BY <1>2 DEF CloserNotifies
<1>3. CASE CloserClosesRunner
  BY <1>3 DEF CloserClosesRunner
<1>4. CASE CloserRequests
  BY <1>4 DEF CloserRequests
<1>5. CASE CloserMarks
  BY <1>5 DEF CloserMarks
<1> QED
  BY <1>1, <1>2, <1>3, <1>4, <1>5 DEF CloserStep

\* Run says "context canceled" only if the parent context was cancelled or a
\* Stop RPC's Close was under way (Run's ctx.Done arm).
THEOREM CanceledMeansOutside == CtrlSpec => []CanceledFromOutside
<1>1. CtrlInit => ReasonInv
  BY DEF CtrlInit, ReasonInv, CanceledFromOutside
<1>2. CloserInv /\ ReasonInv /\ [CtrlNext]_ctrlVars => ReasonInv'
  <2> SUFFICES ASSUME CloserInv, ReasonInv, [CtrlNext]_ctrlVars
               PROVE  ReasonInv'
    OBVIOUS
  <2> USE DEF CloserInv, PastRunner, ReasonInv, CanceledFromOutside, closerVars,
          chanVars, runVars, ctxVars
  <2>1. CASE RunStep
    BY <2>1, RunKeepsReason
  <2>2. CASE Stop
    BY <2>2 DEF Stop, ClaimClose, shuttingDown
  <2>3. CASE CloserStep
    BY <2>3, CloserKeepsReason
  <2>4. CASE Interrupt
    BY <2>4 DEF Interrupt, CancelBoth
  <2>5. CASE RunnerProceeds
    BY <2>5 DEF RunnerProceeds, ctrlOwnVars
  <2>6. CASE UNCHANGED ctrlVars
    BY <2>6 DEF ctrlVars, ctrlOwnVars
  <2> QED
    BY <2>1, <2>2, <2>3, <2>4, <2>5, <2>6 DEF CtrlNext
<1>3. ReasonInv => CanceledFromOutside
  BY DEF ReasonInv
<1> QED
  BY <1>1, <1>2, <1>3, CloserIsOrdered, PTL DEF CtrlSpec

-----------------------------------------------------------------------------
(***************************************************************************)
(* OrderlyExit.  Run does not return inside a Close of its own, and past   *)
(* WaitReady runTerminal waits for Run or for a signal.                    *)
(***************************************************************************)
ExitInv ==
  /\ CloserInv
  /\ main = "waitClose" => parentDone \/ run = "returned"

\* Run stays returned, and a signal that came has come.
LEMMA ReturnedIsLast ==
  ASSUME CtrlNext
  PROVE  (run = "returned" => run' = "returned") /\ (parentDone => parentDone')
<1> USE DEF RunReturns, closerVars, chanVars, ctxVars, runVars, CallsOfClose
<1>1. CASE RunStep
  BY <1>1 DEF RunStep, RunRefusesSpec, RunStarts, RunSeesCtxDone,
     RunTakesEvent, RunSeesRPCDone, RunTakesCloseReq, RunCallsClose,
     RunAfterClose
<1>2. CASE Stop
  BY <1>2 DEF Stop
<1>3. CASE CloserStep
  BY <1>3 DEF CloserStep, CloserCancels, CloserNotifies, CloserClosesRunner,
     CloserRequests, CloserMarks
<1>4. CASE Interrupt
  BY <1>4 DEF Interrupt
<1>5. CASE RunnerProceeds
  BY <1>5 DEF RunnerProceeds, ctrlOwnVars
<1> QED
  BY <1>1, <1>2, <1>3, <1>4, <1>5 DEF CtrlNext

\* runTerminal leaves the controller alone, but for closingCh.
LEMMA MainKeepsExit ==
  ASSUME ExitInv, MainStep
  PROVE  ExitInv'
<1> USE DEF ExitInv, CloserInv, closerVars, ctxVars, runVars, chanVars,
        ctrlVars, ctrlOwnVars, runnerVars, closeVars
<1>1. CASE MainReady
  BY <1>1 DEF MainReady
<1>2. CASE MainNotReady
  BY <1>2 DEF MainNotReady
<1>3. CASE MainInterrupted
  BY <1>3 DEF MainInterrupted
<1>4. CASE MainSeesRun
  BY <1>4 DEF MainSeesRun
<1>5. CASE MainWaitsClose
  BY <1>5 DEF MainWaitsClose
<1> QED
  BY <1>1, <1>2, <1>3, <1>4, <1>5 DEF MainStep

\* The step that OrderlyExit is about: the exit after WaitReady.
InOrder == (/\ main \in {"select", "waitClose"} /\ main' = "exited"
            /\ ~parentDone /\ closedBy = "run")
           => close = "done"

\* runTerminal leaves its select for the exit, and WaitClose for it, only when
\* Run has returned or a signal came; Run returns after the Close it made.
THEOREM ExitIsOrderly == MainSpec => OrderlyExit
<1>1. MainInit => ExitInv
  BY DEF MainInit, CtrlInit, ExitInv, CloserInv, PastRunner
<1>2. ExitInv /\ [MainNext]_mainVars => ExitInv'
  <2> SUFFICES ASSUME ExitInv, [MainNext]_mainVars  PROVE ExitInv'
    OBVIOUS
  <2>1. CASE MainStep
    BY <2>1, MainKeepsExit
  <2>2. CASE Within(CtrlNext)
    <3>1. CtrlNext /\ main' = main
      BY <2>2 DEF Within
    <3>2. CloserInv'
      BY <3>1, CloserKept DEF ExitInv
    <3> QED
      BY <3>1, <3>2, ReturnedIsLast DEF ExitInv
  <2>3. CASE Orphan
    <3>1. CtrlNext /\ main' = main
      BY <2>3 DEF Orphan, RunnerProceeds, CtrlNext
    <3>2. CloserInv'
      BY <3>1, CloserKept DEF ExitInv
    <3> QED
      BY <3>1, <3>2, ReturnedIsLast DEF ExitInv
  <2>4. CASE UNCHANGED mainVars
    <3>1. UNCHANGED ctrlVars /\ main' = main
      BY <2>4 DEF mainVars
    <3>2. CloserInv'
      BY <3>1, CloserKept DEF ExitInv
    <3> QED
      BY <3>1, <3>2 DEF ExitInv, ctrlVars, ctrlOwnVars, runVars, closerVars, ctxVars
  <2> QED
    BY <2>1, <2>2, <2>3, <2>4 DEF MainNext
<1>3. ExitInv /\ [MainNext]_mainVars => [InOrder]_mainVars
  <2> SUFFICES ASSUME ExitInv, [MainNext]_mainVars,
                      main \in {"select", "waitClose"}, main' = "exited",
                      ~parentDone, closedBy = "run"
               PROVE  close = "done"
    BY DEF InOrder
  <2>1. run = "returned"
    <3>1. MainSeesRun \/ MainWaitsClose
      BY DEF MainNext, MainStep, MainReady, MainNotReady, MainInterrupted, Within,
         Orphan, mainVars
    <3> QED
      BY <3>1 DEF MainSeesRun, MainWaitsClose, ExitInv
  <2>2. closer = "done"
    BY <2>1 DEF ExitInv, CloserInv, CallsOfClose
  <2> QED
    BY <2>2 DEF ExitInv, CloserInv, PastRunner
<1> QED
  BY <1>1, <1>2, <1>3, PTL DEF MainSpec, OrderlyExit, InOrder
=============================================================================
