--------------------------- MODULE TerminalRunner ---------------------------
(***************************************************************************)
(* The lifecycle of one terminal: terminalrunner.Exec and the goroutines   *)
(* it starts (internal/terminal/terminalrunner).                           *)
(*                                                                         *)
(*   start      the caller's goroutine going through CreateMetadata,       *)
(*              OpenSocketCtrl, StartServer, StartTerminal, SetupShell and *)
(*              OnInitShell; the value names the last step completed       *)
(*   close      the goroutine inside Exec.Close; the value names the next  *)
(*              step of Close                                              *)
(*   watch      watchChildExit          waiter   waitOnTerminal            *)
(*   reader     terminalManagerReader   writer   terminalManagerWriter     *)
(*   server     the accept loop of StartServer                             *)
(*   reaper     the PID-1 reaper, only in init mode                        *)
(*   forwarder  the PID-1 signal forwarder, only in init mode              *)
(*                                                                         *)
(* Once the RPC server answers, the caller may call Close at any moment    *)
(* from another goroutine: the Stop RPC does, during the start as well.    *)
(***************************************************************************)
EXTENDS Naturals, Sequences

CONSTANTS InitMode, \* sbsh is PID 1 of its namespace (initmode.IsInit)
          Env,      \* what the surroundings do, a subset of EnvBehaviours
          EventCap  \* capacity of the event channel (32 in the code)

(***************************************************************************)
(* "cancel"   the context the runner was given may be cancelled            *)
(* "fault"    a local operation (disk, PTY, fork, bind, accept) may fail   *)
(* "output"   the child writes to its terminal                             *)
(* "consume"  the caller takes events from the channel                     *)
(***************************************************************************)
EnvBehaviours == {"cancel", "fault", "output", "consume"}

ASSUME RunnerAssumption == /\ InitMode \in BOOLEAN
                           /\ Env \subseteq EnvBehaviours
                           /\ EventCap \in Nat /\ EventCap >= 3

Faults == "fault" \in Env

VARIABLES start, close, closing, child, signals, childDone, killExpired,
          ctxDone, watch, waiter, reaper, tracked, forwarder, ptmx, reader,
          writer, capture, listener, server, state, events, dropped

startVars  == <<start, capture, forwarder>>
closeVars  == <<close, closing, killExpired>>
childVars  == <<child, signals, childDone>>
watchVars  == <<watch, waiter, reaper, tracked>>
ptyVars    == <<ptmx, reader, writer>>
rpcVars    == <<listener, server>>
eventVars  == <<events, dropped>>
runnerVars == <<startVars, closeVars, childVars, watchVars, ptyVars, rpcVars,
                eventVars, ctxDone, state>>

(***************************************************************************)
(* The steps of the two call sequences, in their order.                    *)
(***************************************************************************)
StartSteps == {"idle", "metadata", "bound", "serving", "prepared", "forked",
               "registered", "watched", "captured", "wired", "started",
               "settingUp", "setup", "initing", "ready", "failed"}
BeforeFork == {"idle", "metadata", "bound", "serving", "prepared"}
BeforeWatch == BeforeFork \cup {"forked", "registered"}
StartEnded == {"ready", "failed"}

CloseSteps == {"idle", "latch", "snapshot", "sigterm", "sigself", "grace",
               "graceself", "reap", "cancel", "forwarder", "reaper", "listener", "pty", "capture",
               "socket", "done"}
\* Close has left shutdownChild.
PastShutdown == {"cancel", "forwarder", "reaper", "listener", "pty",
                 "capture", "socket", "done"}

States == {"Initializing", "Starting", "SettingUp", "OnInit", "Ready", "Exited"}

TypeOK ==
    /\ start \in StartSteps
    /\ close \in CloseSteps
    /\ closing \in BOOLEAN
    /\ child \in {"none", "running", "zombie", "reaped"}
    /\ signals \in SUBSET {"TERM", "KILL"}
    /\ childDone \in BOOLEAN
    /\ killExpired \in BOOLEAN
    /\ ctxDone \in BOOLEAN
    /\ watch \in {"none", "waiting", "exited", "released", "send", "done"}
    /\ waiter \in {"none", "waiting", "event", "done"}
    /\ reaper \in {"off", "running", "stopped"}
    /\ tracked \in {"unregistered", "pending", "registered", "full", "taken"}
    /\ forwarder \in {"none", "started", "published", "stopped"}
    /\ ptmx \in {"none", "open", "closed"}
    /\ reader \in {"none", "reading", "writing", "done"}
    /\ writer \in {"none", "running", "done"}
    /\ capture \in {"none", "open", "closed"}
    /\ listener \in {"none", "open", "closed"}
    /\ server \in {"none", "serving", "done"}
    /\ state \in States
    /\ events \in Seq({"error", "exited"})
    /\ dropped \in BOOLEAN

\* NewTerminalRunnerExec: in init mode the reaper loop already runs.
RunnerInit ==
    /\ start = "idle" /\ close = "idle" /\ closing = FALSE
    /\ child = "none" /\ signals = {} /\ childDone = FALSE
    /\ killExpired = FALSE /\ ctxDone = FALSE
    /\ watch = "none" /\ waiter = "none"
    /\ reaper = IF InitMode THEN "running" ELSE "off"
    /\ tracked = "unregistered" /\ forwarder = "none"
    /\ ptmx = "none" /\ reader = "none" /\ writer = "none"
    /\ capture = "none" /\ listener = "none" /\ server = "none"
    /\ state = "Initializing" /\ events = <<>> /\ dropped = FALSE

-----------------------------------------------------------------------------
\* updateTerminalState: the state is committed in memory only if the write to
\* disk succeeded (ok).
WriteOutcomes == IF Faults THEN BOOLEAN ELSE {TRUE}
SaveState(s, ok) == state' = IF ok THEN s ELSE state

\* trySendEvent: a full channel drops the event, it never blocks the sender.
TrySendEvent(e) ==
    IF Len(events) < EventCap
    THEN events' = Append(events, e) /\ UNCHANGED dropped
    ELSE dropped' = TRUE /\ UNCHANGED events

\* closePTY.Do
ClosePTY == ptmx' = IF ptmx = "open" THEN "closed" ELSE ptmx

(***************************************************************************)
(* The start sequence.  A step may fail; the caller then stops.            *)
(***************************************************************************)
StartMovesTo(next) == start' \in IF Faults THEN {next, "failed"} ELSE {next}
StartFails == Faults /\ start' = "failed"

CreateMetadata ==
    /\ start = "idle"
    /\ StartMovesTo("metadata")
    /\ state' = "Initializing"
    /\ UNCHANGED <<capture, forwarder, closeVars, childVars, watchVars,
                   ptyVars, rpcVars, eventVars, ctxDone>>

OpenSocketCtrl ==
    /\ start = "metadata"
    /\ \/ start' = "bound" /\ listener' = "open"
       \/ StartFails /\ UNCHANGED listener
    /\ UNCHANGED <<capture, forwarder, closeVars, childVars, watchVars,
                   ptyVars, server, eventVars, ctxDone, state>>

\* go StartServer, and its answer on readyCh.
StartServer ==
    /\ start = "bound"
    /\ \/ start' = "serving" /\ server' = "serving" /\ UNCHANGED listener
       \/ StartFails /\ server' = "done" /\ listener' = "closed"
    /\ UNCHANGED <<capture, forwarder, closeVars, childVars, watchVars,
                   ptyVars, eventVars, ctxDone, state>>

\* StartTerminal up to prepareTerminalCommand; the write of Initializing is
\* best effort.
PrepareCommand ==
    /\ start = "serving"
    /\ StartMovesTo("prepared")
    /\ \E ok \in WriteOutcomes : SaveState("Initializing", ok)
    /\ UNCHANGED <<capture, forwarder, closeVars, childVars, watchVars,
                   ptyVars, rpcVars, eventVars, ctxDone>>

\* Mutant: startPty does not look at the latch.
MutFork ==
    /\ start = "prepared" /\ ~ctxDone
    /\ start' = "forked" /\ child' = "running" /\ ptmx' = "open"
    /\ UNCHANGED <<capture, forwarder, closeVars, signals, childDone,
                   watchVars, reader, writer, rpcVars, eventVars, ctxDone, state>>

\* The critical section of startPty: under runtimeMu, fork unless Close has
\* latched closing.  cmd.Start refuses a context that is already cancelled.
Fork ==
    /\ start = "prepared"
    /\ \/ closing /\ start' = "failed" /\ UNCHANGED <<child, ptmx>>
       \/ /\ ~closing /\ ~ctxDone
          /\ start' = "forked" /\ child' = "running" /\ ptmx' = "open"
       \/ /\ ~closing /\ ctxDone
          /\ start' = "failed" /\ ptmx' = "open" /\ UNCHANGED child
       \/ /\ ~closing /\ StartFails /\ ptmx' \in {"none", "open"}
          /\ UNCHANGED child
    /\ UNCHANGED <<capture, forwarder, closeVars, signals, childDone,
                   watchVars, reader, writer, rpcVars, eventVars, ctxDone, state>>

\* Mutant: an exit recorded before the registration is not looked up.
MutRegisterChild ==
    /\ start = "forked" /\ start' = "registered"
    /\ forwarder' = IF InitMode THEN "started" ELSE forwarder
    /\ tracked' = IF InitMode THEN "registered" ELSE tracked
    /\ UNCHANGED <<capture, closeVars, childVars, watch, waiter, reaper,
                   ptyVars, rpcVars, eventVars, ctxDone, state>>

\* pts.Close, Setsize, the ChildPgid in the metadata, and in init mode
\* RegisterChild and the signal forwarder.
RegisterChild ==
    /\ start = "forked"
    /\ \/ StartFails /\ UNCHANGED <<tracked, forwarder>>
       \/ /\ start' = "registered"
          /\ IF InitMode
             THEN /\ forwarder' = "started"
                  /\ tracked' = IF tracked = "pending" THEN "full"
                                                       ELSE "registered"
             ELSE UNCHANGED <<tracked, forwarder>>
    /\ UNCHANGED <<capture, closeVars, childVars, watch, waiter, reaper,
                   ptyVars, rpcVars, eventVars, ctxDone, state>>

\* Publish the forwarder's stop function, then go watchChildExit.
SpawnWatch ==
    /\ start = "registered"
    /\ start' = "watched"
    /\ forwarder' = IF InitMode THEN "published" ELSE forwarder
    /\ watch' = "waiting"
    /\ UNCHANGED <<capture, closeVars, childVars, waiter, reaper, tracked,
                   ptyVars, rpcVars, eventVars, ctxDone, state>>

OpenCapture ==
    /\ start = "watched"
    /\ \/ start' = "captured" /\ capture' = "open"
       \/ StartFails /\ UNCHANGED capture
    /\ UNCHANGED <<forwarder, closeVars, childVars, watchVars, ptyVars,
                   rpcVars, eventVars, ctxDone, state>>

\* updateMetadata, os.Pipe, the fan-out, and go terminalManager.  A failure
\* closes the capture on the spot.
WirePipes ==
    /\ start = "captured"
    /\ \/ /\ start' = "wired" /\ reader' = "reading" /\ writer' = "running"
          /\ UNCHANGED capture
       \/ /\ StartFails /\ capture' = "closed"
          /\ UNCHANGED <<reader, writer>>
    /\ UNCHANGED <<forwarder, closeVars, childVars, watchVars, ptmx, rpcVars,
                   eventVars, ctxDone, state>>

\* The end of StartTerminal: state Starting, then go waitOnTerminal.
SpawnWaiter ==
    /\ start = "wired"
    /\ \E ok \in WriteOutcomes :
         /\ SaveState("Starting", ok)
         /\ start' = IF ok THEN "started" ELSE "failed"
         /\ waiter' = IF ok THEN "waiting" ELSE waiter
    /\ UNCHANGED <<capture, forwarder, closeVars, childVars, watch, reaper,
                   tracked, ptyVars, rpcVars, eventVars, ctxDone>>

\* SetupShell and OnInitShell first announce their state ...
Announce(from, s, to) ==
    /\ start = from
    /\ \E ok \in WriteOutcomes : SaveState(s, ok)
                           /\ start' = IF ok THEN to ELSE "failed"
    /\ UNCHANGED <<capture, forwarder, closeVars, childVars, watchVars,
                   ptyVars, rpcVars, eventVars, ctxDone>>

SetupShell  == Announce("started", "SettingUp", "settingUp")
OnInitShell == Announce("setup", "OnInit", "initing")

\* ... then write to the PTY, which may fail once the master is closed or
\* the child is gone; a spec without a prompt or steps writes nothing.
PTYWriteMayFail == ptmx = "closed" \/ child # "running"

WritePrompt ==
    /\ start = "settingUp"
    /\ \/ start' = "setup"
       \/ start' = "failed" /\ PTYWriteMayFail
    /\ UNCHANGED <<capture, forwarder, closeVars, childVars, watchVars,
                   ptyVars, rpcVars, eventVars, ctxDone, state>>

\* The OnInit steps and the best-effort write of Ready.
WriteStage ==
    /\ start = "initing"
    /\ \/ /\ start' = "ready"
          /\ \E ok \in WriteOutcomes : SaveState("Ready", ok)
       \/ start' = "failed" /\ PTYWriteMayFail /\ UNCHANGED state
    /\ UNCHANGED <<capture, forwarder, closeVars, childVars, watchVars,
                   ptyVars, rpcVars, eventVars, ctxDone>>

StartStep ==
    \/ CreateMetadata \/ OpenSocketCtrl \/ StartServer \/ PrepareCommand
    \/ Fork \/ RegisterChild \/ SpawnWatch \/ OpenCapture \/ WirePipes
    \/ SpawnWaiter \/ SetupShell \/ WritePrompt \/ OnInitShell \/ WriteStage

-----------------------------------------------------------------------------
(***************************************************************************)
(* Exec.Close, with shutdownChild inlined.                                 *)
(***************************************************************************)
CloseMoves(from, to) == close = from /\ close' = to

\* Close is called by the starting goroutine after a failed step, or by
\* another one once the RPC server answers.
BeginClose ==
    /\ CloseMoves("idle", "latch")
    /\ start \notin {"idle", "metadata", "bound"}
    /\ \E ok \in WriteOutcomes : SaveState("Exited", ok)
    /\ UNCHANGED <<startVars, closing, killExpired, childVars, watchVars,
                   ptyVars, rpcVars, eventVars, ctxDone>>

LatchClosing ==
    /\ CloseMoves("latch", "snapshot")
    /\ closing' = TRUE
    /\ UNCHANGED <<startVars, killExpired, childVars, watchVars, ptyVars,
                   rpcVars, eventVars, ctxDone, state>>

\* shutdownChild returns at once if nothing was forked or the child is known
\* to be gone.  Between Release and markChildDone the pid it reads is -1.
SnapshotChild ==
    /\ CloseMoves("snapshot", IF child = "none" \/ childDone THEN "cancel"
                              ELSE IF watch = "released" THEN "sigself"
                              ELSE "sigterm")
    /\ UNCHANGED <<startVars, closing, killExpired, childVars, watchVars,
                   ptyVars, rpcVars, eventVars, ctxDone, state>>

\* syscall.Kill on the process group; ESRCH is tolerated.
Signal(sig) ==
    signals' = IF child = "running" THEN signals \cup {sig} ELSE signals

SendTerm ==
    /\ CloseMoves("sigterm", "grace")
    /\ Signal("TERM")
    /\ UNCHANGED <<startVars, closing, killExpired, child, childDone,
                   watchVars, ptyVars, rpcVars, eventVars, ctxDone, state>>

\* kill(-(-1), SIGTERM) signals PID 1, sbsh itself, whose handler, if it has
\* one, cancels the context it gave the runner.
SendTermToSelf ==
    /\ CloseMoves("sigself", "graceself")
    /\ ctxDone' \in {ctxDone, TRUE}
    /\ UNCHANGED <<startVars, closing, killExpired, childVars, watchVars,
                   ptyVars, rpcVars, eventVars, state>>

ChildDoneInTime ==
    /\ close \in {"grace", "graceself", "reap"} /\ close' = "cancel"
    /\ childDone
    /\ UNCHANGED <<startVars, closing, killExpired, childVars, watchVars,
                   ptyVars, rpcVars, eventVars, ctxDone, state>>

\* The kernel ignores a SIGKILL from inside the namespace to its PID 1.
GraceExpires ==
    /\ \/ CloseMoves("grace", "reap") /\ Signal("KILL")
       \/ CloseMoves("graceself", "reap") /\ UNCHANGED signals
    /\ UNCHANGED <<startVars, closing, killExpired, child, childDone,
                   watchVars, ptyVars, rpcVars, eventVars, ctxDone, state>>

\* Mutant: the wait after SIGKILL has no bound.
MutKillGraceExpires == FALSE

\* reapAfterKillGrace
KillGraceExpires ==
    /\ CloseMoves("reap", "cancel")
    /\ killExpired' = TRUE
    /\ UNCHANGED <<startVars, closing, childVars, watchVars, ptyVars, rpcVars,
                   eventVars, ctxDone, state>>

CancelCtx ==
    /\ CloseMoves("cancel", "forwarder")
    /\ ctxDone' = TRUE
    /\ UNCHANGED <<startVars, closing, killExpired, childVars, watchVars,
                   ptyVars, rpcVars, eventVars, state>>

StopForwarder ==
    /\ CloseMoves("forwarder", "reaper")
    /\ forwarder' = IF forwarder = "published" THEN "stopped" ELSE forwarder
    /\ UNCHANGED <<start, capture, closing, killExpired, childVars, watchVars,
                   ptyVars, rpcVars, eventVars, ctxDone, state>>

\* Wait4 on a zombie, and the routing of its exit status: to TrackedExitCh
\* once the child is registered, to pendingExits before that.
ReapZombie ==
    /\ child = "zombie" /\ child' = "reaped"
    /\ tracked' = IF tracked = "registered" THEN "full" ELSE "pending"

\* reaper.Stop: the loop drains once more and ends.
StopReaper ==
    /\ CloseMoves("reaper", "listener")
    /\ reaper' = IF reaper = "running" THEN "stopped" ELSE reaper
    /\ IF reaper = "running" /\ child = "zombie"
       THEN ReapZombie ELSE UNCHANGED <<child, tracked>>
    /\ UNCHANGED <<startVars, closing, killExpired, signals, childDone, watch,
                   waiter, ptyVars, rpcVars, eventVars, ctxDone, state>>

CloseListener ==
    /\ CloseMoves("listener", "pty")
    /\ listener' = IF listener = "open" THEN "closed" ELSE listener
    /\ UNCHANGED <<startVars, closing, killExpired, childVars, watchVars,
                   ptyVars, server, eventVars, ctxDone, state>>

CloseMaster ==
    /\ CloseMoves("pty", "capture")
    /\ ClosePTY
    /\ UNCHANGED <<startVars, closing, killExpired, childVars, watchVars,
                   reader, writer, rpcVars, eventVars, ctxDone, state>>

CloseCapture ==
    /\ CloseMoves("capture", "socket")
    /\ capture' = IF capture = "open" THEN "closed" ELSE capture
    /\ UNCHANGED <<start, forwarder, closing, killExpired, childVars,
                   watchVars, ptyVars, rpcVars, eventVars, ctxDone, state>>

\* os.Remove of the socket file, and close(closedCh).
FinishClose ==
    /\ CloseMoves("socket", "done")
    /\ UNCHANGED <<startVars, closing, killExpired, childVars, watchVars,
                   ptyVars, rpcVars, eventVars, ctxDone, state>>

CloseStep ==
    \/ LatchClosing \/ SnapshotChild \/ SendTerm \/ SendTermToSelf
    \/ ChildDoneInTime \/ GraceExpires \/ KillGraceExpires \/ CancelCtx \/ StopForwarder
    \/ StopReaper \/ CloseListener \/ CloseMaster \/ CloseCapture \/ FinishClose

-----------------------------------------------------------------------------
(***************************************************************************)
(* The child, the kernel and the goroutines.                               *)
(***************************************************************************)
\* The child may exit by itself, or ignore every signal for any time.
ChildExits ==
    /\ child = "running" /\ child' = "zombie"
    /\ UNCHANGED <<startVars, closeVars, signals, childDone, watchVars,
                   ptyVars, rpcVars, eventVars, ctxDone, state>>

\* reaper.loop: SIGCHLD, then drainOnce.
Reap ==
    /\ reaper = "running"
    /\ ReapZombie
    /\ UNCHANGED <<startVars, closeVars, signals, childDone, watch, waiter,
                   reaper, ptyVars, rpcVars, eventVars, ctxDone, state>>

\* watchChildExit learns of the exit: from cmd.Wait, which also reaps, or in
\* init mode from TrackedExitCh, or there from the cancelled context.
AwaitExit ==
    /\ watch = "waiting" /\ watch' = "exited"
    /\ IF InitMode
       THEN /\ UNCHANGED child
            /\ \/ tracked = "full" /\ tracked' = "taken"
               \/ ctxDone /\ UNCHANGED tracked
       ELSE child = "zombie" /\ child' = "reaped" /\ UNCHANGED tracked
    /\ UNCHANGED <<startVars, closeVars, signals, childDone, waiter, reaper,
                   ptyVars, rpcVars, eventVars, ctxDone, state>>

\* In init mode os.Process.Release comes first.
ReleaseProcess ==
    /\ InitMode
    /\ watch = "exited" /\ watch' = "released"
    /\ UNCHANGED <<startVars, closeVars, childVars, waiter, reaper, tracked,
                   ptyVars, rpcVars, eventVars, ctxDone, state>>

MarkChildDone ==
    /\ watch = (IF InitMode THEN "released" ELSE "exited")
    /\ watch' = "send"
    /\ childDone' = TRUE
    /\ UNCHANGED <<startVars, closeVars, child, signals, waiter, reaper,
                   tracked, ptyVars, rpcVars, eventVars, ctxDone, state>>

\* The unbuffered closeReqCh: watchChildExit and waitOnTerminal meet ...
Rendezvous ==
    /\ watch = "send" /\ watch' = "done"
    /\ waiter = "waiting" /\ waiter' = "event"
    /\ UNCHANGED <<startVars, closeVars, childVars, reaper, tracked, ptyVars,
                   rpcVars, eventVars, ctxDone, state>>

\* Mutant: the send has a default arm, so it is dropped when nobody waits yet.
MutWatchGivesUp ==
    /\ watch = "send" /\ watch' = "done"
    /\ UNCHANGED <<startVars, closeVars, childVars, waiter, reaper, tracked,
                   ptyVars, rpcVars, eventVars, ctxDone, state>>

\* ... or each leaves by its own ctx.Done arm.
WatchGivesUp ==
    /\ watch = "send" /\ ctxDone /\ watch' = "done"
    /\ UNCHANGED <<startVars, closeVars, childVars, waiter, reaper, tracked,
                   ptyVars, rpcVars, eventVars, ctxDone, state>>

\* Mutant: waitOnTerminal parks on the bare receive (before #397).
MutWaiterGivesUp == FALSE

WaiterGivesUp ==
    /\ waiter = "waiting" /\ ctxDone /\ waiter' = "done"
    /\ UNCHANGED <<startVars, closeVars, childVars, watch, reaper, tracked,
                   ptyVars, rpcVars, eventVars, ctxDone, state>>

ReportExit ==
    /\ waiter = "event" /\ waiter' = "done"
    /\ TrySendEvent("exited")
    /\ UNCHANGED <<startVars, closeVars, childVars, watch, reaper, tracked,
                   ptyVars, rpcVars, ctxDone, state>>

\* terminalManagerReader: a read of the master, the write to the fan-out.
ReadPTY ==
    /\ "output" \in Env /\ reader = "reading" /\ ptmx = "open"
    /\ reader' = "writing"
    /\ UNCHANGED <<startVars, closeVars, childVars, watchVars, ptmx, writer,
                   rpcVars, eventVars, ctxDone, state>>

WriteFanOut ==
    /\ reader = "writing" /\ reader' = "reading"
    /\ UNCHANGED <<startVars, closeVars, childVars, watchVars, ptmx, writer,
                   rpcVars, eventVars, ctxDone, state>>

\* Mutant: the reader does not return after reporting its error.
MutReaderFails ==
    /\ reader = "reading" /\ reader' = "reading"
    /\ ptmx = "closed" \/ child # "running"
    /\ TrySendEvent("error")
    /\ UNCHANGED <<startVars, closeVars, childVars, watchVars, ptmx, writer,
                   rpcVars, ctxDone, state>>

ReaderFails ==
    /\ reader = "reading" /\ reader' = "done"
    /\ ptmx = "closed" \/ child # "running"
    /\ TrySendEvent("error")
    /\ UNCHANGED <<startVars, closeVars, childVars, watchVars, ptmx, writer,
                   rpcVars, ctxDone, state>>

\* terminalManagerWriter ends when its pipe is closed by the ctx goroutine,
\* or on a write to a PTY that has lost its child.
WriterFails ==
    /\ writer = "running" /\ writer' = "done"
    /\ ctxDone \/ child # "running"
    /\ TrySendEvent("error")
    /\ UNCHANGED <<startVars, closeVars, childVars, watchVars, ptmx, reader,
                   rpcVars, ctxDone, state>>

\* The ctx.Done goroutines of the two terminalManagers.
CtxClosesPTY ==
    /\ ctxDone /\ reader # "none" /\ ptmx = "open"
    /\ ClosePTY
    /\ UNCHANGED <<startVars, closeVars, childVars, watchVars, reader, writer,
                   rpcVars, eventVars, ctxDone, state>>

\* The ctx.Done goroutine of StartServer.
CtxClosesListener ==
    /\ ctxDone /\ server # "none" /\ listener = "open"
    /\ listener' = "closed"
    /\ UNCHANGED <<startVars, closeVars, childVars, watchVars, ptyVars,
                   server, eventVars, ctxDone, state>>

ServerExits ==
    /\ server = "serving" /\ listener = "closed" /\ server' = "done"
    /\ UNCHANGED <<startVars, closeVars, childVars, watchVars, ptyVars,
                   listener, eventVars, ctxDone, state>>

AcceptFails ==
    /\ Faults /\ server = "serving" /\ listener = "open"
    /\ server' = "done" /\ listener' = "closed"
    /\ UNCHANGED <<startVars, closeVars, childVars, watchVars, ptyVars,
                   eventVars, ctxDone, state>>

GoroutineStep ==
    \/ Reap \/ AwaitExit \/ ReleaseProcess \/ MarkChildDone \/ Rendezvous
    \/ WatchGivesUp \/ WaiterGivesUp \/ ReportExit \/ ReadPTY \/ WriteFanOut \/ ReaderFails
    \/ WriterFails \/ CtxClosesPTY \/ CtxClosesListener \/ ServerExits
    \/ AcceptFails

-----------------------------------------------------------------------------
(***************************************************************************)
(* The caller: it may cancel the context it passed in, take an event, and  *)
(* call Close at any time.                                                 *)
(***************************************************************************)
CancelParent ==
    /\ "cancel" \in Env /\ ~ctxDone /\ ctxDone' = TRUE
    /\ UNCHANGED <<startVars, closeVars, childVars, watchVars, ptyVars,
                   rpcVars, eventVars, state>>

TakeEvent ==
    /\ "consume" \in Env /\ events # <<>> /\ events' = Tail(events)
    /\ UNCHANGED <<startVars, closeVars, childVars, watchVars, ptyVars,
                   rpcVars, dropped, ctxDone, state>>

Next == \/ StartStep \/ BeginClose \/ CloseStep \/ ChildExits
        \/ GoroutineStep \/ CancelParent \/ TakeEvent

Spec == RunnerInit /\ [][Next]_runnerVars

(***************************************************************************)
(* The Go scheduler runs every runnable goroutine; timers fire.  Nothing   *)
(* is assumed of the child, of the caller's Close, of accept failures or   *)
(* of how much the child writes.                                           *)
(***************************************************************************)
GoroutineFairness ==
    /\ WF_runnerVars(CloseStep)
    /\ WF_runnerVars(Reap)
    /\ WF_runnerVars(\/ AwaitExit \/ ReleaseProcess \/ MarkChildDone \/ Rendezvous
                      \/ WatchGivesUp)
    /\ WF_runnerVars(WaiterGivesUp \/ ReportExit)
    /\ WF_runnerVars(WriteFanOut \/ ReaderFails)
    /\ WF_runnerVars(WriterFails)
    /\ WF_runnerVars(CtxClosesPTY)
    /\ WF_runnerVars(CtxClosesListener)
    /\ WF_runnerVars(ServerExits)

FairSpec == Spec /\ WF_runnerVars(StartStep) /\ GoroutineFairness

-----------------------------------------------------------------------------
\* Once Close has left shutdownChild no child survives it, whatever point of
\* startPty Close raced: none is forked later, and the forked one was reaped,
\* or it was sent SIGKILL and both grace periods ran out (#396, #398).
NoSurvivor ==
    close \in PastShutdown =>
        \/ child \in {"none", "reaped"}
        \/ killExpired /\ (child = "running" => "KILL" \in signals)

\* The three goroutines that report to the controller never find the event
\* channel full: trySendEvent drops nothing.
NoEventLost == ~dropped

\* Once Close and the start sequence have both ended, the terminal reads
\* Exited.
ExitedIsLast ==
    close = "done" /\ start \in StartEnded => state = "Exited"

\* The exit of the child reaches the controller: an exit event is queued,
\* unless a Close or a cancelled context got there first.
ExitReported ==
    (waiter = "waiting" /\ child \in {"zombie", "reaped"}) ~>
        (ctxDone \/ \E i \in 1..Len(events) : events[i] = "exited")

\* Close returns, even around a child that survives SIGKILL.
CloseReturns == (close # "idle") ~> (close = "done")

\* After a Close no goroutine of the terminal is left behind, unless the
\* child outlived both grace periods (#230, #397, #398).
Drained ==
    /\ watch \in {"none", "done"}
    /\ waiter \in {"none", "done"}
    /\ reader \in {"none", "done"}
    /\ writer \in {"none", "done"}
    /\ server \in {"none", "done"}
    /\ forwarder \in {"none", "stopped"}
    /\ reaper # "running"

NothingLeaks == (close = "done" /\ ~killExpired) ~> Drained

\* What the runner owes in init mode too, where the reaper and not cmd.Wait
\* learns of the exit: it is reported, Close returns, nothing is left behind.
RunnerEnds == ExitReported /\ CloseReturns /\ NothingLeaks
=============================================================================
