# A verification project for sbsh

sbsh runs a shell or another program on a PTY, keeps it alive when nobody is
attached, and lets clients attach to it, read its output and stop it through a
control socket.  This directory models the parts of it in which goroutines,
processes and the kernel meet, checks the models with TLC and proves theorems
about them with TLAPS.  All paths below are relative to the repository.

## The system

| Component | Code | State it keeps | Operations |
|---|---|---|---|
| terminal runner | `internal/terminal/terminalrunner` | the child process, the PTY master, the control listener, the capture, the fan-out, the registries of clients and subscribers, the metadata | CreateMetadata, OpenSocketCtrl, StartServer, StartTerminal, SetupShell, OnInitShell, PostAttachShell, Attach, Detach, Subscribe, WritePTY, Resize, Close |
| PID-1 reaper and signal forwarder | `reaper_linux.go`, `signals_linux.go` | pids being tracked, exits that nobody has claimed yet | RegisterChild, drainOnce, Stop |
| terminal controller | `internal/terminal/controller.go` | its context, the shutting-down flag, five channels | Run, Close, Stop, WaitReady, WaitClose and RPC pass-throughs |
| terminal process | `cmd/sbsh/terminal` | the signal context | runTerminal |
| embedder facade | `pkg/terminal/server` | the listener, the controller, the result of Run | Serve, Stop, Close |
| client controller | `internal/client`, `internal/dualcopier`, `internal/filter` | the session with one terminal, raw mode, the two copiers | Run, Attach, Detach, Close, the escape sequence |
| run directory | `metadata.go`, `internal/discovery`, `pkg/discovery`, `cmd/sb/prune` | `metadata.json`, the socket, the capture of every terminal | create, reconcile, prune, list, resolve |
| capture store | `capture_writer.go`, `internal/capture` | segments and their index | Write with rotation, Close, replay |
| RPC | `terminalrpc`, `clientrpc`, `pkg/rpcclient` | connections, descriptors in flight | one call with retries, descriptors over SCM_RIGHTS |
| spawn and stop | `pkg/spawn`, `cmd/sb/stop` | a detached process, a deadline | start, wait for ready, escalate to SIGKILL |
| configuration | `cmd/config`, `pkg/builder`, `internal/profile` | none | parsing and merging |

How they interact: the process (or an embedder) starts `Controller.Run` on a
goroutine and waits for it; Run calls the runner's start operations one after
the other and then selects over its context, the runner's event channel, the
end of the RPC server and its own close requests.  RPC handlers run on
goroutines of their own from the moment the server is ready, which is before the
child exists.  A Stop RPC answers at once and calls `Controller.Close` on yet
another goroutine; so do the failure paths of Run.  `Controller.Close` cancels
the context, tells WaitClose, closes the runner, and tells Run.  The goroutines of
the runner (PTY reader and writer, `watchChildExit`, `waitOnTerminal`, accept
loop, reaper, signal forwarder, one drain per client) report through an event
channel that is never blocked on, and end through the context and the
descriptors that Close closes.

What makes this hard: Close runs against a start that is still forking the
child; the child may exit, be reaped, ignore every signal or outlive SIGKILL at
any point of it; the context is cancelled before the child is shut down; slow
and vanished clients hold back the one PTY reader; metadata is written to disk
by several goroutines from copies; descriptors are handed from process to
process; files of a dead terminal are found, judged and removed by other
processes.  `PROJECT.json` lists each of these hazards at its line.

## Modules

### TerminalRunner

One terminal: `terminalrunner.Exec`.  `start` is the goroutine that goes through
the start sequence (the value names the last operation completed), `close` the
goroutine inside `Exec.Close` (the value names the next step of its body),
`watch`, `waiter`, `reader`, `writer`, `server`, `reaper` and `forwarder` the
goroutines behind `watchChildExit`, `waitOnTerminal`, the two
`terminalManager`s, the accept loop, the PID-1 reaper and the PID-1 signal
forwarder.  `child` is the process as the kernel knows it, `signals` what it was
sent, `childDone` what the code believes.  `tracked` is the reaper's record of
the child: unregistered, an exit that arrived before the registration
(`pendingExits`), registered, an exit in `TrackedExitCh`.  `ptmx`, `capture`
and `listener` are the descriptors, `state` the state in `metadata.json`,
`events` the event channel, `dropped` whether `trySendEvent` ever dropped one.

Every action is one step between two points at which another goroutine can be
seen: `Fork` is the critical section of `startPty` under `runtimeMu`,
`RegisterChild` to `WirePipes` are the rest of it, each with its failure.
`Close` is one action per resource, because the goroutines and the start
interleave with it.  In init mode `watchChildExit` releases the `os.Process`
before it marks the child done; a `shutdownChild` that reads the pid in between
reads -1 and sends its SIGTERM to PID 1, which is sbsh (`SendTermToSelf`): the
child has been reaped then, but sbsh's own signal context may be cancelled.  `InitMode` is `initmode.IsInit()`.  `Env` says what the
surroundings do: cancel the context, let local operations fail, write output,
take events.

### TerminalController

`TerminalController` EXTENDS the runner and adds `Controller.Run` (`run`),
`Controller.Close` (`closer`, and `closedBy` for the winner of the
CompareAndSwap), its context (`ctrlDone`, `parentDone`) and the channels
`closingCh` and `closeReqCh`, each with a buffer of one.  `RunStarts` drives the
runner's start, `CloserClosesRunner` its Close, `RunTakesEvent` its event
channel; `RunnerProceeds` is what the runner does by itself.  Every action is
written with an action of the runner or leaves the runner alone, so what was
shown for the runner in every environment holds under the controller.

### TerminalMain

The process `sbsh terminal`: `runTerminal` with `WaitReady`, the signal context,
the result of Run and `WaitClose`.  When it exits every goroutine stops; the
child may live on (`Orphan`).

### OutputStream

What one client is promised: the output's bytes in order and without a hole from
its replay on, up to a cut, and the notice "subscriber lagged" only after the
last byte it gets and only if bytes were lost.

### SubscriberRing

`subscriberWriter`: the bounded queue between the PTY reader and one client.
`producer` is the PTY reader inside `Write` (parked in `waitForRoom`), `drain`
the goroutine of `Run`, `asleep` who sits in `cond.Wait`, `timer` the stall
deadline, which passes before its function broadcasts.  A step is one critical
section under `mu`, or a piece of the drain's write to the connection.  A byte is
its position in the output.  `backpressure` selects the interactive policy or
that of a passive observer, `Replay` the bytes of `seedReplay`.  `StreamSpec` is
`OutputStream` under the refinement "over when the drain is done".

### TerminalClients

The clients of a terminal whose PTY is wired.  For an interactive client
`handle` is `CreateNewClient` and `handleClient`, `reader` the copier from the
socket, `manager` its `CopierManager`; for a subscriber `sub` is the handler of
Subscribe; `drain` is `Run` of either.  `clients` and `subscribers` are the
registries, `fanout` the writers of `DynamicMultiWriter`, `detach` the body of
`detachOnce` step by step, `conn` this end of the socket pair (or that the peer
is gone), `rpc`, `target` and `grace` a Detach RPC and its delayed close,
`ctxDone`, `sweep` and `toClose` the part of `Exec.Close` that takes clients
down.  What a ring holds is `SubscriberRing`'s; here it is open or closed.
`cleanupClient`'s fallback without a writer cannot be reached, because nothing
detaches before the writer exists, and is left out, as are the attachers in the
metadata.

### RunDirectory

`terminals/<id>/` as it is shared by the processes of one user.  `dir`, `meta`
and `sock` are the file system: the directory and its age, whose document it
holds and in which state, whose socket is at the path.  A terminal process (`pc`)
goes through the check of its name, the scan for a live owner, the creation, the
probe of the socket, bind, its life, and the three steps of its close that touch
files; it may be killed in any of them, and a goroutine may write a copy of the
metadata that it took before (`copy`).  Every start, `sb get` and `sb prune` is a
scan (`step`, `seen`, `todo`): it reads the documents at once, as one `os.ReadDir`
pass, then judges and removes one entry after the other on what it has read; an
orphan's sockets are probed in one step and it is removed in the next.
`IdOf`, `NameOf` and `PidOf` say which IDs, names and pids are used twice.
`InstanceAlive` has the arms of `reconcile.go`: a document without a pid is alive, one
without a start time (`Tokens`; builds other than Linux record none) is alive while
its pid is in use, and one whose start time an actor fails to read (`Blind`) may be
taken for alive.

### CaptureRotation

The capture writer's files: the live segment, the closed ones as renamed (`raw`)
and as compressed (`gz`).  `pc` is the step of the rotation that holds the mutex;
each file operation is an action with its failure, and `End` kills the process
between any two.  A write or a header that fails, or is cut by a kill, may leave a
part of its line (`torn`); what is appended to that line next, by this process or
the next one, is `lost` to the decoder, and a decoder's view is `Readable`.  A write is its number, so that "in order" and "lost" can be
said of sets.  `Start` recovers the numbering from the files it finds (`NextSeq`).
A reader lists the closed segments, looks up the live one and reads them in
order, on paths that the writer may have renamed or removed by then.

### ClientSession

The interactive client: `ses.pc` is `Controller.Run` of `internal/client`,
`ses.closer` its Close, `ses.caller` whoever started it (`attach.Run` or
`runClient`), `in` and `ses.out` the two copiers and `ses.manager` the one that
waits for either.  The stdin pump belongs to the process and outlives the session:
`typed`, `held`, `leftover` and `handed` follow each chunk of input from the
descriptor to the session that got it.  `tty` is the mode of the user's
terminal; MakeRaw, the publication of what it returned (`Publish`), the start of
the first copier, the help message and the start of the second are steps of
their own, as a restore may come between any two.  `stalled` is a stdout that
takes no output (^S): the help message, the output copier and the restore block
on it.  The restore's 500 ms may be over at any time; `cut` remembers that a copier
was still reading then.  A program is a sequence of sessions (`Plans`); what comes
from outside or goes wrong (stop, cancel, detach, hang-up, a child's exit, a
failed step, a stall, such a copier) is counted by `MaxTrouble`.

### TerminalServer

The embedder's `Server.Serve` with its RPC surface.  `serve` is the stage of
`bringUp` or of `runLoop`, `asked` the goroutines of `Stop` with its channel,
`owed` the events that the exit of the child is about to produce.  `conn` is a
connection with the server codec's state: request ids, the stash of bodies that
nobody has taken (`params`), the replies.  `calls` are the handlers that run,
`call` the repository's client with its three attempts, deadline and the
descriptor it took; `fds` the halves of socketpairs the server holds.  A connection may be
lost under a call (`Breaks`): the attempt is `lost`, its handler runs on, and the
client dials again.  A request that the server has not read when its client hangs up
is dropped here; the kernel may still hand it over, which adds to what a lost or
given-up attempt did and to nothing else.

The 250 ms of `terminalCause` are a timer that may fire whenever what was queued
at its start (`due`) has been received: Serve takes from a channel in microseconds.
An exit that is reported later may lose to it, so `CauseIsExit` speaks of the exits
reported by the time of the read error.  The runner is reduced to open and closed
here: `TerminalRunner` has its steps.

### TerminalStop

A process seen from outside: `proc` as the kernel knows its pid (starting, up, a
zombie until its parent reaps it, gone, given away), `group` its child's process
group (the leader alive, only the members that ignore SIGTERM or SIGHUP, nothing),
`meta` what its metadata says, `wedged` a process that accepts connections and does
nothing, `stuck` one that SIGKILL does not end either.  The process may leave any
part of the group behind when it exits (`Left`): `shutdownChild` signals nothing once
the leader is done and is content when the leader dies of SIGTERM, and a start that is
stopped may leave the leader too (`MainLeavesNoChild`).  `Reap` is the kernel's part of
`cmd.Wait`; `WaitReturns`, which closes `exitCh`, also needs the end of the goroutines
that copy the caller's streams (`copying`), if they are no files.  `stop` is `sb stop` on one terminal, which knows it by the pid
and start token it read once; `handle` is `pkg/spawn`'s handle, which is its
parent.  Both may work on it at the same time.  `struck` is history: whether
`sb stop` signalled a stranger, and whether that one got the pid after the match.

## What the runs check

| Run | What it shows |
|---|---|
| `runner` | Outside init mode, with a cancelled context, failing operations, output and a caller: no child survives Close (`NoSurvivor`), no event is dropped (`NoEventLost`), the exit of the child is reported (`ExitReported`), Close returns even around a child that SIGKILL does not end (`CloseReturns`), no goroutine is left (`NothingLeaks`). |
| `runner_init` | The last three as PID 1, where the reaper owns the exits (`RunnerEnds`). |
| `controller` | A closed `closedCh`, Run's `ErrCloseReq` and Run's return after a Close of its own mean that the runner is closed and the child gone (`RunnerClosedFirst`); the bare context error means a cancel from outside Run (`CanceledFromOutside`); a Close that has begun and the exit of the child end in a closed controller and a Run that has returned, whoever calls Close (`CloseEnds`). |
| `controller_init_stop` | Violation, see below. |
| `main` | Past WaitReady and without a signal, the process does not exit under an unfinished Close that Run performs (`OrderlyExit`); a signal or a Close ends the process, even when Run refused the spec (`MainExits`). |
| `ring` | For both policies: a drain that ends on a working connection has delivered everything and the notice exactly if bytes were lost (`DrainedInFull`), and the ring implements `OutputStream` (`StreamSpec`). With nothing assumed of the drain, a client that never reads holds the PTY reader for at most the stall budget (`ProducerFreed`). If the drain is served, no wake-up between producer, drain, timer and Close is lost (`NoLostWakeUp`). |
| `clients` | One interactive client with an ID of its own and one subscriber, in every order of their five goroutines, the Detach RPC and Close: a drain that is done leaves nothing (`NothingHangs`), a client that cannot be found is leaving (`LostOnlyWhenLeaving`), a closed ring ends in release (`ClosedIsReleased`), a vanished client is released without waiting for output unless its reader is stuck in a write to a child that does not read (`GoneIsReleased`), and no subscriber outlives Close (`SubscribersEnd`). |
| `rundir` | Three starts that share names, an ID and a pid with one another, with `sb get` or `sb prune` repeating, a kill at any point and an unreadable entry: a registered terminal keeps its directory, document and socket (`LiveKeepsFiles`), no name is served twice (`NamesDistinct`), and the document of a dead process does not stay active, unless it records no start time and its pid is in use (`DeadIsForgotten`). |
| `capture` | Two runs of a terminal on one capture with failing file operations, a kill between any two of them, the runner's Close and a reader: order (`TranscriptInOrder`), completeness up to retention, but for the first write after a cut line (`NothingLost`), no descriptor after the Close (`ClosedStaysClosed`), a header in each segment (`SelfDescribing`), and a reader's output in order although segments rotate under it (`ReadInOrder`). |
| `session` | Two sessions of `pkg/attach` in one process, or one of sbsh: input typed across a detach goes once and in order to the sessions (`InputInOrder`), never to a closed one (`InputToLiveSession`), both unless a copier outlasts the restore's wait; the terminal is restored when the caller returns, unless the restore came before raw mode was published (`TtyRestored`); and whatever ends a session brings the caller back, stdout permitting (`SessionEnds`). |
| `service` | An embedded terminal with the repository's client in three attempts and a peer that pipelines: parameters and answers do not cross (`OwnParameters`), what is sent again was not done unless its connection was lost (`DoneOnce`), an exit reported by the time of the read error is returned as such (`CauseIsExit`), and Serve ends in every stage of its start (`ServeEnds`). |
| `stop` | `sb stop` and the spawner's handle on one process that may end, wedge or lose its pid at any point: no stranger is signalled that held the pid at the match (`StrangerSafe`), "stopped" means gone, after SIGKILL with the whole recorded group (`StoppedTakesAll`), and nobody waits for ever but on the three things named with it (`NobodyWaits`). |

## Bounds

- `EventCap = 3` (32 in the code).  Three goroutines send at most one event
  each, so the bound of the channel is reached exactly; `EveryEventQueued`
  proves the result for every capacity of three or more.
- One terminal, one child, one Close: the CompareAndSwap in the controller lets
  one Close through, and a runner has one child for life.
- `Env` and `Requests` select what the surroundings do.  `runner` allows
  everything; `runner_init` leaves out the cancelled context, which
  `controller_init_stop` needs; `controller` leaves out failures, which `runner`
  has, and `main` the Stop RPC, to keep the graphs small.
- There is no other bound: the models of the core are finite as they stand.
- `SubscriberRing`: writes of one or two bytes into a ring of two, with a replay
  of one for attachers, and at most nine bytes in all.  The ring fills, drains
  partly and overflows several times within that; the theorems hold for every
  value.
- `TerminalClients`: one client and one subscriber.  Two clients with IDs of their
  own share the fan-out and the sweep of Close, both sets from which each takes
  only itself, so a second one adds states and no case; clients that share an ID
  do meet (see below).  One Detach RPC runs at a time.  The
  safety theorems hold for any number of both.
- `RunDirectory`: two IDs and three starts, of which two share an ID, two a name
  and two a pid; one scanner beside the scans of the starts.  Every pair of actors
  meets on an entry; a third owner of one ID repeats the second.  `Exclusive`: an
  ID is recycled by one start at a time, after its last owner is gone and while
  nobody else scans.  IDs are random in the code; what
  happens without it is said below.  One of the two starts that share a pid has
  recorded its start time and the other has not; the scans of starts may fail to
  read one, those of the scanner do not.
- `CaptureRotation`: seven writes, rotation at two, retention of two segments and
  four writes, two failures, two runs of the terminal: three rotations fit, so
  that prune removes something and a restart finds raw, compressed and doubled
  segments.
- `ClientSession`: two chunks of input, the first of which holds the detach
  keystroke, and the end of input; two sessions; two troubles; two events.  Two
  chunks are the least that can change places, and the second is typed while the
  first is detaching.
- `TerminalServer`: one caller, one peer with three requests in a row, one
  failure.  Callers share nothing but the runner; one of them and the peer are on
  different connections and already meet there.  One failure is enough for a second
  read error in front of the exit, and for a lost connection.
- `TerminalStop`: one process, one `sb stop`, one handle; nothing else is bounded.

## Fairness

Weak fairness for every goroutine of the program that the Go scheduler can run:
Run, the body of Close with its timers, the start, the reaper, the watchers, the
PTY reader and writer, the goroutines that wait for the context.  Nothing is
assumed of the child (it may run for ever and ignore SIGTERM and SIGKILL), of
the user (Stop and signals may never come), of output, and of failures.  In
`TerminalMain` the goroutines are served while the process lives.

In `SubscriberRing` a woken producer gets the mutex and timers fire
(`StuckDrainSpec`).  `NoLostWakeUp` assumes that the
drain goes on as well (`DrainServed`), which the write deadline of each
`conn.Write` justifies: it either writes or fails.

In `TerminalClients` every goroutine that has started goes on, and so do the
handlers and the sweep of Close that have begun.  A drain is only assumed to end
once its ring is closed, which the write deadline justifies; nothing is assumed
of clients, of output, of whether the child reads its input (the write of the copier
to the PTY pipe may block for ever, `connections.go:164` to `copier.go:109`) or of who cancels the context.

In `RunDirectory` a start that has begun goes on, and somebody whose reads of start
times succeed scans again and again (any start, `sb get` or `sb prune` does); nobody
has to start, close or be killed.  `CaptureRotation` states no liveness.

In `ClientSession` something that can run does run (`Runnable`; no step of it
repeats for ever, so this is enough), but nothing is assumed of the daemon, which
may never answer an attach or read what is sent to it (the other RPCs have
deadlines), of the user, or of stdout: a stall may last for good, and
`SessionEnds` then promises nothing.  In `TerminalServer` Serve, Stop,
the handlers and the client's call go on, the exit of the child is reported once
it has happened, and a caller goes on; nothing is assumed of the peer,
of the child and of who calls Stop.

In `TerminalStop` the process goes on unless it is wedged, its parent reaps it,
and the timers of `sb stop` and of the handle fire.  Nobody need call Close,
cancel a context, or exit, and no stream of the caller need end.

## What is proved

`TerminalProofs`, for every `InitMode`, `Env` and `EventCap >= 3`
(`RunnerAssumption`):

- `TypeCorrect`: `Spec => []TypeOK`, one lemma per group of actions.
- `NothingSurvivesClose`: `Spec => []NoSurvivor`, assuming
  `~(InitMode /\ "cancel" \in Env)`, which `controller_init_stop` shows to be
  needed.  `NoSurvivor` is not inductive: it looks at the end of Close only.
  `ChildInv` adds what makes it true: once `closing` is latched nothing is
  forked after the snapshot; between the snapshot and the end of
  `shutdownChild` a child is known to exist; `childDone` implies that it was
  reaped; SIGKILL has been sent to whatever still runs when the second grace
  period starts.  In init mode the context is cancelled before that only by the
  SIGTERM to itself, when the child has been reaped.
- `EveryEventQueued`: `Spec => []NoEventLost`.  `EventInv` counts: the events in
  the channel plus the sends that the three reporting goroutines still owe never
  exceed three, because each of them ends with its send.

The controller and the process, for every `Requests`:

- `ControllerLosesNoEvent`: `CtrlSpec => []NoEventLost`, from `EveryEventQueued` and the
  lemma `ControllerTakesRunnerSteps` (which follows from the way the controller's
  actions are written).
- `ClosedMeansRunnerClosed`: `CtrlSpec => []RunnerClosedFirst` outside init
  mode, from `CloserInv`, which ties the step of `Controller.Close` to that of
  `Exec.Close` and keeps Run inside a Close of its own until that is over, and from
  `NoSurvivor`.  It is about `closedCh`, `ErrCloseReq` and Run's return after its own
  Close.  `WaitClose` also returns on `closingCh` (`controller.go:103`), which Close
  posts (277) before it calls `sr.Close` (284), and under a Stop RPC's Close Run may
  return by its context arm: neither means that the runner is closed.
- `CloserIsOrdered`: `CtrlSpec => []CloserInv`, in every mode.
- `CanceledMeansOutside`: `CtrlSpec => []CanceledFromOutside`.  `ReasonInv` adds that a
  finished Close of Run's own has left its request in `closeReqCh`, so that the context
  arm, which looks there first, finds it.  The property does not say that the reason
  itself comes back: the arm of the ended RPC server (`controller.go:218`) competes with
  the queued request, and `ErrRPCServerExited` then takes the reason's place.
- `ExitIsOrderly`: `MainSpec => OrderlyExit`, without fairness.  The property looks
  at the step in which the process exits past WaitReady, without a signal and with the
  Close made by Run.  `ExitInv` says that main waits for the close only after Run has
  returned or its parent was cancelled; `CloserInv` that Run returns only after its own
  Close.  An exit straight from WaitReady, as after a failed start whose Close has
  cancelled the context, is not covered: there the process may exit inside that Close.

`SubscriberRingProofs`, for every bound, replay, chunk sizes and policy:

- `RingTypeCorrect`, `RingIsBounded`, `NothingLeftBehind`.  The invariant
  `RingInv` says that what the client has got, the chunk in the drain's hands and
  the queue are three adjacent runs that end at `kept`, unless the connection is
  broken, and that bytes are missing only from a closed ring.
- `RingImplementsStream`: every step of the ring is one of `OutputStream` or a
  stutter; the lemmas about runs of consecutive bytes (`BytesJoin`,
  `BytesPrefix`, `BytesSuffix`) carry the deliveries.

`TerminalClientsProofs`, for any clients and subscribers:

- `TypeCorrect` and `NothingHangsHolds`, whatever the IDs.  `NothingHangs` is not
  inductive: that a finished drain has left the fan-out and the registry depends
  on nobody entering them after the cleanup.  `HangInv` adds that nothing
  detaches an end before it is wired (`WiredFirst`), that each step of the
  cleanup holds from then on (`HasRing`, `OutOfFanOut`, `OutOfRegistry`), and
  that the drain waited for it (`DrainWaited`).
- `LostOnlyWhenLeavingHolds`, if no two clients share an ID (`OwnIDs`); the
  section on disagreements says what happens if they do.

`TerminalStopProofs`, where start times are known (`HasToken`), wedged or not:

- `StrangerIsSafe`: `StopSpec => []StrangerSafe`.  `StrangerInv` adds that nobody
  is hit while the pid is its owner's, and that whoever holds it when a signal is
  due got it after the match: without the match it is not inductive.
- `StoppedIsGone`: `StopSpec => []StoppedTakesAll`.  `StopInv` adds that what
  `sb stop` works on has been there (metadata precede the socket), and that with
  SIGKILL decided the recorded group is dead before the match, and stays so.

`CaptureRotationProofs`, all five properties of the run `capture`, for every
set of readers, number of writes and choice of failures.  `NoFileAssumption` says that "no
file" is not a file.

- `TranscriptStaysInOrder` and `StaysClosed` follow from
  `CaptureInv`: the numbers of the closed segments lie below the next number and
  below the count of writes (`Numbered`), a segment that is there both raw and
  compressed is there twice the same (`Twins`), the live file is newer than every
  segment, and each write is in one of them or was dropped (`Kept`).  None of
  this is in the properties, and a restart numbers its segments from it: the
  largest number on disk plus one, which `MaxIsGreatest` justifies by well-founded
  induction.
- `NothingIsLost` needs `LostInv` besides: what a file has lost was due when a line
  was cut (`spoilt`), and a live file that ends in such a line has spoilt the next
  write.  `SegmentsMove` and `LiveMoves` say where the files of a step come from.
- `SegmentsDescribeThemselves`: `HeaderInv` speaks of both copies of a segment.
- `ReadersReadInOrder`: `ReadInv` says that what a reader has printed is older
  than what it can still find under every path of its listing, fresh or stale.

`TerminalServerProofs`, for any connections, callers, attempts and peers:

- `ExitIsTheCause`: `ServerSpec => CauseIsExit`.  `ServeInv` says that while the
  window is open an exit that was reported before it is among the first `due` queued
  events, which the timer waits for; reports append and move nothing.
- `OwnParametersAlways` and `DoneOnceAlways`: `ServerSpec => []OwnParameters` and
  `[]DoneOnce`.  Both follow from `RpcInv`, one statement per connection.  `ConnOK`
  says that the bodies in the codec's stash are those of the requests it has read
  and not served, so that the smallest sequence number is that of the request
  being served; that the ids of the calls in flight and of the answers are
  distinct and behind those on the wire.  `CallerOK` follows the repository's own
  client: leaving aside the attempts whose
  connection was lost (`Kept`), at most one request is on its way, its handler
  carries the number of the attempt under way, and nothing was done for it before
  the answer of its handler; handlers of lost attempts run on and answer nobody.  Neither property is inductive without both.

`RunDirectoryProofs`, for any starts, IDs, names, pids, leftovers and cleaners,
under `Restricted`: `Exclusive` (an ID is recycled while nobody else works on it),
and a start that does not pass the checks of sbsh has an ID of its own.  The
section on disagreements says what happens otherwise; the run `rundir` is an
instance of it.

- `LiveKeepsFilesAlways`: `DirSpec => []LiveKeepsFiles`.  In `DirInv`, `OnePerId`
  says who may be up under one ID; `MetaOwned`, `SockOwned` and `SeenOwned` that a
  document, a socket and what a scan has read belong to somebody who registered
  under that ID; `SeenLive` and `NotRemoved` that no scan holds a stale word about a
  registered terminal, nor an entry of its directory to remove: this is what
  every remove relies on, and what the state of the files alone does not give.
- `NamesDistinctAlways`: `DirSpec => []NamesDistinct`.  `NameSeen` says that a start
  whose check of the name is under way has read the document of everyone who
  served that name before it was launched and still does.

The attempt to prove the first with several cleaners failed for a good reason: of
two prunes that listed the same orphan the slower removed a directory that a start
had made again in between.  `Recycles` now counts such an entry as somebody's work
on the ID (see the disagreements).

`ClientSessionProofs`, for any programs of sessions, any number of chunks and
keystrokes, and any number of stops, cancellations, hang-ups and failures
(`SessionAssumption`); from one invariant, `SessionInv`:

- `InputInOrderAlways`: `SessionSpec => []InputInOrder`.  `PumpOK` counts what was
  handed out, stashed and offered place by place.  A parked reader takes the
  offer past the stash, so the order needs that nobody is parked while something
  is stashed (`ParkedOK`), which holds because one copier at most reads:
- `InputGoesToTheLive`: `SessionSpec => InputToLiveSession`.  `CopiersOK`: the copiers
  of earlier sessions, and that of a session whose restore is past its wait, do
  not read.  This is what the wait in the restore is for, and both parts of the
  invariant end when the 500 ms cut it short (`cut`).
- `TtyRestoredAlways`: `SessionSpec => []TtyRestored`.  `TtyOK` says what a restore
  that is still to come will write, unless it came before raw mode was published
  (`late`); `CloseOK` that whoever returns has a finished Close, or a Stop's,
  behind it.

Most steps touch none of this: `Steady` says which, and one lemma per operation
shows that it is one of them.

## What is only model-checked

Liveness: it depends on fairness, and ENABLED is out of the prover's reach
(`ExitReported`, `CloseReturns`, `NothingLeaks`, `RunnerEnds`, `CloseEnds`,
`MainExits`, `ProducerFreed`, `NoLostWakeUp`, `ClosedIsReleased`, `GoneIsReleased`,
`SubscribersEnd`, `DeadIsForgotten`, `SessionEnds`, `ServeEnds`, `NobodyWaits`).
Every invariant and every action property that a passing run checks has a
theorem, some under a hypothesis, named above, that the run satisfies.

## Where the code and its documentation disagree

One run shows a disagreement:

- `controller_init_stop`: in init mode `Controller.Close` cancels the context
  before `Exec.Close`; `watchChildExit` takes the cancelled context for the exit
  of the child and sets `childDone`, so `shutdownChild` returns without SIGTERM
  or without SIGKILL.  The comment at `lifecycle.go:305` promises the escalation
  "regardless of PID-1 status".

The others have no run of their own.  Where the modules state the property that
the documentation promises, it is named, and TLC refutes it under the
configuration given here:

- `MainLeavesNoChild` (`TerminalMain`, `main.cfg` with `"stop"` in `Requests`): a
  Stop RPC during the start cancels the controller's context first; `runTerminal`
  leaves `WaitReady` with its error and the process exits while the child has not
  been sent SIGTERM, or is inside its grace period.
- `ExitedIsLast` (`TerminalRunner`, `runner.cfg`): a Stop during the start leaves
  Starting or SettingUp on disk after Exited.
- `OnlyStuckDropped` (`SubscriberRing`, `ring.cfg`): the stall budget runs from
  the start of one Write and only a whole drained chunk counts as progress; an
  interactive client that reads steadily but too slowly is dropped, against
  "never disconnected for being slow".
- `OthersRemain` (`TerminalClients`, `clients.cfg` with a second connection, `IdOf <- MCSameID` and `IDs = {"id"}`): `removeClient` deletes whatever the client's ID stands for.
  With a second connection under the same ID (a reconnect during the cleanup, a
  retried Attach, an ID chosen twice) the detach of the first unregisters the
  second, which Detach and Close no longer find; against "When a client detaches,
  other clients remain attached".
- A vanished client may stay: when the child does not read its terminal the pipe and the
  PTY buffer fill, the client's copier blocks in its write (`copier.go:109`), does not see
  the end of the connection, and without output the drain does not either.  The property
  `GoneIsReleased` excepts that reader (`Stuck`); the comment at `connections.go:164`
  says that a reader-side error detaches "so an abrupt client disconnect doesn't park the
  drain goroutine".
- `RefusedLeavesOwner` (`RunDirectory`, `rundir.cfg` with `Exclusive = FALSE`): a
  start refused because a live terminal has its ID still runs Close, which writes
  Exited over that terminal's document and may remove its socket: the effect that
  the comment at `metadata.go:69` says the guard prevents.
- `internal/discovery/orphans.go:71`: `pruneOrphanDirs` looks at the live socket only.
  Two `sb prune` may list the same orphan; when the faster has removed it and a
  start has made the directory again, the slower removes it until the socket is
  bound, or for good when it has probed before (`orphans.go:83`), against
  `LiveKeepsFiles`.  Random IDs make it unlikely; `Exclusive` leaves
  it out (`Recycles`).
- `ReadIsComplete` (`CaptureRotation`, `capture.cfg`): a rotation between the
  listing of the segments and the read of the live one makes `sb read` miss the
  rotated segment, against "no bytes can be dropped in the handoff" (`read.go:61`).
- `NothingLost` (`CaptureRotation`): `asciicast.go:117` says that a torn tail "just
  stops contributing bytes".  The capture is opened to append, so after a restart the
  first record is joined to the torn line and the decoder skips it too, although its
  write succeeded; the same after a torn header.  The property excepts these writes
  (`spoilt`).
- `CallerGetsError` (`ClientSession`, `session.cfg`): when the client's
  CreateMetadata fails, Run returns without closing the channel WaitReady waits
  on, and neither `attach.Run` nor `runClient` returns, against `attach.go:93`.
- `SessionEnds` (`ClientSession`): the teardown writes to stdout before it restores
  the terminal (`terminal.go:163`), without a limit.  With output stopped for good
  the Detach, the Close and the caller block there, against "so teardown can
  never hang" (`terminal.go:145`).
- `TtyRestored` (`ClientSession`): a Close or a Detach between MakeRaw and the
  assignment of `lastTermState` (`terminal.go:32`, `39`) finds nothing to restore, and
  runs once: the caller gets its terminal back raw, against "the parent shell is
  always handed back a usable terminal" (`terminal.go:111`).
- `InputInOrder`, `InputToLiveSession` (`ClientSession`): a cancelled copier that is
  still reading when the 500 ms are over may take a stashed chunk in the next
  session (`stdin_pump.go:108` serves the stash whatever the context says), or put its own
  behind another, against "once ctx is cancelled it never hands bytes to the
  cancelled consumer" (`stdin_pump.go:102`).
- `SenderClosesFds` (`TerminalServer`, `service.cfg`): an Attach whose PostAttach
  stage fails is answered with net/rpc's empty body; the codec never sees its
  descriptor and leaves it open, once per attempt.
- `rpc_session.go:130`: a call whose reply is lost after it was done is sent again,
  and a Write is then written twice; `DoneOnce` excepts lost connections.
- `server.go:272`: a reaper that is more than 250 ms behind the read error loses to
  the timer, and Serve returns "input/output error" for a child that has exited (#438).
- `pkg/spawn/process.go:167`: the Stop RPC of `Close` gets the caller's context
  and no limit, so with a process that accepts the call and never answers no grace
  period begins and no signal is sent, against "StopGracePeriod caps each step of
  the Close escalation (Stop RPC, SIGTERM, SIGKILL)" (`terminal.go:78`).
  After SIGKILL `waitExit` has no limit either (`process.go:191`), and `cmd.Wait`
  (`process.go:66`) also waits for the copies of a caller's Stdin, Stdout or Stderr that is
  no file, with no WaitDelay: with a Stdin that never ends, `exitCh` stays open after
  the exit, and WaitReady, WaitClose and Close wait for their context.
  `NobodyWaits` excepts exactly these.
- `cmd/sb/stop/terminals.go:262`: a terminal writes Exited before it shuts its child
  down, so `sb stop` may call a terminal "already exited" that is still closing;
  `StoppedTakesAll` speaks of "stopped" only.  `terminals.go:271`: while the
  terminal starts the child's group is not recorded yet, and `--force` leaves a
  child that ignores SIGHUP.
- `terminals.go:361` says that a stale ChildPgid implies a dead controller.  With
  `--kill-after` the document was read a timeout earlier, and a controller that does
  not answer may outlive its child; the group number is not matched
  (`terminals.go:363`).  The reuse of group numbers is left out of the model.

## Plan

Everything of the first plan is modelled: the runner, the controller, the
process, the ring, the clients, the run directory, the capture, the interactive
client, the embedder's server with the RPC exchange, and those who stop a process
from outside; the invariants and action properties the runs check are proved.
What is left: the type invariants of `TerminalController`, `TerminalMain` and
`RunDirectory` outside `Restricted` as theorems of their own, and an abstract
specification of a session (input goes to one session after the other, the
terminal comes back) that `ClientSession` implements.

## Not modelled

- The screen model and screenshots: a rendering of bytes by a vendored library.
- Parsing and merging of profiles, flags, environment and builders; printing.
- The automaton of the escape filter: a chunk holds the keystroke or does not.
- The list of attachers in the metadata, Resize, and reads of the metadata: they
  change no state that a property mentions.
- Reuse of process group numbers by the kernel (of pids it is in `RunDirectory` and
  `TerminalStop`), and the content of the output.
- Descriptors that a start opens after Close has gone past its close of them
  (`terminal.go:246`): the process or its embedder ends soon after.
