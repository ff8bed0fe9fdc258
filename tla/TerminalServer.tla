---------------------------- MODULE TerminalServer ----------------------------
(***************************************************************************)
(* The embedder's facade (pkg/terminal/server) and the RPC exchange that   *)
(* reaches it: the client with its three attempts (pkg/rpcclient/terminal),*)
(* the descriptor-passing codecs of both ends, net/rpc's dispatch and the  *)
(* adapter, and Serve around a runner.                                     *)
(*                                                                         *)
(* A request is a verb, whether it carries parameters, and its place in    *)
(* the connection's batch, which is also its wire id and stands for its    *)
(* parameters.  The repository's client sends one request per connection;  *)
(* peers, other JSON-RPC clients, pipeline several.                        *)
(***************************************************************************)
EXTENDS Integers, Sequences, FiniteSets, Functions

CONSTANTS Callers,    \* calls of the repository's client
          Peers,      \* connections of other JSON-RPC clients
          Asks,       \* what each caller may ask for: a set of verbs
          Pipeline,   \* what a peer sends: a sequence of [verb, params]
          Handlers,   \* the names of the embedder's own services, in order
          MaxFaults   \* bound: failures of the environment

BuiltIn == "TerminalController"
PassesFd == {"attach", "subscribe"}

ASSUME ServerAssumption ==
    /\ Callers \cap Peers = {} /\ MaxFaults \in Nat
    /\ Asks \in [Callers -> SUBSET 
                          {"ping", "query", "stop", "write", "attach", "subscribe"}]
    /\ Pipeline \in Seq([verb : {"ping", "stop", "write", "unknown"},
                         params : BOOLEAN])

Conns == Callers \cup Peers
Attempts == 3  \* the delays 0, 200 and 400 ms

VARIABLES serve,      \* where Serve is
          cause,      \* what it will return
          runner,     \* the runner it built
          status,     \* the terminal's state
          child,      \* the wrapped child
          owed,       \* events its exit is about to produce
          events,     \* the event channel
          ctxDone,    \* Serve's context
          asked,      \* Stop goroutines under way, stopOnce and stopCh
          due,        \* events that were queued when the window opened
          heard,      \* ghost: the exit was among them
          listening, accepting, rpcDone, \* the listener and its accept loop
          conn,       \* per connection: client half, codec and wires
          calls,      \* handlers that run
          call,       \* per caller: its callWithCodec
          fds,        \* client halves of socketpairs the server holds
          done,       \* ghost: per caller, calls that succeeded at the server
          faults

serveVars == <<serve, cause, runner, status, child, owed, events, ctxDone, asked,
               due, heard>>
netVars == <<listening, accepting, rpcDone>>
rpcVars == <<conn, calls, call, fds, done>>
serverVars == <<serveVars, netVars, rpcVars, faults>>

-----------------------------------------------------------------------------
\* The codecs.

NoConn == [open |-> "no", try |-> 1, wire |-> << >>, next |-> 0, ids |-> << >>,
           params |-> << >>, replies |-> << >>]

ReadRequestHeader(k, id, carries) ==
    [k EXCEPT !.wire = Tail(@), !.next = @ + 1, !.ids = Append(@, id),
              !.params = Append(@, IF carries THEN id ELSE 0)]

\* paramsBySeq holds the requests whose body nobody has taken yet.
Stashed(k) == {s \in DOMAIN k.params : k.params[s] # 0}
OldestStashed(k) == CHOOSE s \in Stashed(k) : \A t \in Stashed(k) : s <= t

\* Mutant: the body of an unknown method is skipped, not consumed (net/rpc
\* passes a nil body for it).
MutReadRequestBody(k, known) ==
    IF Stashed(k) = {} \/ ~known THEN [codec |-> k, arg |-> 0]
    ELSE LET s == OldestStashed(k)
         IN [codec |-> [k EXCEPT !.params[s] = 0], arg |-> k.params[s]]

ReadRequestBody(k, known) ==
    IF Stashed(k) = {} THEN [codec |-> k, arg |-> 0]
    ELSE LET s == OldestStashed(k)
         IN [codec |-> [k EXCEPT !.params[s] = 0],
             arg |-> IF known THEN k.params[s] ELSE 0]

\* net/rpc replaces the body of a failed call, so its descriptor is not seen.
WriteResponse(k, seq, err, fd) ==
    [k EXCEPT !.replies = Append(@, [id |-> k.ids[seq], err |-> err,
                                     fd |-> IF err THEN << >> ELSE fd])]

\* The descriptors the server still holds after a response.
AfterResponse(held, fd, err) == IF err THEN held ELSE held \ {fd}

-----------------------------------------------------------------------------
\* New and validateHandlers.
Acceptable(names) ==
    /\ \A i \in DOMAIN names : names[i] \notin {"", BuiltIn}
    /\ IsInjective(names)

ServerInit ==
    /\ Acceptable(Handlers)
    /\ serve = "idle" /\ cause = "none" /\ runner = "none"
    /\ status = "starting" /\ child = "none" /\ owed = {} /\ events = << >>
    /\ due = 0 /\ heard = FALSE
    /\ ctxDone = FALSE /\ asked = [goroutines |-> 0, once |-> FALSE, ch |-> FALSE]
    /\ listening = TRUE /\ accepting = FALSE /\ rpcDone = "no"
    /\ conn = [c \in Conns |-> NoConn] /\ calls = {}
    /\ call = [c \in Callers |-> [pc |-> "idle", verb |-> "ping", attempt |-> 1,
                                  result |-> "none", got |-> {}, io |-> 0, lost |-> {}]]
    /\ fds = {} /\ done = [c \in Callers |-> {}] /\ faults = 0

Fault == faults < MaxFaults /\ faults' = faults + 1

RunnerCtxDone == ctxDone \/ runner = "closed"

-----------------------------------------------------------------------------
\* Serve: bringUp, the event loop, and the close of the runner.

Stages == <<"listener", "metadata", "rpc", "terminal", "shell", "hook", "loop">>
After(stage) == Stages[(CHOOSE i \in 1 .. 6 : Stages[i] = stage) + 1]

ServeBegins ==
    /\ serve = "idle" /\ serve' = "listener"
    /\ UNCHANGED <<due, heard, cause, runner, status, child, owed, events, ctxDone, asked,
                   netVars, rpcVars, faults>>

\* A stage succeeds: the runner takes the listener, the accept loop starts,
\* the child is forked and the fan-out wired, OnInitShell makes it Ready.
BringUp ==
    /\ serve \in Range(SubSeq(Stages, 1, 6)) /\ serve' = After(serve)
    /\ runner' = IF serve = "listener" THEN "open" ELSE runner
    /\ accepting' = (accepting \/ (serve = "rpc" /\ listening))
    /\ child' = IF serve = "terminal" THEN "running" ELSE child
    /\ status' = IF serve = "hook" THEN "Ready" ELSE status
    /\ UNCHANGED <<due, heard, cause, owed, events, ctxDone, asked, listening, rpcDone,
                   rpcVars, faults>>

\* A stage fails: the runner is closed and the error returned.
StageFails ==
    /\ serve \in Range(SubSeq(Stages, 1, 6))
    /\ Fault \/ (ctxDone /\ UNCHANGED faults)
    /\ cause' = "startup" /\ serve' = "close"
    /\ UNCHANGED <<due, heard, runner, status, child, owed, events, ctxDone, asked,
                   netVars, rpcVars>>

\* runLoop ends with this cause.
Ends(c) == /\ cause' = c /\ serve' = "close"
           /\ UNCHANGED <<due, heard, runner, status, child, owed, ctxDone, netVars, rpcVars, faults>>

SeesCtxDone == /\ serve \in {"loop", "grace"} /\ ctxDone /\ Ends("ctx")
               /\ UNCHANGED <<events, asked>>

SeesRpcDone ==
    /\ serve = "loop" /\ rpcDone # "no"
    /\ Ends(IF rpcDone = "nil" /\ ctxDone THEN "ctx" ELSE "rpc")
    /\ UNCHANGED <<events, asked>>

SeesStop == /\ serve = "loop" /\ asked.ch /\ asked' = [asked EXCEPT !.ch = FALSE]
            /\ Ends("stop") /\ UNCHANGED events

\* A PTY read error opens the grace window; any other event is the cause.  What
\* is queued by then is received at once, long before the timer.
SeesEvent ==
    /\ serve = "loop" /\ events # << >> /\ events' = Tail(events)
    /\ IF Head(events) = "ptyRead"
       THEN /\ serve' = "grace" /\ due' = Len(events')
            /\ heard' = ("exited" \in Range(events'))
            /\ UNCHANGED <<cause, runner, status, child, owed, ctxDone,
                           netVars, rpcVars, faults>>
       ELSE Ends(Head(events))
    /\ UNCHANGED asked

\* Mutant: an error ahead of the exit ends the window.
MutGraceEvent ==
    /\ serve = "grace" /\ events # << >> /\ events' = Tail(events)
    /\ Ends(IF Head(events) = "exited" THEN "exited" ELSE "ptyRead")
    /\ UNCHANGED asked

GraceEvent ==
    /\ serve = "grace" /\ events # << >> /\ events' = Tail(events)
    /\ IF Head(events) = "exited" THEN Ends("exited")
       ELSE /\ due' = IF due > 0 THEN due - 1 ELSE 0
            /\ UNCHANGED <<serve, cause, runner, status, child, owed, ctxDone,
                           heard, netVars, rpcVars, faults>>
    /\ UNCHANGED asked

\* ptyExitGrace has passed: an exit reported since may be queued or still owed.
GraceExpires == /\ serve = "grace" /\ due = 0 /\ Ends("ptyRead")
                /\ UNCHANGED <<events, asked>>

\* runner.Close: Exited is written first, the child is shut down, the context
\* cancelled; CloseEnds closes the listener and is Serve's return.
RunnerCloses ==
    /\ serve = "close" /\ serve' = "closing" /\ status' = "Exited"
    /\ runner' = "closed"
    /\ child' = IF child = "running" THEN "exited" ELSE child
    /\ UNCHANGED <<due, heard, cause, owed, events, ctxDone, asked, netVars, rpcVars, faults>>

CloseEnds ==
    /\ serve = "closing" /\ serve' = "returned"
    /\ ctxDone' = TRUE /\ listening' = FALSE
    /\ UNCHANGED <<due, heard, cause, runner, status, child, owed, events, asked, accepting,
                   rpcDone, rpcVars, faults>>

ServeStep == \/ SeesCtxDone \/ SeesRpcDone \/ SeesStop \/ SeesEvent \/ GraceEvent
             \/ GraceExpires \/ RunnerCloses \/ CloseEnds

\* Mutant: Stop drops its reason unless Serve is at the select already.
MutStopRuns ==
    /\ asked.goroutines > 0
    /\ asked' = [goroutines |-> asked.goroutines - 1, once |-> TRUE,
                 ch |-> asked.ch \/ (~asked.once /\ serve = "loop")]
    /\ UNCHANGED <<due, heard, serve, cause, runner, status, child, owed, events, ctxDone,
                   netVars, rpcVars, faults>>

\* Server.Stop: stopOnce, then a send into the buffered channel.
StopRuns ==
    /\ asked.goroutines > 0
    /\ asked' = [goroutines |-> asked.goroutines - 1, once |-> TRUE,
                 ch |-> asked.ch \/ ~asked.once]
    /\ UNCHANGED <<due, heard, serve, cause, runner, status, child, owed, events, ctxDone,
                   netVars, rpcVars, faults>>

-----------------------------------------------------------------------------
\* The world around Serve.

CancelParent ==
    /\ ~ctxDone /\ Fault /\ ctxDone' = TRUE
    /\ UNCHANGED <<due, heard, serve, cause, runner, status, child, owed, events, asked,
                   netVars, rpcVars>>

\* The master read fails and the reaper reports, in either order.
ChildExits ==
    /\ child = "running" /\ child' = "exited" /\ owed' = {"ptyRead", "exited"}
    /\ UNCHANGED <<due, heard, serve, cause, runner, status, events, ctxDone, asked,
                   netVars, rpcVars, faults>>

Report ==
    /\ \E e \in owed : owed' = owed \ {e} /\ events' = Append(events, e)
    /\ UNCHANGED <<due, heard, serve, cause, runner, status, child, ctxDone, asked,
                   netVars, rpcVars, faults>>

\* A PTY error of its own, with the child alive.
PtyFails ==
    /\ child = "running" /\ Fault
    /\ \E e \in {"ptyRead", "ptyWrite"} : events' = Append(events, e)
    /\ UNCHANGED <<due, heard, serve, cause, runner, status, child, owed, ctxDone, asked,
                   netVars, rpcVars>>

\* StartServer's accept loop: the context closes the listener, or Accept fails.
AcceptEnds ==
    /\ accepting /\ accepting' = FALSE /\ listening' = FALSE
    /\ \/ /\ RunnerCtxDone /\ rpcDone' = "nil" /\ UNCHANGED faults
       \/ ~RunnerCtxDone /\ Fault /\ rpcDone' = "err"
    /\ UNCHANGED <<serveVars, rpcVars>>

-----------------------------------------------------------------------------
\* The server's side of a connection.

Accept(c) ==
    /\ accepting /\ conn[c].open = "queued"
    /\ conn' = [conn EXCEPT ![c].open = "open"]
    /\ UNCHANGED <<serveVars, netVars, calls, call, fds, done, faults>>

\* ServeCodec's loop: header, body, and a goroutine for the handler.  An
\* unknown method is answered at once.
ReadRequest(c) ==
    /\ conn[c].open = "open" /\ conn[c].wire # << >>
    /\ LET req == Head(conn[c].wire)
           head == ReadRequestHeader(conn[c], req.id, req.params)
           body == ReadRequestBody(head, req.verb # "unknown")
       IN IF req.verb = "unknown"
          THEN /\ conn' = [conn EXCEPT ![c] =
                             WriteResponse(body.codec, head.next, TRUE, << >>)]
               /\ UNCHANGED calls
          ELSE /\ conn' = [conn EXCEPT ![c] = body.codec]
               /\ calls' = calls \cup
                     {[conn |-> c, try |-> head.try, seq |-> head.next, id |-> req.id,
                       verb |-> req.verb, arg |-> body.arg,
                       params |-> req.params, fd |-> << >>, at |-> "begin"]}
    /\ UNCHANGED <<serveVars, netVars, call, fds, done, faults>>

\* A handler returns: the codec of its connection answers, and closes what it
\* has passed on.
Answer(h, err) ==
    /\ calls' = calls \ {h}
    /\ conn' = IF h.try # conn[h.conn].try THEN conn
               ELSE [conn EXCEPT ![h.conn] = WriteResponse(@, h.seq, err, h.fd)]
    /\ fds' = AfterResponse(fds, h.fd, err)
    /\ done' = IF err \/ h.conn \notin Callers THEN done
               ELSE [done EXCEPT ![h.conn] = @ \cup {h.try}]

Built == runner # "none"
Wired == child # "none"

Ping(h) == /\ h.verb = "ping" /\ Answer(h, FALSE)
           /\ UNCHANGED <<serveVars, netVars, call, faults>>

\* Metadata, State, Resize, Detach, Screenshot: the runner is asked, and may
\* refuse.
Query(h) ==
    /\ h.verb = "query"
    /\ \/ Answer(h, ~Built) /\ UNCHANGED faults
       \/ Fault /\ Answer(h, TRUE)
    /\ UNCHANGED <<serveVars, netVars, call>>

\* The PTY takes the bytes while the child has it open.
Write(h) ==
    /\ h.verb = "write"
    /\ Answer(h, ~(Built /\ child = "running"))
    /\ UNCHANGED <<serveVars, netVars, call, faults>>

\* The reply does not wait for the shutdown.
StopCall(h) ==
    /\ h.verb = "stop" /\ Answer(h, FALSE)
    /\ asked' = [asked EXCEPT !.goroutines = @ + 1]
    /\ UNCHANGED <<due, heard, serve, cause, runner, status, child, owed, events, ctxDone,
                   netVars, call, faults>>

\* Attach and Subscribe: a socketpair, once the fan-out is wired.
AttachBegins(h) ==
    /\ h.verb \in PassesFd /\ h.at = "begin"
    /\ IF Built /\ Wired
       THEN LET fd == <<h.conn, h.try>>
            IN /\ fds' = fds \cup {fd}
               /\ calls' = (calls \ {h}) \cup 
                    {[h EXCEPT !.at = IF h.verb = "attach" THEN "await" ELSE "send",
                               !.fd = fd]}
               /\ UNCHANGED <<conn, done>>
       ELSE Answer(h, TRUE)
    /\ UNCHANGED <<serveVars, netVars, call, faults>>

Subscribe(h) == /\ h.at = "send" /\ Answer(h, FALSE)
                /\ UNCHANGED <<serveVars, netVars, call, faults>>

\* PostAttachShell polls for Ready until the runner's context ends.
AwaitReady(h) ==
    /\ h.at = "await"
    /\ \/ /\ status = "Ready" /\ status' = "PostAttach"
          /\ calls' = (calls \ {h}) \cup {[h EXCEPT !.at = "stage"]}
          /\ UNCHANGED <<conn, fds, done>>
       \/ /\ status # "Ready" /\ RunnerCtxDone
          /\ Answer(h, TRUE) /\ UNCHANGED status
    /\ UNCHANGED <<due, heard, serve, cause, runner, child, owed, events, ctxDone, asked,
                   netVars, call, faults>>

\* The PostAttach stage is written to the PTY; then the terminal is Ready.
WriteStage(h) ==
    /\ h.at = "stage"
    /\ \/ child = "running" /\ Answer(h, FALSE) /\ status' = "Ready"
       \/ child # "running" /\ Answer(h, TRUE) /\ UNCHANGED status
    /\ UNCHANGED <<due, heard, serve, cause, runner, child, owed, events, ctxDone, asked,
                   netVars, call, faults>>

Handle(h) == \/ Ping(h) \/ Query(h) \/ Write(h) \/ StopCall(h)
             \/ AttachBegins(h) \/ Subscribe(h) \/ AwaitReady(h) \/ WriteStage(h)

-----------------------------------------------------------------------------
\* The client's side: callWithCodec.

Idle(c) == call[c].pc = "idle"

Begin(c) ==
    /\ Idle(c)
    /\ \E v \in Asks[c] :
         call' = [call EXCEPT ![c].pc = "dial", ![c].verb = v]
    /\ UNCHANGED <<serveVars, netVars, conn, calls, fds, done, faults>>

\* An attempt has failed: the next one, or the last error.
Failed(r) == IF r.attempt = Attempts
             THEN [r EXCEPT !.pc = "returned", !.result = "err"]
             ELSE [r EXCEPT !.pc = "dial", !.attempt = @ + 1]

\* The listener takes connections before Serve accepts them.
Dial(c) ==
    /\ call[c].pc = "dial"
    /\ IF listening
       THEN /\ conn' = [conn EXCEPT ![c] =
                  [NoConn EXCEPT !.open = "queued", !.try = call[c].attempt,
                       !.wire = <<[id |-> 1, verb |-> call[c].verb, params |-> TRUE]>>]]
            /\ call' = [call EXCEPT ![c].pc = "wait"]
       ELSE call' = [call EXCEPT ![c] = Failed(@)] /\ UNCHANGED conn
    /\ UNCHANGED <<serveVars, netVars, calls, fds, done, faults>>

HangUp(c) == conn' = [conn EXCEPT ![c].open = "closed"]

\* A queued connection is reset when the listener closes.
Reset(c) ==
    /\ call[c].pc = "wait" /\ conn[c].open = "queued" /\ ~listening
    /\ call' = [call EXCEPT ![c] = Failed(@)] /\ HangUp(c)
    /\ UNCHANGED <<serveVars, netVars, calls, fds, done, faults>>

\* A connection is lost under the call: the peer process ends, or its reply
\* cannot be read.  The attempt may have been done, or be done still.
Lost(r) == [r EXCEPT !.lost = @ \cup {r.attempt}]

Breaks(c) ==
    /\ call[c].pc = "wait" /\ Fault
    /\ call' = [call EXCEPT ![c] = Failed(Lost(@))]
    /\ HangUp(c)
    /\ UNCHANGED <<serveVars, netVars, calls, fds, done>>

\* takeLastFDs: the descriptors of the reply just read.
Taken(c, r) == IF r.fd = << >> THEN {} ELSE {r.fd}

\* Attach and Subscribe turn the descriptor into a connection.
WithConn(r, got) ==
    [r EXCEPT !.got = got, !.pc = "returned",
              !.result = IF r.verb \in PassesFd /\ got = {} THEN "err" ELSE "nil",
              !.io = Cardinality(got)]

\* A reply: nil, or an error, which is retried whatever it says.
Reply(c) ==
    /\ call[c].pc = "wait" /\ conn[c].replies # << >>
    /\ LET r == Head(conn[c].replies)
       IN call' = [call EXCEPT ![c] = IF r.err THEN Failed(@)
                                      ELSE WithConn(@, Taken(c, r))]
    /\ HangUp(c)
    /\ UNCHANGED <<serveVars, netVars, calls, fds, done, faults>>

\* Mutant: the end of the caller's context counts as a failed attempt.
MutCallerGivesUp(c) ==
    /\ call[c].pc \in {"dial", "wait"} /\ Fault
    /\ call' = [call EXCEPT ![c] = Failed(@)]
    /\ HangUp(c)
    /\ UNCHANGED <<serveVars, netVars, calls, fds, done>>

\* The caller's context ends; a descriptor that has arrived is taken with
\* the cleanup, and nobody closes it.
CallerGivesUp(c) ==
    /\ call[c].pc \in {"dial", "wait"} /\ Fault
    /\ call' = [call EXCEPT ![c].pc = "returned", ![c].result = "ctx"]
    /\ HangUp(c)
    /\ UNCHANGED <<serveVars, netVars, calls, fds, done>>

PeerSends(p) ==
    /\ conn[p].open = "no" /\ listening
    /\ conn' = [conn EXCEPT ![p] =
          [NoConn EXCEPT !.open = "queued",
               !.wire = [i \in DOMAIN Pipeline |->
                           [id |-> i, verb |-> Pipeline[i].verb,
                            params |-> Pipeline[i].params]]]]
    /\ UNCHANGED <<serveVars, netVars, calls, call, fds, done, faults>>

CallStep(c) == Dial(c) \/ Reset(c) \/ Reply(c)

ServerNext ==
    \/ ServeBegins \/ BringUp \/ StageFails \/ ServeStep \/ StopRuns
    \/ CancelParent \/ ChildExits \/ Report \/ PtyFails \/ AcceptEnds
    \/ \E c \in Conns : Accept(c) \/ ReadRequest(c)
    \/ \E h \in calls : Handle(h)
    \/ \E c \in Callers : Begin(c) \/ CallStep(c) \/ Breaks(c) \/ CallerGivesUp(c)
    \/ \E p \in Peers : PeerSends(p)

ServerSpec == ServerInit /\ [][ServerNext]_serverVars

\* The Go scheduler runs what can run: Serve, the accept loop once its context
\* is done, the handlers and the callers.  Nobody need call, cancel or exit.
ServerFairSpec ==
    /\ ServerSpec
    /\ WF_serverVars(ServeStep) /\ WF_serverVars(BringUp \/ StageFails)
    /\ WF_serverVars(StopRuns) /\ WF_serverVars(Report)
    /\ WF_serverVars(RunnerCtxDone /\ AcceptEnds)
    /\ WF_serverVars(\E h \in calls : h.at # "begin" /\ Handle(h))
    /\ WF_serverVars(\E h \in calls : h.at = "begin" /\ Handle(h))
    /\ \A c \in Callers : /\ WF_serverVars(CallStep(c))
                          /\ WF_serverVars(Accept(c) \/ ReadRequest(c))

-----------------------------------------------------------------------------
\* A handler gets the parameters of its own request and no other's, and an
\* answer carries the id of a request of its connection exactly once, however
\* a peer pipelines known, unknown and parameterless requests.
OwnParameters ==
    /\ \A h \in calls : h.arg = IF h.params THEN h.id ELSE 0
    /\ \A c \in Conns : IsInjective([i \in DOMAIN conn[c].replies |->
                                         conn[c].replies[i].id])

\* What has succeeded, or was given up, is not sent again: of all the attempts
\* of a call only the last can have been done, but for those whose connection was
\* lost before their reply was read (those are repeated, done or not).  A call
\* that returns nil was done in the attempt it returns from, and an attach has
\* the connection of that attempt.  Done is a handler that returned nil: an
\* attach whose PostAttach stage fails is carried out, and answered with an
\* error, once per attempt.
DoneOnce ==
    \A c \in Callers :
        /\ done[c] \subseteq {call[c].attempt} \cup call[c].lost
        /\ call[c].result = "nil" =>
              /\ call[c].attempt \in done[c] \ call[c].lost
              /\ call[c].verb \in PassesFd => call[c].got = {<<c, call[c].attempt>>}

\* An exit of the child that was reported when the PTY's read error was taken
\* is what Serve returns, whatever other errors are queued before it (#438).
\* Of an exit reported later nothing is said: terminalCause waits for 250 ms
\* from the read error, and a reaper that is slower loses to the timer.
CauseIsExit ==
    [][cause = "none" /\ cause' = "ptyRead" =>
         IF serve = "grace" THEN ~heard ELSE "exited" \notin Range(events)]_serverVars

\* Serve comes to its end with the runner and the listener closed: after an
\* accepted Stop, the exit of the child or the end of its context, whatever
\* stage of the start they meet.  Calls under way return then.
ServeEnds ==
    (serve # "idle" /\ (asked.goroutines > 0 \/ child = "exited" \/ ctxDone))
        ~> /\ serve = "returned" /\ runner = "closed" /\ ~listening
           /\ \A c \in Callers : call[c].pc \in {"idle", "returned"}

\* WriteResponse's comment: the sender closes the descriptors it has passed
\* on every exit path.
SenderClosesFds == \A f \in fds : \E h \in calls : h.fd = f
=============================================================================
