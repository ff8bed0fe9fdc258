--------------------------- MODULE TerminalClients ---------------------------
(***************************************************************************)
(* The clients of one terminal once its PTY is wired: interactive clients  *)
(* (Attach, Detach, handleClient, cleanupClient), passive subscribers      *)
(* (Subscribe), the fan-out they hang on, and Exec.Close sweeping both     *)
(* (connections.go, subscribe.go, sockets.go, lifecycle.go).               *)
(*                                                                         *)
(*   handle   handleClient of a client    sub      Subscribe of a          *)
(*   reader   its copier, socket to PTY            subscriber              *)
(*   manager  its CopierManager           rpc      the handler of Detach   *)
(*   drain    Run of a subscriberWriter   detach   the body of detachOnce  *)
(*                                                                         *)
(* The ring itself is that of SubscriberRing; here it holds something or   *)
(* nothing.  The attachers in the metadata are not part of this module.    *)
(***************************************************************************)
EXTENDS FiniteSets

CONSTANTS Conns, \* the connections of interactive clients, one per Attach
          Subs,  \* the connections of subscribers, one per Subscribe
          IDs,   \* client IDs
          IdOf,  \* the ID a client attaches with; nothing makes it unique
          None   \* no connection

ASSUME ClientsAssumption == /\ IdOf \in [Conns -> IDs]
                            /\ Conns \cap Subs = {}
                            /\ None \notin Conns \cup Subs

Ends == Conns \cup Subs

VARIABLES handle, clients, reader, manager, sub, subscribers,
          fanout, ring, drain, detach, conn,
          rpc, target, grace, ctxDone, sweep, toClose

attachVars == <<handle, reader, manager>>
subVars    == <<sub, subscribers>>
outVars    == <<fanout, ring, drain>>
rpcVars    == <<rpc, target, grace>>
sweepVars  == <<ctxDone, sweep, toClose>>
clientVars == <<attachVars, clients, subVars, outVars, detach, conn, rpcVars,
                sweepVars>>

ClientsTypeOK ==
    /\ handle \in [Conns -> {"none", "added", "published", "wired"}]
    /\ clients \in [IDs -> Conns \cup {None}]
    /\ reader \in [Conns -> {"none", "top", "reading", "writing", "detaching", "ended"}]
    /\ manager \in [Conns -> {"none", "waiting", "detaching", "ended"}]
    /\ sub \in [Subs -> {"none", "checked", "registered", "running", "answered",
                         "refused"}]
    /\ subscribers \subseteq Subs /\ toClose \subseteq Subs
    /\ fanout \subseteq Ends
    /\ ring \in [Ends -> {"none", "open", "closed"}]
    /\ drain \in [Ends -> {"none", "running", "detaching", "done"}]
    /\ detach \in [Ends -> {"none", "remove", "close", "unregister", "done"}]
    /\ conn \in [Ends -> {"none", "open", "gone", "closed"}]
    /\ rpc \in {"idle", "snapshot", "remove", "close", "unregister"}
    /\ target \in Conns \cup {None}
    /\ grace \subseteq Conns
    /\ ctxDone \in BOOLEAN
    /\ sweep \in {"idle", "subscribers", "closing", "done"}

ClientsInit ==
    /\ handle = [c \in Conns |-> "none"] /\ clients = [i \in IDs |-> None]
    /\ reader = [c \in Conns |-> "none"] /\ manager = [c \in Conns |-> "none"]
    /\ sub = [s \in Subs |-> "none"] /\ subscribers = {}
    /\ fanout = {} /\ ring = [e \in Ends |-> "none"]
    /\ drain = [e \in Ends |-> "none"]
    /\ detach = [e \in Ends |-> "none"]
    /\ conn = [e \in Ends |-> "none"]
    /\ rpc = "idle" /\ target = None /\ grace = {}
    /\ ctxDone = FALSE /\ sweep = "idle" /\ toClose = {}

Moves(v, e, from, to) == v[e] = from /\ v' = [v EXCEPT ![e] = to]
CloseRing(e) == ring' = [ring EXCEPT ![e] = "closed"]

\* detachOnce.Do: the first caller runs the body, the others wait for it.
CallDetach(e) ==
    detach' = [detach EXCEPT ![e] = IF detach[e] = "none" THEN "remove"
                                                         ELSE detach[e]]
Detached(e) == detach[e] = "done"

-----------------------------------------------------------------------------
(***************************************************************************)
(* Attach and handleClient.                                                *)
(***************************************************************************)
\* Mutant: the client is registered by handleClient, which may come too late.
MutAttach(c) ==
    /\ Moves(handle, c, "none", "added")
    /\ conn' = [conn EXCEPT ![c] = "open"]
    /\ UNCHANGED <<clients, reader, manager, subVars, outVars, detach, rpcVars,
                   sweepVars>>

\* CreateNewClient: a socket pair, addClient under the client's ID, and go
\* handleClient.  Attach does not look at the context.
Attach(c) ==
    /\ Moves(handle, c, "none", "added")
    /\ clients' = [clients EXCEPT ![IdOf[c]] = c]
    /\ conn' = [conn EXCEPT ![c] = "open"]
    /\ UNCHANGED <<reader, manager, subVars, outVars, detach, rpcVars, sweepVars>>

\* A ring seeded with the initial paint, if there is one, published under
\* clientsMu for Detach and Close to find.
PublishWriter(c) ==
    /\ Moves(handle, c, "added", "published")
    /\ ring' = [ring EXCEPT ![c] = "open"]
    /\ UNCHANGED <<reader, manager, clients, subVars, fanout, drain, detach,
                   conn, rpcVars, sweepVars>>

\* multiOutW.Add, then the drain, the reader and the manager start.
WireClient(c) ==
    /\ Moves(handle, c, "published", "wired")
    /\ fanout' = fanout \cup {c}
    /\ drain' = [drain EXCEPT ![c] = "running"]
    /\ reader' = [reader EXCEPT ![c] = "top"]
    /\ manager' = [manager EXCEPT ![c] = "waiting"]
    /\ UNCHANGED <<clients, subVars, ring, detach, conn, rpcVars,
                   sweepVars>>

HandleStep(c) == PublishWriter(c) \/ WireClient(c)

(***************************************************************************)
(* The reader: runReadWriter.  It leaves by the context without errFunc,   *)
(* by an error through errFunc, which detaches.                            *)
(***************************************************************************)
ReaderLooks(c) ==
    /\ Moves(reader, c, "top", IF ctxDone THEN "ended" ELSE "reading")
    /\ UNCHANGED <<handle, manager, clients, subVars, outVars, detach, conn,
                   rpcVars, sweepVars>>

\* Mutant: errFunc only half-closes the socket.
MutReaderFails(c) ==
    /\ Moves(reader, c, "reading", "ended")
    /\ conn[c] \in {"gone", "closed"} \/ manager[c] # "waiting"
    /\ UNCHANGED <<handle, manager, clients, subVars, outVars, detach, conn,
                   rpcVars, sweepVars>>

\* The peer or this end is closed, or the manager has set the deadline.
ReaderFails(c) ==
    /\ Moves(reader, c, "reading", "detaching")
    /\ conn[c] \in {"gone", "closed"} \/ manager[c] # "waiting"
    /\ CallDetach(c)
    /\ UNCHANGED <<handle, manager, clients, subVars, outVars, conn, rpcVars,
                   sweepVars>>

ReaderEnds(c) ==
    /\ Moves(reader, c, "detaching", "ended") /\ Detached(c)
    /\ UNCHANGED <<handle, manager, clients, subVars, outVars, detach, conn,
                   rpcVars, sweepVars>>

\* Input from the client, which the copier goes on to write to the pipe of the
\* PTY writer.
Input(c) ==
    /\ conn[c] = "open" /\ Moves(reader, c, "reading", "writing")
    /\ UNCHANGED <<handle, manager, clients, subVars, outVars, detach, conn,
                   rpcVars, sweepVars>>

\* The pipe takes it.  Nothing makes it: it stays full as long as the child does
\* not read its terminal.
InputWritten(c) ==
    /\ Moves(reader, c, "writing", "top")
    /\ UNCHANGED <<handle, manager, clients, subVars, outVars, detach, conn,
                   rpcVars, sweepVars>>

\* The cancelled context closes the pipe, which ends the write.
InputRefused(c) ==
    /\ ctxDone /\ Moves(reader, c, "writing", "detaching") /\ CallDetach(c)
    /\ UNCHANGED <<handle, manager, clients, subVars, outVars, conn, rpcVars,
                   sweepVars>>

ReaderStep(c) == \/ ReaderLooks(c) \/ ReaderFails(c) \/ InputRefused(c)
                 \/ ReaderEnds(c)

(***************************************************************************)
(* CopierManager: the end of the reader also cancels the copier's context, *)
(* and select picks any arm that is ready.                                 *)
(***************************************************************************)
ManagerSeesCtx(c) ==
    /\ Moves(manager, c, "waiting", "detaching")
    /\ ctxDone \/ reader[c] = "ended"
    /\ CallDetach(c)
    /\ UNCHANGED <<handle, reader, clients, subVars, outVars, conn, rpcVars,
                   sweepVars>>

ManagerSeesGroup(c) ==
    /\ Moves(manager, c, "waiting", "ended") /\ reader[c] = "ended"
    /\ UNCHANGED <<handle, reader, clients, subVars, outVars, detach, conn,
                   rpcVars, sweepVars>>

ManagerEnds(c) ==
    /\ Moves(manager, c, "detaching", "ended") /\ Detached(c)
    /\ UNCHANGED <<handle, reader, clients, subVars, outVars, detach, conn,
                   rpcVars, sweepVars>>

ManagerStep(c) == ManagerSeesCtx(c) \/ ManagerSeesGroup(c) \/ ManagerEnds(c)

-----------------------------------------------------------------------------
(***************************************************************************)
(* The drains.  What the rings hold is SubscriberRing's: there may always  *)
(* be something to write, and a closed ring is drained before the drain    *)
(* ends.                                                                   *)
(***************************************************************************)
\* A ring is full and stays full: lagged, and closed.  The PTY reader writes to a
\* snapshot of the fan-out, which may be older than a Remove.
Lag(e) ==
    /\ drain[e] # "none" /\ ring[e] = "open" /\ CloseRing(e)
    /\ UNCHANGED <<attachVars, clients, subVars, fanout, drain, detach, conn,
                   rpcVars, sweepVars>>

\* A write fails: a closed connection, a vanished peer, the write deadline.
DrainFails(e) ==
    /\ Moves(drain, e, "running", "detaching")
    /\ CloseRing(e) /\ CallDetach(e)
    /\ UNCHANGED <<attachVars, clients, subVars, fanout, conn, rpcVars, sweepVars>>

\* Mutant: the drain returns without onDetach.
MutDrainEnds(e) ==
    /\ ring[e] = "closed" /\ Moves(drain, e, "running", "done")
    /\ conn' = [conn EXCEPT ![e] = "closed"]
    /\ UNCHANGED <<attachVars, clients, subVars, fanout, ring, detach, rpcVars,
                   sweepVars>>

DrainEnds(e) ==
    /\ ring[e] = "closed" /\ Moves(drain, e, "running", "detaching")
    /\ CallDetach(e)
    /\ UNCHANGED <<attachVars, clients, subVars, fanout, ring, conn, rpcVars,
                   sweepVars>>

\* Mutant: a flag instead of sync.Once, so that a second caller does not wait.
MutDrainLeaves(e) ==
    /\ Moves(drain, e, "detaching", "done")
    /\ conn' = [conn EXCEPT ![e] = "closed"]
    /\ UNCHANGED <<attachVars, clients, subVars, fanout, ring, detach, rpcVars,
                   sweepVars>>

DrainLeaves(e) ==
    /\ Moves(drain, e, "detaching", "done") /\ Detached(e)
    /\ conn' = [conn EXCEPT ![e] = "closed"]
    /\ UNCHANGED <<attachVars, clients, subVars, fanout, ring, detach, rpcVars,
                   sweepVars>>

\* The steps of Run that end it once its ring is closed.
DrainStep(e) == DrainEnds(e) \/ DrainLeaves(e)

(***************************************************************************)
(* The body of detachOnce: cleanupClient, or that of Subscribe, which      *)
(* leaves the ring alone.                                                  *)
(***************************************************************************)
LeaveFanOut(e) ==
    /\ Moves(detach, e, "remove", IF e \in Conns THEN "close" ELSE "unregister")
    /\ fanout' = fanout \ {e}
    /\ UNCHANGED <<attachVars, clients, subVars, ring, drain, conn,
                   rpcVars, sweepVars>>

CloseWriter(c) ==
    /\ Moves(detach, c, "close", "unregister")
    /\ CloseRing(c)
    /\ UNCHANGED <<attachVars, clients, subVars, fanout, drain, conn,
                   rpcVars, sweepVars>>

\* removeClient deletes whatever the ID stands for.
removeClient(c) == clients' = [clients EXCEPT ![IdOf[c]] = None]

Unregister(e) ==
    /\ Moves(detach, e, "unregister", "done")
    /\ \/ e \in Conns /\ removeClient(e) /\ UNCHANGED subscribers
       \/ e \in Subs /\ subscribers' = subscribers \ {e} /\ UNCHANGED clients
    /\ UNCHANGED <<attachVars, sub, outVars, conn, rpcVars, sweepVars>>

DetachStep(e) == LeaveFanOut(e) \/ CloseWriter(e) \/ Unregister(e)

-----------------------------------------------------------------------------
(***************************************************************************)
(* The Detach RPC: one at a time in this model.                            *)
(***************************************************************************)
RpcMoves(from, to) == rpc = from /\ rpc' = to

FindClient(c) ==
    /\ clients[IdOf[c]] = c /\ RpcMoves("idle", "snapshot") /\ target' = c
    /\ UNCHANGED <<attachVars, clients, subVars, outVars, detach, conn, grace,
                   sweepVars>>

\* The writer may not be published yet; then only the connection is closed.
SnapshotWriter ==
    /\ RpcMoves("snapshot", IF handle[target] = "added" THEN "unregister"
                                                        ELSE "remove")
    /\ UNCHANGED <<attachVars, clients, subVars, outVars, detach, conn, target,
                   grace, sweepVars>>

RemoveWriter ==
    /\ RpcMoves("remove", "close") /\ fanout' = fanout \ {target}
    /\ UNCHANGED <<attachVars, clients, subVars, ring, drain, detach,
                   conn, target, grace, sweepVars>>

EndWriter ==
    /\ RpcMoves("close", "unregister") /\ CloseRing(target)
    /\ UNCHANGED <<attachVars, clients, subVars, fanout, drain, detach,
                   conn, target, grace, sweepVars>>

\* removeClient, and the goroutine that closes the connection in 100 ms.
Forget ==
    /\ RpcMoves("unregister", "idle") /\ target' = None
    /\ removeClient(target) /\ grace' = grace \cup {target}
    /\ UNCHANGED <<attachVars, subVars, outVars, detach, conn, sweepVars>>

GraceEnds(c) ==
    /\ c \in grace /\ grace' = grace \ {c}
    /\ conn' = [conn EXCEPT ![c] = "closed"]
    /\ UNCHANGED <<attachVars, clients, subVars, outVars, detach, rpc, target,
                   sweepVars>>

RpcStep == SnapshotWriter \/ RemoveWriter \/ EndWriter \/ Forget

-----------------------------------------------------------------------------
(***************************************************************************)
(* Subscribe.                                                              *)
(***************************************************************************)
\* The early check of the context.
CheckEarly(s) ==
    /\ Moves(sub, s, "none", IF ctxDone THEN "refused" ELSE "checked")
    /\ conn' = [conn EXCEPT ![s] = IF ctxDone THEN "closed" ELSE "open"]
    /\ UNCHANGED <<attachVars, clients, subscribers, outVars, detach, rpcVars,
                   sweepVars>>

AddSubscriber(s) ==
    /\ Moves(sub, s, "checked", "registered")
    /\ subscribers' = subscribers \cup {s}
    /\ ring' = [ring EXCEPT ![s] = "open"]
    /\ UNCHANGED <<attachVars, clients, fanout, drain, detach, conn,
                   rpcVars, sweepVars>>

WireSubscriber(s) ==
    /\ Moves(sub, s, "registered", "running")
    /\ fanout' = fanout \cup {s}
    /\ drain' = [drain EXCEPT ![s] = "running"]
    /\ UNCHANGED <<attachVars, clients, subscribers, ring, detach,
                   conn, rpcVars, sweepVars>>

\* Mutant: no late check (before #226).
MutCheckLate(s) ==
    /\ Moves(sub, s, "running", "answered")
    /\ UNCHANGED <<attachVars, clients, subscribers, outVars, detach, conn,
                   rpcVars, sweepVars>>

\* The late check: Close may have listed the subscribers before this one.
CheckLate(s) ==
    /\ Moves(sub, s, "running", IF ctxDone THEN "refused" ELSE "answered")
    /\ IF ctxDone THEN CloseRing(s) ELSE UNCHANGED ring
    /\ UNCHANGED <<attachVars, clients, subscribers, fanout, drain, detach, conn,
                   rpcVars, sweepVars>>

SubscribeStep(s) == AddSubscriber(s) \/ WireSubscriber(s) \/ CheckLate(s)

-----------------------------------------------------------------------------
(***************************************************************************)
(* Exec.Close, from the cancelled context to the close of the subscribers. *)
(***************************************************************************)
CancelCtx ==
    /\ ~ctxDone /\ ctxDone' = TRUE
    /\ UNCHANGED <<attachVars, clients, subVars, outVars, detach, conn,
                   rpcVars, sweep, toClose>>

\* The registered clients, and those of them whose writer is published.
Swept == {c \in Conns : clients[IdOf[c]] = c}
Published == {c \in Swept : handle[c] # "added"}
EndClients ==
    /\ ctxDone /\ sweep = "idle" /\ sweep' = "subscribers"
    /\ fanout' = fanout \ Published
    /\ ring' = [e \in Ends |-> IF e \in Published THEN "closed" ELSE ring[e]]
    /\ conn' = [e \in Ends |-> IF e \in Swept THEN "closed" ELSE conn[e]]

\* The loop over the clients holds clientsMu from end to end.
SweepClients ==
    /\ EndClients /\ clients' = [i \in IDs |-> None]
    /\ UNCHANGED <<attachVars, subVars, drain, detach, rpcVars, ctxDone, toClose>>

\* closeAllSubscribers: a snapshot under subsMu, then one Close after another.
ListSubscribers ==
    /\ sweep = "subscribers" /\ sweep' = "closing" /\ toClose' = subscribers
    /\ UNCHANGED <<attachVars, clients, subVars, outVars, detach, conn,
                   rpcVars, ctxDone>>

CloseSubscriber ==
    /\ sweep = "closing"
    /\ \E s \in toClose : toClose' = toClose \ {s} /\ CloseRing(s)
    /\ UNCHANGED <<attachVars, clients, subVars, fanout, drain, detach,
                   conn, rpcVars, ctxDone, sweep>>

EndSweep ==
    /\ sweep = "closing" /\ toClose = {} /\ sweep' = "done"
    /\ UNCHANGED <<attachVars, clients, subVars, outVars, detach, conn,
                   rpcVars, ctxDone, toClose>>

SweepStep == SweepClients \/ ListSubscribers \/ CloseSubscriber \/ EndSweep

PeerCloses(e) ==
    /\ Moves(conn, e, "open", "gone")
    /\ UNCHANGED <<attachVars, clients, subVars, outVars, detach, rpcVars, sweepVars>>

ClientsNext ==
    \/ \E c \in Conns : \/ Attach(c) \/ HandleStep(c) \/ ReaderStep(c) \/ Input(c)
                        \/ InputWritten(c) \/ ManagerStep(c) \/ FindClient(c) \/ GraceEnds(c)
    \/ \E s \in Subs : CheckEarly(s) \/ SubscribeStep(s)
    \/ \E e \in Ends : \/ Lag(e) \/ DrainFails(e) \/ DrainStep(e)
                       \/ DetachStep(e) \/ PeerCloses(e)
    \/ RpcStep \/ CancelCtx \/ SweepStep

ClientsSpec == ClientsInit /\ [][ClientsNext]_clientVars

\* The goroutines of the terminal and the handlers that have begun are served;
\* the write deadline ends every write of a drain.  Nothing is assumed of
\* clients, of output, of whether the child reads and of who cancels the context.
ClientsFairSpec ==
    /\ ClientsSpec
    /\ \A c \in Conns : /\ WF_clientVars(HandleStep(c))
                        /\ WF_clientVars(ReaderStep(c))
                        /\ WF_clientVars(ManagerStep(c))
                        /\ WF_clientVars(GraceEnds(c))
    /\ \A s \in Subs : WF_clientVars(SubscribeStep(s))
    /\ \A e \in Ends : WF_clientVars(DrainStep(e)) /\ WF_clientVars(DetachStep(e))
    /\ WF_clientVars(RpcStep) /\ WF_clientVars(SweepStep)

-----------------------------------------------------------------------------
Registered(e) == IF e \in Conns THEN clients[IdOf[e]] = e ELSE e \in subscribers

\* A drain that is done leaves nothing behind: its ring is closed, its
\* connection too, and neither the fan-out nor a registry still knows it, whoever
\* of the drain, the reader, the manager, Detach and Close got there first.
NothingHangs ==
    \A e \in Ends : drain[e] = "done" =>
        /\ ring[e] = "closed" /\ conn[e] = "closed"
        /\ e \notin fanout /\ ~Registered(e)

\* A client that Detach and Close cannot find is on its way out: its detach has
\* run, or its connection is closed or about to be.  handleClient runs beside
\* both, so a client may be unregistered before its writer exists.
LostOnlyWhenLeaving ==
    \A c \in Conns : handle[c] # "none" /\ ~Registered(c) =>
        detach[c] = "done" \/ conn[c] = "closed" \/ c \in grace

\* When a client detaches, other clients remain attached: its detach unregisters
\* no other client.
OthersRemain ==
    [][\A c, d \in Conns : detach[c] = "unregister" /\ detach'[c] = "done"
                              /\ Registered(d) => c = d \/ Registered(d)']_clientVars

\* Whoever closes the ring of a client or subscriber (its own detach, lag, a
\* failed write, Detach, Close, the late check of Subscribe), all of it goes.
Released(e) == drain[e] = "done" /\ e \notin fanout /\ ~Registered(e)
ClosedIsReleased == \A e \in Ends : ring[e] = "closed" ~> Released(e)

\* The child never takes what the copier of c writes.
Stuck(c) == <>[](reader[c] = "writing")

\* A client that went away, or was detached before its writer existed, is released
\* as well, without waiting for output to fail; or the terminal is closing.  Only
\* a reader that is stuck in a write, because the child does not read its
\* terminal, does not notice: such a client stays until there is output.
GoneIsReleased ==
    \A c \in Conns :
        \/ Stuck(c)
        \/ conn[c] \in {"gone", "closed"} ~> (Released(c) \/ ctxDone)

\* After Close every subscriber is released, one that registered while Close was
\* listing them too (#226).
SubscribersEnd ==
    \A s \in Subs : sweep = "done" /\ sub[s] # "none" ~>
                       (Released(s) \/ (sub[s] = "refused" /\ ring[s] = "none"))
=============================================================================
