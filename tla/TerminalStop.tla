----------------------------- MODULE TerminalStop -----------------------------
(***************************************************************************)
(* Those who end a process from outside: "sb stop" (cmd/sb/stop), which    *)
(* knows it by the pid and the start token in its metadata, and the handle *)
(* of the program that spawned it (pkg/spawn), which is its parent and     *)
(* reaps it.  The process is a terminal or a client; what it does inside   *)
(* is TerminalRunner's and ClientSession's matter: here it starts, serves  *)
(* its socket, may stop answering, and ends.                               *)
(***************************************************************************)
EXTENDS Integers

CONSTANTS Kinds,      \* what is spawned: "terminal", "client"
          HasToken,   \* pidutil knows start times (Linux)
          MaxWedge    \* bound: 1 if the process may stop answering

ASSUME StopAssumption ==
    /\ Kinds \subseteq {"terminal", "client"} /\ Kinds # {}
    /\ HasToken \in BOOLEAN /\ MaxWedge \in {0, 1}

VARIABLES kind,
          proc,    \* the process: none, boot, up, zombie, gone, pid reused
          wedged,  \* it accepts connections and signals, and does nothing
          stuck,   \* not even SIGKILL ends it: it sleeps in the kernel
          ending,  \* it has been asked to stop, or its child has exited
          group,   \* its child's process group: none, the leader alive, the
                   \* rest that ignored SIGTERM or SIGHUP, dead
          meta,    \* metadata.json: recorded, child group recorded, Exited
          stop,    \* "sb stop"
          struck,  \* a stranger was signalled; it came after the match
          handle   \* the parent's TerminalHandle or ClientHandle

procVars == <<kind, proc, wedged, stuck, ending, group, meta>>
stopVars == <<procVars, stop, struck, handle>>

\* The types of the records, and of all variables.
Metas == [known : BOOLEAN, child : BOOLEAN, exited : BOOLEAN]
Stops == [pc : {"idle", "check", "group", "rpc", "match", "signal", "wait",
                "returned"},
          force : BOOLEAN, killAfter : BOOLEAN, child : BOOLEAN, killed : BOOLEAN,
          result : {"none", "exited", "notFound", "alreadyExited", "stopped",
                    "killed", "failed"}]
Strikes == [hit : BOOLEAN, raced : BOOLEAN]
Handles == [exitCh : BOOLEAN, ctx : BOOLEAN, copying : BOOLEAN,
            ready : {"no", "wait", "ready", "exited", "failed"},
            pc : {"none", "refused", "idle", "rpc", "wait", "termed", "killed",
                  "returned"}]

StopTypeOK ==
    /\ kind \in Kinds
    /\ proc \in {"none", "boot", "up", "zombie", "gone", "reused"}
    /\ wedged \in BOOLEAN /\ stuck \in BOOLEAN /\ ending \in BOOLEAN
    /\ group \in {"none", "alive", "rest", "dead"}
    /\ meta \in Metas /\ stop \in Stops /\ struck \in Strikes
    /\ handle \in Handles

Exists == proc \in {"boot", "up", "zombie"}  \* kill(pid, 0) and /proc see it
Serving == proc = "up" /\ ~wedged

StopInit ==
    /\ kind \in Kinds /\ proc = "none" /\ wedged = FALSE /\ stuck = FALSE
    /\ ending = FALSE /\ group = "none"
    /\ meta = [known |-> FALSE, child |-> FALSE, exited |-> FALSE]
    /\ stop = [pc |-> "idle", force |-> FALSE, killAfter |-> FALSE,
               child |-> FALSE, killed |-> FALSE, result |-> "none"]
    /\ struck = [hit |-> FALSE, raced |-> FALSE]
    /\ handle = [exitCh |-> FALSE, ready |-> "no", pc |-> "none", ctx |-> FALSE,
                 copying |-> FALSE]

-----------------------------------------------------------------------------
\* The process.  The kernel gives its pid away once its parent has reaped it.

\* Metadata, with the pid and its start token, precedes the control socket.
ComesUp ==
    /\ proc = "boot" /\ proc' = "up" /\ meta' = [meta EXCEPT !.known = TRUE]
    /\ UNCHANGED <<kind, wedged, stuck, ending, group, stop, struck, handle>>

\* A Stop may come while the terminal starts its child.
Forks ==
    /\ kind = "terminal" /\ Serving /\ group = "none"
    /\ group' = "alive"
    /\ UNCHANGED <<kind, proc, wedged, stuck, ending, meta, stop, struck, handle>>

RecordsChild ==
    /\ Serving /\ group # "none" /\ ~meta.child
    /\ meta' = [meta EXCEPT !.child = TRUE]
    /\ UNCHANGED <<kind, proc, wedged, stuck, ending, group, stop, struck, handle>>

Wedges ==
    /\ MaxWedge = 1 /\ proc = "up" /\ ~wedged /\ wedged' = TRUE
    /\ stuck' \in BOOLEAN
    /\ UNCHANGED <<kind, proc, ending, group, meta, stop, struck, handle>>

\* What may be left of the group when its leader exits, is sent SIGTERM, or gets
\* the SIGHUP of its terminal: all of it, the members that ignore it, nothing.
Left == {group} \cup (IF group \in {"alive", "rest"} THEN {"rest", "dead"} ELSE {})

\* The start fails, the child exits, the user leaves.
EndsByItself ==
    /\ proc \in {"boot", "up"} /\ ~wedged /\ ~ending /\ ending' = TRUE
    /\ group' \in Left
    /\ UNCHANGED <<kind, proc, wedged, stuck, meta, stop, struck, handle>>

\* Exited is written first, before the child is shut down.
WritesExited ==
    /\ ending /\ Serving /\ ~meta.exited
    /\ meta' = [meta EXCEPT !.exited = TRUE]
    /\ UNCHANGED <<kind, proc, wedged, stuck, ending, group, stop, struck, handle>>

\* shutdownChild signals the group of a leader that is alive, and waits for the
\* leader; SIGKILL follows only if that does not go.  The process may exit before
\* it, when the Stop came during the start.
Exits ==
    /\ ending /\ proc \in {"boot", "up"} /\ ~wedged
    /\ proc = "up" => meta.exited
    /\ proc' = "zombie" /\ group' \in Left
    /\ UNCHANGED <<kind, wedged, stuck, ending, meta, stop, struck, handle>>

\* cmd.Wait reaps the process and then waits for the goroutines that copy a
\* Stdin, Stdout or Stderr that is no file; after them exitCh is closed.
Reap ==
    /\ proc = "zombie" /\ proc' = "gone"
    /\ UNCHANGED <<kind, wedged, stuck, ending, group, meta, stop, struck, handle>>

CopiersEnd ==
    /\ handle.copying /\ handle' = [handle EXCEPT !.copying = FALSE]
    /\ UNCHANGED <<procVars, stop, struck>>

WaitReturns ==
    /\ proc \in {"gone", "reused"} /\ ~handle.copying /\ ~handle.exitCh
    /\ handle' = [handle EXCEPT !.exitCh = TRUE]
    /\ UNCHANGED <<procVars, stop, struck>>

PidReused ==
    /\ proc = "gone" /\ proc' = "reused"
    /\ struck' = [struck EXCEPT !.raced = stop.pc = "signal"]
    /\ UNCHANGED <<kind, wedged, stuck, ending, group, meta, stop, handle>>

\* SIGTERM and the Stop RPC ask; SIGKILL ends the process, and the child gets
\* the SIGHUP of its terminal.
Reaches == proc \in {"boot", "up"}
Asked == ending' = (ending \/ Reaches)
Killed == IF Reaches /\ ~stuck THEN proc' = "zombie" /\ group' \in Left
          ELSE UNCHANGED <<proc, group>>

-----------------------------------------------------------------------------
\* "sb stop".

At(p) == stop.pc = p
To(p) == stop' = [stop EXCEPT !.pc = p]
Result(r) == stop' = [stop EXCEPT !.pc = "returned", !.result = r]

Match == IF HasToken THEN Exists ELSE TRUE
ProcessIsOurs == Match /\ (Exists \/ proc = "reused")

\* The flags, and what discovery finds: the metadata, read once.
StopBegins ==
    /\ kind = "terminal" /\ At("idle")
    /\ \E f, k \in BOOLEAN :
         stop' = [stop EXCEPT !.force = f, !.killAfter = k,
                    !.child = meta.child,
                    !.pc = IF meta.known THEN "check" ELSE "returned",
                    !.result = IF meta.known
                               THEN (IF meta.exited THEN "exited" ELSE "none")
                               ELSE "notFound"]
    /\ UNCHANGED <<procVars, struck, handle>>

\* Reconcile and stopOneTerminal: recorded as exited, or not our process.
StopChecks ==
    /\ At("check")
    /\ IF stop.result = "exited" \/ ~ProcessIsOurs THEN Result("alreadyExited")
       ELSE To(IF stop.force THEN "group" ELSE "rpc")
    /\ UNCHANGED <<procVars, struck, handle>>

\* stopViaRPC, bounded by --timeout: answered, refused, or out of time.
RpcAnswered ==
    /\ At("rpc") /\ Serving /\ Asked /\ To("wait")
    /\ UNCHANGED <<kind, proc, wedged, stuck, group, meta, struck, handle>>

RpcFails ==
    /\ At("rpc") /\ To("match") /\ UNCHANGED <<procVars, struck, handle>>

\* sendSignal: first the match, then the signal.
Kills == stop.killed \/ stop.force

\* Mutant: the signal goes to whoever holds the pid.
MutMatches ==
    /\ At("match") /\ To("signal") /\ UNCHANGED <<procVars, struck, handle>>

Matches ==
    /\ At("match") /\ To(IF Match THEN "signal" ELSE "wait")
    /\ UNCHANGED <<procVars, struck, handle>>

Signals ==
    /\ At("signal") /\ To("wait")
    /\ IF Reaches
       THEN IF Kills THEN Killed /\ UNCHANGED ending
            ELSE Asked /\ UNCHANGED <<proc, group>>
       ELSE UNCHANGED <<proc, group, ending>>
    /\ struck' = [struck EXCEPT !.hit = @ \/ proc = "reused"]
    /\ UNCHANGED <<kind, wedged, stuck, meta, handle>>

\* waitForExit polls until the process is not ours any more, or gives up.
StopSeesExit ==
    /\ At("wait") /\ ~ProcessIsOurs
    /\ Result(IF Kills THEN "killed" ELSE "stopped")
    /\ UNCHANGED <<procVars, struck, handle>>

\* Mutant: the escalation signals the process only.
MutStopTimesOut ==
    /\ At("wait") /\ ProcessIsOurs
    /\ IF stop.killAfter /\ ~Kills
       THEN stop' = [stop EXCEPT !.killed = TRUE, !.pc = "match"]
       ELSE Result("failed")
    /\ UNCHANGED <<procVars, struck, handle>>

\* --timeout or sigkillGrace; --kill-after goes on once.
StopTimesOut ==
    /\ At("wait") /\ ProcessIsOurs
    /\ IF stop.killAfter /\ ~Kills
       THEN stop' = [stop EXCEPT !.killed = TRUE, !.pc = "group"]
       ELSE Result("failed")
    /\ UNCHANGED <<procVars, struck, handle>>

\* sendPgroupKill, with the group the metadata held when it was read.
KillsGroup ==
    /\ At("group") /\ To("match")
    /\ group' = IF stop.child THEN "dead" ELSE group
    /\ ending' = (ending \/ (group = "alive" /\ group' = "dead" /\ proc = "up"))
    /\ UNCHANGED <<kind, proc, wedged, stuck, meta, struck, handle>>

StopStep == \/ StopChecks \/ RpcAnswered \/ RpcFails \/ Matches \/ Signals
            \/ StopSeesExit \/ StopTimesOut \/ KillsGroup

-----------------------------------------------------------------------------
\* The handle of the program that spawned the process.

HandleAt(p) == handle.pc = p
HandleTo(p) == handle' = [handle EXCEPT !.pc = p]

\* The context has ended, the inputs are refused or the start fails; or the
\* process runs detached, with a goroutine that waits for it, and those that
\* copy the streams of the caller (resolveStdio).
Launch ==
    /\ HandleAt("none")
    /\ \/ HandleTo("refused") /\ UNCHANGED proc
       \/ /\ \E b \in BOOLEAN : handle' = [handle EXCEPT !.pc = "idle", !.copying = b]
          /\ proc' = "boot"
    /\ UNCHANGED <<kind, wedged, stuck, ending, group, meta, stop, struck>>

LaunchTerminal == kind = "terminal" /\ Launch
LaunchClient == kind = "client" /\ Launch

Held == ~HandleAt("none") /\ ~HandleAt("refused")
Ready(r) == /\ handle' = [handle EXCEPT !.ready = r]
            /\ UNCHANGED <<procVars, stop, struck>>

\* WaitReady asks the socket until it answers, while the process is there.
ReadyBegins ==
    /\ Held /\ handle.ready = "no"
    /\ Ready(IF handle.exitCh THEN "exited" ELSE "wait")
ReadyPings == handle.ready = "wait" /\ Serving /\ Ready("ready")
ReadySeesExit == handle.ready = "wait" /\ handle.exitCh /\ Ready("exited")
ReadyGivesUp == handle.ready = "wait" /\ Ready("failed")

\* Close: the Stop RPC, SIGTERM, SIGKILL, each with its grace period after it.
CloseBegins ==
    /\ HandleAt("idle") /\ HandleTo(IF handle.exitCh THEN "returned" ELSE "rpc")
    /\ UNCHANGED <<procVars, stop, struck>>

CloseAsks ==
    /\ HandleAt("rpc") /\ Serving /\ Asked /\ HandleTo("wait")
    /\ UNCHANGED <<kind, proc, wedged, stuck, group, meta, stop, struck>>

\* No socket, no connection or one that was cut, an error for an answer, or the
\* context has ended: the grace begins whatever the error.
CloseAskFails ==
    /\ HandleAt("rpc")
    /\ ~(proc = "up" /\ wedged) \/ handle.ctx
    /\ HandleTo("wait") /\ UNCHANGED <<procVars, stop, struck>>

\* Mutant: one signal, and a wait without an end after it.
MutGraceExpires ==
    /\ HandleAt("wait") /\ ~handle.ctx /\ HandleTo("killed")
    /\ IF handle.exitCh THEN UNCHANGED ending ELSE Asked
    /\ UNCHANGED <<kind, proc, wedged, stuck, group, meta, stop, struck>>

GraceExpires ==
    /\ HandleAt("wait") /\ ~handle.ctx /\ HandleTo("termed")
    /\ IF handle.exitCh THEN UNCHANGED ending ELSE Asked
    /\ UNCHANGED <<kind, proc, wedged, stuck, group, meta, stop, struck>>

TermExpires ==
    /\ HandleAt("termed") /\ ~handle.ctx /\ HandleTo("killed")
    /\ IF handle.exitCh THEN UNCHANGED <<proc, group>> ELSE Killed
    /\ UNCHANGED <<kind, wedged, stuck, ending, meta, stop, struck>>

CloseWaits == handle.pc \in {"wait", "termed", "killed"}

CloseSeesExit ==
    /\ CloseWaits /\ handle.exitCh /\ HandleTo("returned")
    /\ UNCHANGED <<procVars, stop, struck>>

CloseSeesCtx ==
    /\ CloseWaits /\ handle.ctx /\ HandleTo("returned")
    /\ UNCHANGED <<procVars, stop, struck>>

CallerCancels ==
    /\ (CloseWaits \/ HandleAt("rpc")) /\ ~handle.ctx
    /\ handle' = [handle EXCEPT !.ctx = TRUE]
    /\ UNCHANGED <<procVars, stop, struck>>

HandleStep == \/ ReadyPings \/ ReadySeesExit \/ CloseAsks \/ CloseAskFails
              \/ GraceExpires \/ TermExpires \/ CloseSeesExit \/ CloseSeesCtx

-----------------------------------------------------------------------------
ProcStep == ComesUp \/ WritesExited \/ Exits \/ Reap \/ WaitReturns

StopNext == \/ ProcStep \/ StopStep \/ HandleStep
            \/ Forks \/ RecordsChild \/ Wedges \/ CopiersEnd \/ EndsByItself \/ PidReused
            \/ StopBegins \/ LaunchTerminal \/ LaunchClient
            \/ ReadyBegins \/ ReadyGivesUp \/ CloseBegins \/ CallerCancels

StopSpec == StopInit /\ [][StopNext]_stopVars

\* What is scheduled: the process unless it is wedged, the wait for it, the
\* timers of "sb stop" and of Close.  Nobody need call, cancel or exit, and no
\* stream of the caller need end.
StopFairSpec ==
    /\ StopSpec /\ WF_stopVars(StopStep)
    /\ WF_stopVars(ProcStep) /\ WF_stopVars(HandleStep)

\* A signal of "sb stop" reaches a stranger only if the process ended and its
\* pid was given away between the match and the signal: never one that held
\* the pid before (sendSignal, processIsOurs).
StrangerSafe == struck.hit => struck.raced

\* When "sb stop" says that the terminal stopped, it is gone; and after SIGKILL
\* nothing is left of the group of the child it knew of, the members that ignore
\* SIGHUP included, whatever the process did of itself meanwhile
\* (stopOneTerminal).  Of the child nothing is promised without SIGKILL:
\* shutdownChild leaves members that ignore SIGTERM, and a start that is stopped
\* may leave the child.
StoppedTakesAll ==
    /\ stop.result \in {"stopped", "killed"} => ~Exists
    /\ (stop.result = "killed" /\ stop.child) => group = "dead"

\* Nobody waits for ever: "sb stop" returns whatever the terminal does, and so
\* do WaitReady and Close, except on a process that is up and has stopped
\* answering (WaitReady without a limit, and the Stop RPC, which has none), on
\* one that SIGKILL does not end, and on a stream of the caller that never ends,
\* which cmd.Wait outwaits the process for.
NobodyWaits ==
    <>[](/\ stop.pc \in {"idle", "returned"}
         /\ handle.ready = "wait" => \/ proc = "up" /\ wedged
                                     \/ proc \in {"gone", "reused"} /\ handle.copying
         /\ \/ handle.pc \in {"none", "refused", "idle", "returned"}
            \/ HandleAt("rpc") /\ proc = "up" /\ wedged
            \/ HandleAt("killed") /\ (handle.copying \/ (proc = "up" /\ stuck)))
=============================================================================
