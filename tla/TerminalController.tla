------------------------- MODULE TerminalController -------------------------
(***************************************************************************)
(* The controller of one terminal (internal/terminal/controller.go) with   *)
(* its runner: Run drives the start and then selects over four channels,   *)
(* while Close may run on Run's goroutine or on one started by a Stop RPC. *)
(*                                                                         *)
(*   run       the goroutine of Run; "failing", "onEvent", "onRpcDone" and *)
(*             "onCtxDone" are its calls of Close                          *)
(*   closer    the goroutine inside Close: the next step of its body       *)
(*   closedBy  who won the CompareAndSwap on shuttingDown                  *)
(*   returned  the error Run returned                                      *)
(***************************************************************************)
EXTENDS TerminalRunner

CONSTANT Requests \* what the user does, a subset of UserRequests

\* "stop"      a Stop RPC
\* "signal"    the parent context is cancelled (SIGINT, SIGTERM)
\* "emptySpec" the terminal spec names no command
UserRequests == {"stop", "signal", "emptySpec"}

\* The controller itself cancels the runner's context and takes its events.
ASSUME ControllerAssumption == /\ Requests \subseteq UserRequests
                               /\ {"cancel", "consume"} \subseteq Env

VARIABLES run, returned, closer, closedBy, ctrlDone, parentDone,
          closingCh, closeReqCh, ready

runVars     == <<run, returned, ready>>
closerVars  == <<closer, closedBy>>
chanVars    == <<closingCh, closeReqCh>>
ctxVars     == <<ctrlDone, parentDone>>
ctrlOwnVars == <<runVars, closerVars, chanVars, ctxVars>>
ctrlVars    == <<runnerVars, ctrlOwnVars>>

CallsOfClose == {"failing", "onEvent", "onRpcDone", "onCtxDone"}

\* closeReqCh and closingCh have a buffer of one: 0 or 1 reasons in it.
CtrlTypeOK ==
    /\ run \in {"starting", "loop", "returned"} \cup CallsOfClose
    /\ returned \in {"no", "noCommand", "startFailed", "rpcNotStarted", "ctxDone",
                     "rpcExited", "closeReq"}
    /\ closer \in {"idle", "cancel", "notify", "runner", "request", "mark",
                   "done"}
    /\ closedBy \in {"nobody", "run", "stop"}
    /\ ctrlDone \in BOOLEAN /\ parentDone \in BOOLEAN
    /\ closingCh \in 0..1 /\ closeReqCh \in 0..1
    /\ ready \in BOOLEAN

CtrlInit ==
    /\ RunnerInit
    /\ run = "starting" /\ returned = "no" /\ ready = FALSE
    /\ closer = "idle" /\ closedBy = "nobody"
    /\ ctrlDone = FALSE /\ parentDone = FALSE
    /\ closingCh = 0 /\ closeReqCh = 0

shuttingDown == closedBy # "nobody"
closed == closer = "done"

-----------------------------------------------------------------------------
\* The context of the runner is derived from the controller's.
CancelBoth ==
    /\ ctrlDone' = TRUE
    /\ CancelParent \/ (ctxDone /\ UNCHANGED runnerVars)

RunReturns(err) == run' = "returned" /\ returned' = err

\* ErrSpecCmdMissing: Run returns, nothing is closed.
RunRefusesSpec ==
    /\ "emptySpec" \in Requests
    /\ run = "starting" /\ start = "idle"
    /\ RunReturns("noCommand")
    /\ UNCHANGED <<runnerVars, ready, closerVars, chanVars, ctxVars>>

(***************************************************************************)
(* Run: the start, step by step.  A failed step goes to Close, except that *)
(* a server that did not start makes Run return at once.                   *)
(***************************************************************************)
RunStarts ==
    /\ run = "starting"
    /\ StartStep
    /\ \/ /\ start' = "ready" /\ run' = "loop" /\ ready' = TRUE
          /\ UNCHANGED returned
       \/ /\ start' = "failed" /\ start = "bound"
          /\ RunReturns("rpcNotStarted") /\ UNCHANGED ready
       \/ /\ start' = "failed" /\ start # "bound"
          /\ run' = "failing" /\ UNCHANGED <<returned, ready>>
       \/ start' \notin StartEnded /\ UNCHANGED runVars
    /\ UNCHANGED <<closerVars, chanVars, ctxVars>>

\* Mutant: the ctx.Done arm does not look at closeReqCh.
MutRunSeesCtxDone ==
    /\ run = "loop" /\ ctrlDone
    /\ run' = "onCtxDone"
    /\ UNCHANGED <<runnerVars, returned, ready, closerVars, chanVars, ctxVars>>

\* The ctx.Done arm prefers a close request that is already queued.
RunSeesCtxDone ==
    /\ run = "loop" /\ ctrlDone
    /\ \/ closeReqCh = 1 /\ closeReqCh' = 0 /\ RunReturns("closeReq")
       \/ closeReqCh = 0 /\ run' = "onCtxDone"
          /\ UNCHANGED <<closeReqCh, returned>>
    /\ UNCHANGED <<runnerVars, ready, closerVars, closingCh, ctxVars>>

\* EvError and EvCmdExited alike end in onClosed.
RunTakesEvent ==
    /\ run = "loop" /\ run' = "onEvent"
    /\ TakeEvent
    /\ UNCHANGED <<returned, ready, closerVars, chanVars, ctxVars>>

\* rpcDoneCh was sent on or closed by the accept loop.
RunSeesRPCDone ==
    /\ run = "loop" /\ server = "done" /\ run' = "onRpcDone"
    /\ UNCHANGED <<runnerVars, returned, ready, closerVars, chanVars, ctxVars>>

RunTakesCloseReq ==
    /\ run = "loop" /\ closeReqCh = 1 /\ closeReqCh' = 0
    /\ RunReturns("closeReq")
    /\ UNCHANGED <<runnerVars, ready, closerVars, closingCh, ctxVars>>

\* Mutant: Load and Store instead of CompareAndSwap.
MutClaimClose(who) ==
    /\ closer' = "cancel" /\ closedBy' = who

\* The CompareAndSwap at the head of Close, won.
ClaimClose(who) ==
    /\ ~shuttingDown /\ closer' = "cancel" /\ closedBy' = who

RunCallsClose ==
    /\ run \in CallsOfClose /\ closedBy # "run"
    /\ ClaimClose("run")
    /\ UNCHANGED <<runnerVars, runVars, chanVars, ctxVars>>

\* Close is over for Run: it ran the body itself, or another goroutine does
\* and Close returned at once.
RunAfterClose ==
    /\ run \in CallsOfClose
    /\ closedBy = "stop" \/ (closedBy = "run" /\ closer = "done")
    /\ \/ run = "onEvent" /\ run' = "loop" /\ UNCHANGED returned
       \/ run = "failing" /\ RunReturns("startFailed")
       \/ run = "onRpcDone" /\ RunReturns("rpcExited")
       \/ run = "onCtxDone" /\ RunReturns("ctxDone")
    /\ UNCHANGED <<runnerVars, ready, closerVars, chanVars, ctxVars>>

RunStep == \/ RunRefusesSpec \/ RunStarts \/ RunSeesCtxDone \/ RunTakesEvent
           \/ RunSeesRPCDone \/ RunTakesCloseReq \/ RunCallsClose \/ RunAfterClose

-----------------------------------------------------------------------------
(***************************************************************************)
(* Stop: the RPC answers at once, and a goroutine of its own calls Close.  *)
(***************************************************************************)
Stop ==
    /\ "stop" \in Requests
    /\ start \notin {"idle", "metadata", "bound"}
    /\ server # "none" /\ returned # "rpcNotStarted"
    /\ ClaimClose("stop")
    /\ UNCHANGED <<runnerVars, runVars, chanVars, ctxVars>>

(***************************************************************************)
(* The body of Close.                                                      *)
(***************************************************************************)
CloserMoves(from, to) == closer = from /\ closer' = to /\ UNCHANGED closedBy

CloserCancels ==
    /\ CloserMoves("cancel", "notify")
    /\ CancelBoth
    /\ UNCHANGED <<runVars, chanVars, parentDone>>

CloserNotifies ==
    /\ CloserMoves("notify", "runner")
    /\ closingCh = 0 /\ closingCh' = 1
    /\ UNCHANGED <<runnerVars, runVars, closeReqCh, ctxVars>>

\* Mutant: go sr.Close(reason).
MutCloserClosesRunner ==
    /\ closer = "runner" /\ closer' = "request"
    /\ BeginClose
    /\ UNCHANGED <<closedBy, runVars, chanVars, ctxVars>>

\* sr.Close, step by step.
CloserClosesRunner ==
    /\ closer = "runner"
    /\ BeginClose \/ CloseStep
    /\ closer' = IF close' = "done" THEN "request" ELSE "runner"
    /\ UNCHANGED <<closedBy, runVars, chanVars, ctxVars>>

CloserRequests ==
    /\ CloserMoves("request", "mark")
    /\ closeReqCh = 0 /\ closeReqCh' = 1
    /\ UNCHANGED <<runnerVars, runVars, closingCh, ctxVars>>

CloserMarks ==
    /\ CloserMoves("mark", "done")
    /\ UNCHANGED <<runnerVars, runVars, chanVars, ctxVars>>

CloserStep == \/ CloserCancels \/ CloserNotifies \/ CloserClosesRunner
              \/ CloserRequests \/ CloserMarks

\* The parent context: SIGINT or SIGTERM through signal.NotifyContext.
Interrupt ==
    /\ "signal" \in Requests /\ ~parentDone /\ parentDone' = TRUE
    /\ CancelBoth
    /\ UNCHANGED <<runVars, closerVars, chanVars>>

\* What the runner's goroutines and its child do by themselves.
RunnerProceeds ==
    /\ ChildExits \/ GoroutineStep
    /\ UNCHANGED ctrlOwnVars

CtrlNext == RunStep \/ Stop \/ CloserStep \/ Interrupt \/ RunnerProceeds

CtrlSpec == CtrlInit /\ [][CtrlNext]_ctrlVars

\* Run and Close are ordinary goroutines; nobody is bound to send Stop or a
\* signal, and the child may run for ever.
CtrlFairSpec == /\ CtrlSpec
                /\ WF_ctrlVars(RunStep) /\ WF_ctrlVars(CloserStep)
                /\ GoroutineFairness

-----------------------------------------------------------------------------
\* closedCh, Run's ErrCloseReq, and any return of Run after a Close of its own
\* tell that the runner is closed: by then the child is gone, or was killed
\* and not reaped in time.  Two other signs of a close tell nothing of it and
\* are not meant here: closingCh, on which WaitClose returns too, and the
\* cancelled context, which ends WaitReady and, under a Stop RPC's Close, Run.
RunnerClosedFirst ==
    closed \/ (run = "returned" /\ (returned = "closeReq" \/ closedBy = "run")) =>
        /\ close = "done"
        /\ child \in {"none", "reaped"} \/ killExpired

\* Run returns the generic "context canceled" only when it was cancelled from
\* outside: by the parent context, or by the Close of a Stop RPC.  After a
\* Close of its own it never does; it returns the close request or, if the
\* loop sees that first, the end of the RPC server.
CanceledFromOutside == returned = "ctxDone" /\ ~parentDone => closedBy = "stop"

\* A Close that has begun and the exit of the child both end in a closed
\* controller and a Run that has returned, during the start as well and
\* however many callers race: no send on closingCh or closeReqCh blocks for
\* ever.
CloseEnds ==
    (shuttingDown \/ (run = "loop" /\ child \in {"zombie", "reaped"}))
        ~> (closed /\ run = "returned")
=============================================================================
