---------------------------- MODULE TerminalMain ----------------------------
(***************************************************************************)
(* The process of "sbsh terminal": runTerminal (cmd/sbsh/terminal) starts  *)
(* Controller.Run on a goroutine and decides when the process exits.  Once *)
(* it has, every goroutine is gone and only the child may be left.         *)
(***************************************************************************)
EXTENDS TerminalController

VARIABLE main

mainVars == <<ctrlVars, main>>

\* The event loop is entered only once the controller has been ready.
MainTypeOK ==
    /\ main \in {"waitReady", "select", "waitClose", "exited"}
    /\ main \in {"select", "waitClose"} => ready

Alive == main # "exited"

MainInit == CtrlInit /\ main = "waitReady"

\* WaitReady looks at ctrlReadyCh and at the controller's context.
MainReady ==
    /\ main = "waitReady" /\ ready /\ main' = "select"
    /\ UNCHANGED ctrlVars

\* Mutant: WaitReady only waits for ctrlReadyCh.
MutMainNotReady == FALSE

MainNotReady ==
    /\ main = "waitReady" /\ ctrlDone /\ main' = "exited"
    /\ UNCHANGED ctrlVars

\* Mutant: the select listens to the controller's context, not the signal's.
MutMainInterrupted ==
    /\ main = "select" /\ ctrlDone /\ main' = "waitClose"
    /\ UNCHANGED ctrlVars

MainInterrupted ==
    /\ main = "select" /\ parentDone /\ main' = "waitClose"
    /\ UNCHANGED ctrlVars

\* errCh: an error that wraps context.Canceled skips WaitClose.
MainSeesRun ==
    /\ main = "select" /\ run = "returned"
    /\ main' = IF returned = "ctxDone" THEN "exited" ELSE "waitClose"
    /\ UNCHANGED ctrlVars

\* WaitClose: the controller is closed, or is closing.
MainWaitsClose ==
    /\ main = "waitClose" /\ main' = "exited"
    /\ \/ closed /\ UNCHANGED closingCh
       \/ closingCh = 1 /\ closingCh' = 0
    /\ UNCHANGED <<runnerVars, runVars, closerVars, closeReqCh, ctxVars>>

MainStep == \/ MainReady \/ MainNotReady \/ MainInterrupted \/ MainSeesRun
            \/ MainWaitsClose

\* The goroutines run as long as the process does.
Within(A) == Alive /\ A /\ UNCHANGED main

\* The child outlives the process, or ends with it.
Orphan == ~Alive /\ ChildExits /\ UNCHANGED <<ctrlOwnVars, main>>

MainNext == MainStep \/ Within(CtrlNext) \/ Orphan

MainSpec == MainInit /\ [][MainNext]_mainVars

\* The Go scheduler serves the goroutines of a live process.
MainFairSpec ==
    /\ MainSpec
    /\ WF_mainVars(MainStep)
    /\ WF_mainVars(Within(RunStep))
    /\ WF_mainVars(Within(CloserStep))

-----------------------------------------------------------------------------
\* Once runTerminal is past WaitReady, and without a signal, a Close that Run
\* itself performs (the child exited, the PTY failed, the RPC server ended) is
\* complete before the process exits.  Not meant are the Close of a Stop RPC
\* and an exit straight from WaitReady, as after a failed start, whose Close
\* has cancelled the context WaitReady looks at.
OrderlyExit ==
    [][(/\ main \in {"select", "waitClose"} /\ main' = "exited"
        /\ ~parentDone /\ closedBy = "run")
       => close = "done"]_mainVars

\* The process never exits under a child that was not given SIGTERM and the
\* grace period: at its exit the child is gone, or survived SIGKILL.
MainLeavesNoChild ==
    main = "exited" => child \in {"none", "reaped"} \/ killExpired

\* A Close or a signal ends the process, during the start as well.
MainExits == (shuttingDown \/ parentDone) ~> (main = "exited")
=============================================================================
