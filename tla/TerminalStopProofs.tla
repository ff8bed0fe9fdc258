-------------------------- MODULE TerminalStopProofs --------------------------
(***************************************************************************)
(* Proofs about sb stop and the spawner's handle.                          *)
(***************************************************************************)
EXTENDS TerminalStop, TLAPS

\* Every step keeps the types.
LEMMA TypesKept ==
  ASSUME StopTypeOK, [StopNext]_stopVars
  PROVE  StopTypeOK'
<1> USE DEF StopTypeOK, procVars
<1>1. CASE ComesUp
  <2>1. meta' \in Metas
    BY <1>1 DEF ComesUp, Metas
  <2> QED
    BY <1>1, <2>1 DEF ComesUp
<1>2. CASE WritesExited
  <2>1. meta' \in Metas
    BY <1>2 DEF WritesExited, Serving, Metas
  <2> QED
    BY <1>2, <2>1 DEF WritesExited, Serving
<1>3. CASE Exits
  BY <1>3 DEF Exits, Left
<1>4. CASE Reap
  BY <1>4 DEF Reap
<1>34. CASE CopiersEnd
  <2>1. handle' \in Handles
    BY <1>34 DEF CopiersEnd, Handles
  <2> QED
    BY <1>34, <2>1 DEF CopiersEnd
<1>35. CASE WaitReturns
  <2>1. handle' \in Handles
    BY <1>35 DEF WaitReturns, Handles
  <2> QED
    BY <1>35, <2>1 DEF WaitReturns
<1>5. CASE StopChecks
  <2>1. stop' \in Stops
    BY <1>5 DEF StopChecks, At, To, Result, ProcessIsOurs, Exists, Match, Stops
  <2> QED
    BY <1>5, <2>1 DEF StopChecks, At, To, Result, ProcessIsOurs, Exists, Match
<1>6. CASE RpcAnswered
  <2>1. stop' \in Stops
    BY <1>6 DEF RpcAnswered, Serving, Asked, At, To, Reaches, Stops
  <2> QED
    BY <1>6, <2>1 DEF RpcAnswered, Serving, Asked, At, To, Reaches
<1>7. CASE RpcFails
  <2>1. stop' \in Stops
    BY <1>7 DEF RpcFails, At, To, Stops
  <2> QED
    BY <1>7, <2>1 DEF RpcFails, At, To
<1>8. CASE Matches
  <2>1. stop' \in Stops
    BY <1>8 DEF Matches, At, To, Match, Exists, Stops
  <2> QED
    BY <1>8, <2>1 DEF Matches, At, To, Match, Exists
<1>9. CASE Signals
  <2>1. stop' \in Stops
    BY <1>9 DEF Signals, To, Stops
  <2>2. struck' \in Strikes
    BY <1>9 DEF Signals, Strikes
  <2> QED
    BY <1>9, <2>1, <2>2 DEF Signals, Reaches, Asked, Killed, Left, At, To, Kills
<1>10. CASE StopSeesExit
  <2>1. stop' \in Stops
    BY <1>10 DEF StopSeesExit, At, Result, ProcessIsOurs, Kills, Exists, Match, Stops
  <2> QED
    BY <1>10, <2>1 DEF StopSeesExit, At, Result, ProcessIsOurs, Kills, Exists, Match
<1>11. CASE StopTimesOut
  <2>1. stop' \in Stops
    BY <1>11 DEF StopTimesOut, At, Result, ProcessIsOurs, Kills, Exists, Match, Stops
  <2> QED
    BY <1>11, <2>1 DEF StopTimesOut, At, Result, ProcessIsOurs, Kills, Exists, Match
<1>12. CASE KillsGroup
  <2>1. stop' \in Stops
    BY <1>12 DEF KillsGroup, At, To, Stops
  <2> QED
    BY <1>12, <2>1 DEF KillsGroup, At, To
<1>13. CASE ReadyPings
  <2>1. handle' \in Handles
    BY <1>13 DEF ReadyPings, Serving, Ready, Handles
  <2> QED
    BY <1>13, <2>1 DEF ReadyPings, Serving, Ready
<1>14. CASE ReadySeesExit
  <2>1. handle' \in Handles
    BY <1>14 DEF ReadySeesExit, Ready, Handles
  <2> QED
    BY <1>14, <2>1 DEF ReadySeesExit, Ready
<1>15. CASE CloseAsks
  <2>1. handle' \in Handles
    BY <1>15 DEF CloseAsks, Serving, Asked, HandleAt, HandleTo, Reaches, Handles
  <2> QED
    BY <1>15, <2>1 DEF CloseAsks, Serving, Asked, HandleAt, HandleTo, Reaches
<1>16. CASE CloseAskFails
  <2>1. handle' \in Handles
    BY <1>16 DEF CloseAskFails, HandleAt, HandleTo, Handles
  <2> QED
    BY <1>16, <2>1 DEF CloseAskFails, HandleAt, HandleTo
<1>17. CASE GraceExpires
  <2>1. handle' \in Handles
    BY <1>17 DEF GraceExpires, Asked, HandleAt, HandleTo, Reaches, Handles
  <2> QED
    BY <1>17, <2>1 DEF GraceExpires, Asked, HandleAt, HandleTo, Reaches
<1>18. CASE TermExpires
  <2>1. handle' \in Handles
    BY <1>18 DEF TermExpires, Killed, Left, HandleAt, HandleTo, Reaches, Handles
  <2> QED
    BY <1>18, <2>1 DEF TermExpires, Killed, Left, HandleAt, HandleTo, Reaches
<1>19. CASE CloseSeesExit
  <2>1. handle' \in Handles
    BY <1>19 DEF CloseSeesExit, HandleTo, CloseWaits, Handles
  <2> QED
    BY <1>19, <2>1 DEF CloseSeesExit, HandleTo, CloseWaits
<1>20. CASE CloseSeesCtx
  <2>1. handle' \in Handles
    BY <1>20 DEF CloseSeesCtx, HandleTo, CloseWaits, Handles
  <2> QED
    BY <1>20, <2>1 DEF CloseSeesCtx, HandleTo, CloseWaits
<1>21. CASE Forks
  BY <1>21 DEF Forks, Serving
<1>22. CASE RecordsChild
  <2>1. meta' \in Metas
    BY <1>22 DEF RecordsChild, Serving, Metas
  <2> QED
    BY <1>22, <2>1 DEF RecordsChild, Serving
<1>23. CASE Wedges
  BY <1>23 DEF Wedges
<1>24. CASE EndsByItself
  BY <1>24 DEF EndsByItself, Left
<1>25. CASE PidReused
  <2>1. struck' \in Strikes
    BY <1>25 DEF PidReused, Strikes
  <2> QED
    BY <1>25, <2>1 DEF PidReused
<1>26. CASE StopBegins
  <2>1. PICK f, k \in BOOLEAN :
           stop' = [stop EXCEPT !.force = f, !.killAfter = k,
                      !.child = meta.child,
                      !.pc = IF meta.known THEN "check" ELSE "returned",
                      !.result = IF meta.known
                                 THEN (IF meta.exited THEN "exited" ELSE "none")
                                 ELSE "notFound"]
    BY <1>26 DEF StopBegins
  <2>2. meta.child \in BOOLEAN
    BY DEF Metas
  <2>3. stop' \in Stops
    BY <2>1, <2>2 DEF Stops
  <2> QED
    BY <1>26, <2>3 DEF StopBegins
<1>27. CASE LaunchTerminal
  <2>1. handle' \in Handles
    BY <1>27 DEF LaunchTerminal, Launch, HandleAt, HandleTo, Handles
  <2> QED
    BY <1>27, <2>1 DEF LaunchTerminal, Launch, HandleAt, HandleTo
<1>28. CASE LaunchClient
  <2>1. handle' \in Handles
    BY <1>28 DEF LaunchClient, Launch, HandleAt, HandleTo, Handles
  <2> QED
    BY <1>28, <2>1 DEF LaunchClient, Launch, HandleAt, HandleTo
<1>29. CASE ReadyBegins
  <2>1. handle' \in Handles
    BY <1>29 DEF ReadyBegins, Held, Ready, HandleAt, Handles
  <2> QED
    BY <1>29, <2>1 DEF ReadyBegins, Held, Ready, HandleAt
<1>30. CASE ReadyGivesUp
  <2>1. handle' \in Handles
    BY <1>30 DEF ReadyGivesUp, Ready, Handles
  <2> QED
    BY <1>30, <2>1 DEF ReadyGivesUp, Ready
<1>31. CASE CloseBegins
  <2>1. handle' \in Handles
    BY <1>31 DEF CloseBegins, HandleAt, HandleTo, Handles
  <2> QED
    BY <1>31, <2>1 DEF CloseBegins, HandleAt, HandleTo
<1>32. CASE CallerCancels
  <2>1. handle' \in Handles
    BY <1>32 DEF CallerCancels, HandleAt, CloseWaits, Handles
  <2> QED
    BY <1>32, <2>1 DEF CallerCancels, HandleAt, CloseWaits
<1>33. CASE UNCHANGED stopVars
  BY <1>33 DEF stopVars
<1> QED
  BY <1>1, <1>2, <1>3, <1>4, <1>5, <1>6, <1>7, <1>8, <1>9, <1>10, <1>11,
     <1>12, <1>13, <1>14, <1>15, <1>16, <1>17, <1>18, <1>19, <1>20, <1>21,
     <1>22, <1>23, <1>24, <1>25, <1>26, <1>27, <1>28, <1>29, <1>30, <1>31,
     <1>32, <1>33, <1>34, <1>35
     DEF StopNext, ProcStep, StopStep, HandleStep

\* The types hold whatever is spawned and whoever stops it.
THEOREM TypeCorrect == StopSpec => []StopTypeOK
<1>1. StopInit => StopTypeOK
  <2> SUFFICES ASSUME StopInit
               PROVE  StopTypeOK
    OBVIOUS
  <2>1. meta \in Metas /\ struck \in Strikes
    BY DEF StopInit, Metas, Strikes
  <2>2. stop \in Stops
    BY DEF StopInit, Stops
  <2>3. handle \in Handles
    BY DEF StopInit, Handles
  <2> QED
    BY <2>1, <2>2, <2>3 DEF StopInit, StopTypeOK
<1> QED
  BY <1>1, TypesKept, PTL DEF StopSpec

\* Why a stranger is safe: nobody is hit before the pid is given away, and who
\* holds it when a signal is due got it after the match.
Unspawned == handle.pc = "none" => proc = "none"
StrangerInv ==
    /\ Unspawned
    /\ proc # "reused" => ~struck.hit
    /\ (proc = "reused" /\ stop.pc = "signal") => struck.raced
    /\ StrangerSafe

LEMMA StrangerKept ==
  ASSUME HasToken, StopTypeOK, StrangerInv, [StopNext]_stopVars
  PROVE  StrangerInv'
<1> USE HasToken DEF StopTypeOK, Metas, Stops, Strikes, Handles, StrangerInv, StrangerSafe, Unspawned, procVars
<1>1. CASE ComesUp
  BY <1>1 DEF ComesUp
<1>2. CASE WritesExited
  BY <1>2 DEF WritesExited, Serving
<1>3. CASE Exits
  BY <1>3 DEF Exits, Left
<1>4. CASE Reap
  BY <1>4 DEF Reap
<1>34. CASE CopiersEnd
  BY <1>34 DEF CopiersEnd
<1>35. CASE WaitReturns
  BY <1>35 DEF WaitReturns
<1>5. CASE StopChecks
  BY <1>5 DEF StopChecks, At, To, Result, ProcessIsOurs, Exists, Match
<1>6. CASE RpcAnswered
  BY <1>6 DEF RpcAnswered, Serving, Asked, At, To, Reaches
<1>7. CASE RpcFails
  BY <1>7 DEF RpcFails, At, To
<1>8. CASE Matches
  BY <1>8 DEF Matches, At, To, Match, Exists
<1>9. CASE Signals
  BY <1>9 DEF Signals, Reaches, Asked, Killed, Left, At, To, Kills
<1>10. CASE StopSeesExit
  BY <1>10 DEF StopSeesExit, At, Result, ProcessIsOurs, Kills, Exists, Match
<1>11. CASE StopTimesOut
  BY <1>11 DEF StopTimesOut, At, Result, ProcessIsOurs, Kills, Exists, Match
<1>12. CASE KillsGroup
  BY <1>12 DEF KillsGroup, At, To
<1>13. CASE ReadyPings
  BY <1>13 DEF ReadyPings, Serving, Ready
<1>14. CASE ReadySeesExit
  BY <1>14 DEF ReadySeesExit, Ready
<1>15. CASE CloseAsks
  BY <1>15 DEF CloseAsks, Serving, Asked, HandleAt, HandleTo, Reaches
<1>16. CASE CloseAskFails
  BY <1>16 DEF CloseAskFails, HandleAt, HandleTo
<1>17. CASE GraceExpires
  BY <1>17 DEF GraceExpires, Asked, HandleAt, HandleTo, Reaches
<1>18. CASE TermExpires
  BY <1>18 DEF TermExpires, Killed, Left, HandleAt, HandleTo, Reaches
<1>19. CASE CloseSeesExit
  BY <1>19 DEF CloseSeesExit, HandleTo, CloseWaits
<1>20. CASE CloseSeesCtx
  BY <1>20 DEF CloseSeesCtx, HandleTo, CloseWaits
<1>21. CASE Forks
  BY <1>21 DEF Forks, Serving
<1>22. CASE RecordsChild
  BY <1>22 DEF RecordsChild, Serving
<1>23. CASE Wedges
  BY <1>23 DEF Wedges
<1>24. CASE EndsByItself
  BY <1>24 DEF EndsByItself, Left
<1>25. CASE PidReused
  BY <1>25 DEF PidReused
<1>26. CASE StopBegins
  BY <1>26 DEF StopBegins, At
<1>27. CASE LaunchTerminal
  BY <1>27 DEF LaunchTerminal, Launch, HandleAt, HandleTo
<1>28. CASE LaunchClient
  BY <1>28 DEF LaunchClient, Launch, HandleAt, HandleTo
<1>29. CASE ReadyBegins
  BY <1>29 DEF ReadyBegins, Held, Ready, HandleAt
<1>30. CASE ReadyGivesUp
  BY <1>30 DEF ReadyGivesUp, Ready
<1>31. CASE CloseBegins
  BY <1>31 DEF CloseBegins, HandleAt, HandleTo
<1>32. CASE CallerCancels
  BY <1>32 DEF CallerCancels, HandleAt, CloseWaits
<1>33. CASE UNCHANGED stopVars
  BY <1>33 DEF stopVars
<1> QED
  BY <1>1, <1>2, <1>3, <1>4, <1>5, <1>6, <1>7, <1>8, <1>9, <1>10, <1>11,
     <1>12, <1>13, <1>14, <1>15, <1>16, <1>17, <1>18, <1>19, <1>20, <1>21,
     <1>22, <1>23, <1>24, <1>25, <1>26, <1>27, <1>28, <1>29, <1>30, <1>31,
     <1>32, <1>33, <1>34, <1>35
     DEF StopNext, ProcStep, StopStep, HandleStep

\* With start tokens sb stop signals a stranger only if it took the pid between
\* the match and the signal (sendSignal).
THEOREM StrangerIsSafe ==
  ASSUME HasToken
  PROVE  StopSpec => []StrangerSafe
<1>1. StopInit => StrangerInv
  BY DEF StopInit, StrangerInv, StrangerSafe, Unspawned
<1>2. StopTypeOK /\ StrangerInv /\ [StopNext]_stopVars => StrangerInv'
  BY HasToken, StrangerKept
<1>3. StrangerInv => StrangerSafe
  BY DEF StrangerInv
<1> QED
  BY TypeCorrect, <1>1, <1>2, <1>3, PTL DEF StopSpec

\* What sb stop works on has been there, and its group is killed before it.
Working == stop.pc \in {"check", "group", "rpc", "match", "signal", "wait"}
Past == proc \in {"gone", "reused"}
StopInv ==
    /\ Unspawned
    /\ meta.known => proc \notin {"none", "boot"}
    /\ Working => meta.known
    /\ meta.child => group # "none"
    /\ stop.child => group # "none"
    /\ stop.pc \in {"idle", "check", "rpc"} => ~stop.killed
    /\ stop.pc \in {"idle", "rpc"} => ~stop.force
    /\ (Kills /\ stop.child /\ stop.pc \in {"match", "signal", "wait"}) =>
            group = "dead"
    /\ stop.pc # "returned" => stop.result \in {"none", "exited"}
    /\ stop.result \in {"stopped", "killed"} => Past
    /\ stop.result = "stopped" => ~Kills
    /\ stop.result = "killed" /\ stop.child => group = "dead"

LEMMA StopInvKept ==
  ASSUME HasToken, StopTypeOK, StopInv, [StopNext]_stopVars
  PROVE  StopInv'
<1> USE HasToken DEF StopTypeOK, Metas, Stops, Strikes, Handles, StopInv, Unspawned,
         Working, Past, Kills, procVars
<1>1. CASE ComesUp
  BY <1>1 DEF ComesUp
<1>2. CASE WritesExited
  BY <1>2 DEF WritesExited, Serving
<1>3. CASE Exits
  BY <1>3 DEF Exits, Left
<1>4. CASE Reap
  BY <1>4 DEF Reap
<1>34. CASE CopiersEnd
  BY <1>34 DEF CopiersEnd
<1>35. CASE WaitReturns
  BY <1>35 DEF WaitReturns
<1>5. CASE StopChecks
  <2>1. CASE stop.result = "exited" \/ ~ProcessIsOurs
    <3>1. /\ UNCHANGED <<kind, proc, group, meta, struck, handle>>
          /\ stop' = [stop EXCEPT !.pc = "returned", !.result = "alreadyExited"]
      BY <1>5, <2>1 DEF StopChecks, Result
    <3>2. /\ stop'.pc = "returned" /\ stop'.result = "alreadyExited"
          /\ stop'.force = stop.force /\ stop'.killed = stop.killed
          /\ stop'.child = stop.child
      BY <3>1
    <3>3. UNCHANGED <<kind, proc, group, meta, struck, handle>>
      BY <3>1
    <3> QED
      BY <3>2, <3>3
  <2>2. CASE ~(stop.result = "exited" \/ ~ProcessIsOurs)
    BY <1>5, <2>2 DEF StopChecks, At, To
  <2> QED
    BY <2>1, <2>2
<1>6. CASE RpcAnswered
  BY <1>6 DEF RpcAnswered, Serving, Asked, At, To, Reaches
<1>7. CASE RpcFails
  BY <1>7 DEF RpcFails, At, To
<1>8. CASE Matches
  BY <1>8 DEF Matches, At, To, Match, Exists
<1>9. CASE Signals
  BY <1>9 DEF Signals, Reaches, Asked, Killed, Left, At, To, Kills
<1>10. CASE StopSeesExit
  BY <1>10 DEF StopSeesExit, At, Result, ProcessIsOurs, Kills, Exists, Match
<1>11. CASE StopTimesOut
  <2>1. CASE stop.killAfter /\ ~Kills
    BY <1>11, <2>1 DEF StopTimesOut, At
  <2>2. CASE ~(stop.killAfter /\ ~Kills)
    <3>1. /\ UNCHANGED <<kind, proc, group, meta, struck, handle>>
          /\ stop' = [stop EXCEPT !.pc = "returned", !.result = "failed"]
      BY <1>11, <2>2 DEF StopTimesOut, Result
    <3>2. /\ stop'.pc = "returned" /\ stop'.result = "failed"
          /\ stop'.force = stop.force /\ stop'.killed = stop.killed
          /\ stop'.child = stop.child
      BY <3>1
    <3>3. UNCHANGED <<kind, proc, group, meta, struck, handle>>
      BY <3>1
    <3> QED
      BY <3>2, <3>3
  <2> QED
    BY <2>1, <2>2
<1>12. CASE KillsGroup
  BY <1>12 DEF KillsGroup, At, To
<1>13. CASE ReadyPings
  BY <1>13 DEF ReadyPings, Serving, Ready
<1>14. CASE ReadySeesExit
  BY <1>14 DEF ReadySeesExit, Ready
<1>15. CASE CloseAsks
  BY <1>15 DEF CloseAsks, Serving, Asked, HandleAt, HandleTo, Reaches
<1>16. CASE CloseAskFails
  BY <1>16 DEF CloseAskFails, HandleAt, HandleTo
<1>17. CASE GraceExpires
  BY <1>17 DEF GraceExpires, Asked, HandleAt, HandleTo, Reaches
<1>18. CASE TermExpires
  BY <1>18 DEF TermExpires, Killed, Left, HandleAt, HandleTo, Reaches
<1>19. CASE CloseSeesExit
  BY <1>19 DEF CloseSeesExit, HandleTo, CloseWaits
<1>20. CASE CloseSeesCtx
  BY <1>20 DEF CloseSeesCtx, HandleTo, CloseWaits
<1>21. CASE Forks
  BY <1>21 DEF Forks, Serving
<1>22. CASE RecordsChild
  BY <1>22 DEF RecordsChild, Serving
<1>23. CASE Wedges
  BY <1>23 DEF Wedges
<1>24. CASE EndsByItself
  BY <1>24 DEF EndsByItself, Left
<1>25. CASE PidReused
  BY <1>25 DEF PidReused
<1>26. CASE StopBegins
  <2>1. CASE meta.known /\ meta.exited
    BY <1>26, <2>1 DEF StopBegins, At
  <2>2. CASE meta.known /\ ~meta.exited
    BY <1>26, <2>2 DEF StopBegins, At
  <2>3. CASE ~meta.known
    BY <1>26, <2>3 DEF StopBegins, At
  <2> QED
    BY <2>1, <2>2, <2>3
<1>27. CASE LaunchTerminal
  BY <1>27 DEF LaunchTerminal, Launch, HandleAt, HandleTo
<1>28. CASE LaunchClient
  BY <1>28 DEF LaunchClient, Launch, HandleAt, HandleTo
<1>29. CASE ReadyBegins
  BY <1>29 DEF ReadyBegins, Held, Ready, HandleAt
<1>30. CASE ReadyGivesUp
  BY <1>30 DEF ReadyGivesUp, Ready
<1>31. CASE CloseBegins
  BY <1>31 DEF CloseBegins, HandleAt, HandleTo
<1>32. CASE CallerCancels
  BY <1>32 DEF CallerCancels, HandleAt, CloseWaits
<1>33. CASE UNCHANGED stopVars
  BY <1>33 DEF stopVars
<1> QED
  BY <1>1, <1>2, <1>3, <1>4, <1>5, <1>6, <1>7, <1>8, <1>9, <1>10, <1>11,
     <1>12, <1>13, <1>14, <1>15, <1>16, <1>17, <1>18, <1>19, <1>20, <1>21,
     <1>22, <1>23, <1>24, <1>25, <1>26, <1>27, <1>28, <1>29, <1>30, <1>31,
     <1>32, <1>33, <1>34, <1>35
     DEF StopNext, ProcStep, StopStep, HandleStep

\* "stopped" means that the process is gone, and all of the group it had recorded
\* if it took SIGKILL, with whatever else happens to both (stopOneTerminal).
THEOREM StoppedIsGone ==
  ASSUME HasToken
  PROVE  StopSpec => []StoppedTakesAll
<1>1. StopInit => StopInv
  BY DEF StopInit, StopInv, Unspawned, Working, Past, Kills
<1>2. StopTypeOK /\ StopInv /\ [StopNext]_stopVars => StopInv'
  BY HasToken, StopInvKept
<1>3. StopInv => StoppedTakesAll
  BY DEF StopInv, StoppedTakesAll, Past, Exists
<1> QED
  BY TypeCorrect, <1>1, <1>2, <1>3, PTL DEF StopSpec
=============================================================================
