----------------------- MODULE TerminalClientsProofs -----------------------
(***************************************************************************)
(* Proofs about the clients of a terminal, for any number of them and      *)
(* whatever IDs they attach with.                                          *)
(***************************************************************************)
EXTENDS TerminalClients, TLAPS

\* A Detach that has begun has found a client.
TargetFound == rpc # "idle" => target \in Conns

\* A step keeps the types, and the target of Detach a client.
LEMMA TypesKept ==
  ASSUME ClientsTypeOK, TargetFound, [ClientsNext]_clientVars
  PROVE  ClientsTypeOK' /\ TargetFound'
<1> USE ClientsAssumption DEF ClientsTypeOK, TargetFound, Ends, attachVars,
     subVars, outVars, rpcVars, sweepVars
<1>1. CASE \E c \in Conns : Attach(c)
  BY <1>1 DEF Attach, Moves
<1>2. CASE \E c \in Conns : PublishWriter(c)
  BY <1>2 DEF PublishWriter, Moves
<1>3. CASE \E c \in Conns : WireClient(c)
  BY <1>3 DEF WireClient, Moves
<1>4. CASE \E c \in Conns : ReaderLooks(c)
  BY <1>4 DEF ReaderLooks, Moves
<1>5. CASE \E c \in Conns : ReaderFails(c)
  BY <1>5 DEF ReaderFails, Moves, CallDetach
<1>6. CASE \E c \in Conns : ReaderEnds(c)
  BY <1>6 DEF ReaderEnds, Moves, Detached
<1>7. CASE \E c \in Conns : Input(c)
  BY <1>7 DEF Input, Moves
<1>8. CASE \E c \in Conns : ManagerSeesCtx(c)
  BY <1>8 DEF ManagerSeesCtx, Moves, CallDetach
<1>9. CASE \E c \in Conns : ManagerSeesGroup(c)
  BY <1>9 DEF ManagerSeesGroup, Moves
<1>10. CASE \E c \in Conns : ManagerEnds(c)
  BY <1>10 DEF ManagerEnds, Moves, Detached
<1>11. CASE \E c \in Conns : FindClient(c)
  BY <1>11 DEF FindClient, RpcMoves
<1>12. CASE \E c \in Conns : GraceEnds(c)
  BY <1>12 DEF GraceEnds
<1>13. CASE \E s \in Subs : CheckEarly(s)
  BY <1>13 DEF CheckEarly, Moves
<1>14. CASE \E s \in Subs : AddSubscriber(s)
  BY <1>14 DEF AddSubscriber, Moves
<1>15. CASE \E s \in Subs : WireSubscriber(s)
  BY <1>15 DEF WireSubscriber, Moves
<1>16. CASE \E s \in Subs : CheckLate(s)
  BY <1>16 DEF CheckLate, Moves, CloseRing
<1>17. CASE \E e \in Ends : Lag(e)
  BY <1>17 DEF Lag, CloseRing
<1>18. CASE \E e \in Ends : DrainFails(e)
  BY <1>18 DEF DrainFails, Moves, CloseRing, CallDetach
<1>19. CASE \E e \in Ends : DrainEnds(e)
  BY <1>19 DEF DrainEnds, Moves, CallDetach
<1>20. CASE \E e \in Ends : DrainLeaves(e)
  BY <1>20 DEF DrainLeaves, Moves, Detached
<1>21. CASE \E e \in Ends : LeaveFanOut(e)
  BY <1>21 DEF LeaveFanOut, Moves
<1>22. CASE \E e \in Ends : CloseWriter(e)
  BY <1>22 DEF CloseWriter, Moves, CloseRing
<1>23. CASE \E e \in Ends : Unregister(e)
  BY <1>23 DEF Unregister, Moves, removeClient
<1>24. CASE \E e \in Ends : PeerCloses(e)
  BY <1>24 DEF PeerCloses, Moves
<1>25. CASE SnapshotWriter
  BY <1>25 DEF SnapshotWriter, RpcMoves
<1>26. CASE RemoveWriter
  BY <1>26 DEF RemoveWriter, RpcMoves
<1>27. CASE EndWriter
  BY <1>27 DEF EndWriter, RpcMoves, CloseRing
<1>28. CASE Forget
  BY <1>28 DEF Forget, RpcMoves, removeClient
<1>29. CASE CancelCtx
  BY <1>29 DEF CancelCtx
<1>30. CASE SweepClients
  BY <1>30 DEF SweepClients, EndClients, Swept, Published
<1>31. CASE ListSubscribers
  BY <1>31 DEF ListSubscribers
<1>32. CASE CloseSubscriber
  BY <1>32 DEF CloseSubscriber, CloseRing
<1>33. CASE EndSweep
  BY <1>33 DEF EndSweep
<1>34. CASE UNCHANGED clientVars
  BY <1>34 DEF clientVars
<1>35. CASE \E c \in Conns : InputWritten(c)
  BY <1>35 DEF InputWritten, Moves
<1>36. CASE \E c \in Conns : InputRefused(c)
  BY <1>36 DEF InputRefused, Moves, CallDetach
<1> QED
  BY <1>1, <1>2, <1>3, <1>4, <1>5, <1>6, <1>7, <1>8, <1>9, <1>10, <1>11, <1>12,
     <1>13, <1>14, <1>15, <1>16, <1>17, <1>18, <1>19, <1>20, <1>21, <1>22,
     <1>23, <1>24, <1>25, <1>26, <1>27, <1>28, <1>29, <1>30, <1>31, <1>32,
     <1>33, <1>34, <1>35, <1>36 DEF ClientsNext, HandleStep, ReaderStep, ManagerStep,
     SubscribeStep, DrainStep, DetachStep, RpcStep, SweepStep

\* The state is always of the declared types.
THEOREM TypeCorrect == ClientsSpec => [](ClientsTypeOK /\ TargetFound)
<1>1. ClientsInit => ClientsTypeOK /\ TargetFound
  BY ClientsAssumption DEF ClientsInit, ClientsTypeOK, TargetFound, Ends
<1>2. ClientsTypeOK /\ TargetFound /\ [ClientsNext]_clientVars
        => (ClientsTypeOK /\ TargetFound)'
  BY TypesKept
<1> QED
  BY <1>1, <1>2, PTL DEF ClientsSpec

-----------------------------------------------------------------------------
(***************************************************************************)
(* NothingHangs.  Nobody detaches an end that is not wired, so what the    *)
(* body of detachOnce undoes is not done again after it.                   *)
(***************************************************************************)
NotWired(e) == IF e \in Conns THEN handle[e] \in {"none", "added", "published"}
                               ELSE sub[e] \in {"none", "checked", "registered"}
WiredFirst ==
    \A e \in Ends : NotWired(e) =>
        /\ drain[e] = "none" /\ detach[e] = "none"
        /\ e \in Conns => reader[e] = "none" /\ manager[e] = "none"
HasRing ==
    \A e \in Ends : drain[e] \in {"detaching", "done"} => ring[e] = "closed"
OutOfFanOut ==
    \A e \in Ends : detach[e] \in {"close", "unregister", "done"} => e \notin fanout
OutOfRegistry == \A e \in Ends : detach[e] = "done" => ~Registered(e)
DrainWaited ==
    \A e \in Ends : drain[e] = "done" => detach[e] = "done" /\ conn[e] = "closed"
HangInv == WiredFirst /\ HasRing /\ OutOfFanOut /\ OutOfRegistry /\ DrainWaited

\* Only WireClient and WireSubscriber start what detaches.
LEMMA WiredFirstKept ==
  ASSUME ClientsTypeOK, TargetFound, WiredFirst,
         [ClientsNext]_clientVars
  PROVE  WiredFirst'
<1> USE ClientsAssumption DEF ClientsTypeOK, TargetFound, Ends, NotWired,
       attachVars, subVars, outVars, rpcVars, sweepVars, WiredFirst
<1>1. CASE \E c \in Conns : Attach(c)
  BY <1>1 DEF Attach, Moves
<1>2. CASE \E c \in Conns : PublishWriter(c)
  BY <1>2 DEF PublishWriter, Moves
<1>3. CASE \E c \in Conns : WireClient(c)
  BY <1>3 DEF WireClient, Moves
<1>4. CASE \E s \in Subs : CheckEarly(s)
  BY <1>4 DEF CheckEarly, Moves
<1>5. CASE \E s \in Subs : AddSubscriber(s)
  BY <1>5 DEF AddSubscriber, Moves
<1>6. CASE \E s \in Subs : WireSubscriber(s)
  BY <1>6 DEF WireSubscriber, Moves
<1>7. CASE \E s \in Subs : CheckLate(s)
  BY <1>7 DEF CheckLate, Moves, CloseRing
<1>8. CASE UNCHANGED clientVars
  BY <1>8 DEF clientVars
<1> QED
  BY <1>1, <1>2, <1>3, <1>4, <1>5, <1>6, <1>7, <1>8 DEF ClientsNext, HandleStep,
     ReaderStep, ManagerStep, SubscribeStep, DrainStep, DetachStep, RpcStep,
     SweepStep, ReaderLooks, Moves, ReaderFails, CallDetach, ReaderEnds,
     Detached, Input, InputWritten, InputRefused,
     ManagerSeesCtx, ManagerSeesGroup, ManagerEnds, FindClient,
     RpcMoves, GraceEnds, Lag, CloseRing, DrainFails, DrainEnds, DrainLeaves,
     LeaveFanOut, CloseWriter, Unregister, removeClient, PeerCloses,
     SnapshotWriter, RemoveWriter, EndWriter, Forget, CancelCtx, SweepClients,
     EndClients, Swept, Published, ListSubscribers, CloseSubscriber, EndSweep

\* A closed ring is not opened again.
LEMMA HasRingKept ==
  ASSUME ClientsTypeOK, TargetFound, WiredFirst, HasRing,
         [ClientsNext]_clientVars
  PROVE  HasRing'
<1> USE ClientsAssumption DEF ClientsTypeOK, TargetFound, Ends, NotWired,
       attachVars, subVars, outVars, rpcVars, sweepVars, WiredFirst, HasRing
<1>1. CASE \E c \in Conns : PublishWriter(c)
  BY <1>1 DEF PublishWriter, Moves
<1>2. CASE \E c \in Conns : WireClient(c)
  BY <1>2 DEF WireClient, Moves
<1>3. CASE \E s \in Subs : AddSubscriber(s)
  BY <1>3 DEF AddSubscriber, Moves
<1>4. CASE \E s \in Subs : WireSubscriber(s)
  BY <1>4 DEF WireSubscriber, Moves
<1>5. CASE \E e \in Ends : DrainFails(e)
  BY <1>5 DEF DrainFails, Moves, CloseRing, CallDetach
<1>6. CASE \E e \in Ends : DrainEnds(e)
  BY <1>6 DEF DrainEnds, Moves, CallDetach
<1>7. CASE \E e \in Ends : DrainLeaves(e)
  BY <1>7 DEF DrainLeaves, Moves, Detached
<1>8. CASE SweepClients
  BY <1>8 DEF SweepClients, EndClients, Swept, Published
<1>9. CASE UNCHANGED clientVars
  BY <1>9 DEF clientVars
<1> QED
  BY <1>1, <1>2, <1>3, <1>4, <1>5, <1>6, <1>7, <1>8, <1>9 DEF ClientsNext,
     HandleStep, ReaderStep, ManagerStep, SubscribeStep, DrainStep, DetachStep,
     RpcStep, SweepStep, Attach, Moves, ReaderLooks, ReaderFails, CallDetach,
     ReaderEnds, Detached, Input, InputWritten, InputRefused,
     ManagerSeesCtx, ManagerSeesGroup, ManagerEnds,
     FindClient, RpcMoves, GraceEnds, CheckEarly, CheckLate, CloseRing, Lag,
     LeaveFanOut, CloseWriter, Unregister, removeClient, PeerCloses,
     SnapshotWriter, RemoveWriter, EndWriter, Forget, CancelCtx,
     ListSubscribers, CloseSubscriber, EndSweep

\* An end that has left the fan-out is not wired again.
LEMMA OutOfFanOutKept ==
  ASSUME ClientsTypeOK, TargetFound, WiredFirst, OutOfFanOut,
         [ClientsNext]_clientVars
  PROVE  OutOfFanOut'
<1> USE ClientsAssumption DEF ClientsTypeOK, TargetFound, Ends, NotWired,
       attachVars, subVars, outVars, rpcVars, sweepVars, WiredFirst, OutOfFanOut
<1>1. CASE \E c \in Conns : WireClient(c)
  BY <1>1 DEF WireClient, Moves
<1>2. CASE \E s \in Subs : WireSubscriber(s)
  BY <1>2 DEF WireSubscriber, Moves
<1>3. CASE \E e \in Ends : LeaveFanOut(e)
  BY <1>3 DEF LeaveFanOut, Moves
<1>4. CASE \E e \in Ends : CloseWriter(e)
  BY <1>4 DEF CloseWriter, Moves, CloseRing
<1>5. CASE \E e \in Ends : Unregister(e)
  BY <1>5 DEF Unregister, Moves, removeClient
<1>6. CASE SweepClients
  BY <1>6 DEF SweepClients, EndClients, Swept, Published
<1>7. CASE UNCHANGED clientVars
  BY <1>7 DEF clientVars
<1> QED
  BY <1>1, <1>2, <1>3, <1>4, <1>5, <1>6, <1>7 DEF ClientsNext, HandleStep,
     ReaderStep, ManagerStep, SubscribeStep, DrainStep, DetachStep, RpcStep,
     SweepStep, Attach, Moves, PublishWriter, ReaderLooks, ReaderFails,
     CallDetach, ReaderEnds, Detached, Input, InputWritten, InputRefused,
     ManagerSeesCtx, ManagerSeesGroup,
     ManagerEnds, FindClient, RpcMoves, GraceEnds, CheckEarly, AddSubscriber,
     CheckLate, CloseRing, Lag, DrainFails, DrainEnds, DrainLeaves, PeerCloses,
     SnapshotWriter, RemoveWriter, EndWriter, Forget, removeClient, CancelCtx,
     ListSubscribers, CloseSubscriber, EndSweep

\* An end whose detach has run is not registered again.
LEMMA OutOfRegistryKept ==
  ASSUME ClientsTypeOK, TargetFound, WiredFirst, OutOfRegistry,
         [ClientsNext]_clientVars
  PROVE  OutOfRegistry'
<1> USE ClientsAssumption DEF ClientsTypeOK, TargetFound, Ends, NotWired,
       attachVars, subVars, outVars, rpcVars, sweepVars, WiredFirst,
       OutOfRegistry, Registered
<1>1. CASE \E c \in Conns : Attach(c)
  BY <1>1 DEF Attach, Moves
<1>2. CASE \E s \in Subs : AddSubscriber(s)
  BY <1>2 DEF AddSubscriber, Moves
<1>3. CASE \E e \in Ends : Unregister(e)
  BY <1>3 DEF Unregister, Moves, removeClient
<1>4. CASE Forget
  BY <1>4 DEF Forget, RpcMoves, removeClient
<1>5. CASE SweepClients
  BY <1>5 DEF SweepClients, EndClients, Swept, Published
<1>6. CASE UNCHANGED clientVars
  BY <1>6 DEF clientVars
<1> QED
  BY <1>1, <1>2, <1>3, <1>4, <1>5, <1>6 DEF ClientsNext, HandleStep, ReaderStep,
     ManagerStep, SubscribeStep, DrainStep, DetachStep, RpcStep, SweepStep,
     PublishWriter, Moves, WireClient, ReaderLooks, ReaderFails, CallDetach,
     ReaderEnds, Detached, Input, InputWritten, InputRefused,
     ManagerSeesCtx, ManagerSeesGroup, ManagerEnds,
     FindClient, RpcMoves, GraceEnds, CheckEarly, WireSubscriber, CheckLate,
     CloseRing, Lag, DrainFails, DrainEnds, DrainLeaves, LeaveFanOut,
     CloseWriter, PeerCloses, SnapshotWriter, RemoveWriter, EndWriter,
     CancelCtx, ListSubscribers, CloseSubscriber, EndSweep

\* The drain closes its connection when the detach has run, for good.
LEMMA DrainWaitedKept ==
  ASSUME ClientsTypeOK, TargetFound, WiredFirst, DrainWaited,
         [ClientsNext]_clientVars
  PROVE  DrainWaited'
<1> USE ClientsAssumption DEF ClientsTypeOK, TargetFound, Ends, NotWired,
       attachVars, subVars, outVars, rpcVars, sweepVars, WiredFirst, DrainWaited
<1>1. CASE \E c \in Conns : Attach(c)
  BY <1>1 DEF Attach, Moves
<1>2. CASE \E c \in Conns : WireClient(c)
  BY <1>2 DEF WireClient, Moves
<1>3. CASE \E c \in Conns : GraceEnds(c)
  BY <1>3 DEF GraceEnds
<1>4. CASE \E s \in Subs : CheckEarly(s)
  BY <1>4 DEF CheckEarly, Moves
<1>5. CASE \E s \in Subs : WireSubscriber(s)
  BY <1>5 DEF WireSubscriber, Moves
<1>6. CASE \E e \in Ends : DrainLeaves(e)
  BY <1>6 DEF DrainLeaves, Moves, Detached
<1>7. CASE \E e \in Ends : PeerCloses(e)
  BY <1>7 DEF PeerCloses, Moves
<1>8. CASE SweepClients
  BY <1>8 DEF SweepClients, EndClients, Swept, Published
<1>9. CASE UNCHANGED clientVars
  BY <1>9 DEF clientVars
<1> QED
  BY <1>1, <1>2, <1>3, <1>4, <1>5, <1>6, <1>7, <1>8, <1>9 DEF ClientsNext,
     HandleStep, ReaderStep, ManagerStep, SubscribeStep, DrainStep, DetachStep,
     RpcStep, SweepStep, PublishWriter, Moves, ReaderLooks, ReaderFails,
     CallDetach, ReaderEnds, Detached, Input, InputWritten, InputRefused,
     ManagerSeesCtx, ManagerSeesGroup,
     ManagerEnds, FindClient, RpcMoves, AddSubscriber, CheckLate, CloseRing,
     Lag, DrainFails, DrainEnds, LeaveFanOut, CloseWriter, Unregister,
     removeClient, SnapshotWriter, RemoveWriter, EndWriter, Forget, CancelCtx,
     ListSubscribers, CloseSubscriber, EndSweep

-----------------------------------------------------------------------------
\* A drain that is done leaves nothing behind, for any number of clients and
\* subscribers, and whoever of the drain, the reader, the manager, Detach and
\* Close comes first.
THEOREM NothingHangsHolds == ClientsSpec => []NothingHangs
<1>1. ClientsInit => HangInv
  BY ClientsAssumption DEF ClientsInit, HangInv, WiredFirst, HasRing, OutOfFanOut,
     OutOfRegistry, DrainWaited, Ends
<1>2. ClientsTypeOK /\ TargetFound /\ HangInv /\ [ClientsNext]_clientVars
        => HangInv'
  BY WiredFirstKept, HasRingKept, OutOfFanOutKept, OutOfRegistryKept,
     DrainWaitedKept DEF HangInv
<1>3. HangInv => NothingHangs
  BY DEF HangInv, HasRing, OutOfFanOut, OutOfRegistry, DrainWaited, NothingHangs
<1> QED
  BY TypeCorrect, <1>1, <1>2, <1>3, PTL DEF ClientsSpec

-----------------------------------------------------------------------------
\* Every client attaches with an ID of its own.
OwnIDs == \A c, d \in Conns : IdOf[c] = IdOf[d] => c = d

\* Only its own detach, Detach and Close unregister a client whose ID is its own.
LEMMA LostKept ==
  ASSUME ClientsTypeOK, TargetFound, OwnIDs, LostOnlyWhenLeaving,
         [ClientsNext]_clientVars
  PROVE  LostOnlyWhenLeaving'
<1> USE ClientsAssumption DEF ClientsTypeOK, TargetFound, Ends, Registered,
       OwnIDs, LostOnlyWhenLeaving, attachVars, subVars, outVars, rpcVars,
       sweepVars
<1>1. CASE \E c \in Conns : Attach(c)
  BY <1>1 DEF Attach, Moves
<1>2. CASE \E c \in Conns : GraceEnds(c)
  BY <1>2 DEF GraceEnds
<1>3. CASE \E e \in Ends : DrainFails(e)
  BY <1>3 DEF DrainFails, Moves, CloseRing, CallDetach
<1>4. CASE \E e \in Ends : DrainEnds(e)
  BY <1>4 DEF DrainEnds, Moves, CallDetach
<1>5. CASE \E e \in Ends : Unregister(e)
  BY <1>5 DEF Unregister, Moves, removeClient
<1>6. CASE Forget
  BY <1>6 DEF Forget, RpcMoves, removeClient
<1>7. CASE SweepClients
  BY <1>7 DEF SweepClients, EndClients, Swept, Published
<1>8. CASE UNCHANGED clientVars
  BY <1>8 DEF clientVars
<1> QED
  BY <1>1, <1>2, <1>3, <1>4, <1>5, <1>6, <1>7, <1>8 DEF ClientsNext, HandleStep,
     ReaderStep, ManagerStep, SubscribeStep, DrainStep, DetachStep, RpcStep,
     SweepStep, PublishWriter, Moves, WireClient, ReaderLooks, ReaderFails,
     CallDetach, ReaderEnds, Detached, Input, InputWritten, InputRefused,
     ManagerSeesCtx, ManagerSeesGroup,
     ManagerEnds, FindClient, RpcMoves, CheckEarly, AddSubscriber,
     WireSubscriber, CheckLate, CloseRing, Lag, DrainLeaves, LeaveFanOut,
     CloseWriter, PeerCloses, SnapshotWriter, RemoveWriter, EndWriter,
     CancelCtx, ListSubscribers, CloseSubscriber, EndSweep

\* If IDs are not shared, a client that Detach and Close cannot find is on its way
\* out.
THEOREM LostOnlyWhenLeavingHolds ==
  ASSUME OwnIDs
  PROVE  ClientsSpec => []LostOnlyWhenLeaving
<1>1. ClientsInit => LostOnlyWhenLeaving
  BY DEF ClientsInit, LostOnlyWhenLeaving
<1>2. ClientsTypeOK /\ TargetFound /\ LostOnlyWhenLeaving /\ [ClientsNext]_clientVars
        => LostOnlyWhenLeaving'
  BY OwnIDs, LostKept
<1> QED
  BY TypeCorrect, <1>1, <1>2, PTL DEF ClientsSpec
=============================================================================
