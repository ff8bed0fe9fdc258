------------------------- MODULE TerminalServerProofs -------------------------
(***************************************************************************)
(* Proofs about the embedder's facade: what Serve returns, what a handler   *)
(* is given and a peer answered, and how often a call is done.             *)
(***************************************************************************)
EXTENDS TerminalServer, TLAPS, FiniteSetTheorems

Begun == {"listener", "metadata", "rpc", "terminal", "shell", "hook"}
Events == {"ptyRead", "ptyWrite", "exited"}

\* Why a reported exit is not missed: while it is the reason to wait it is among
\* the first due events, which the timer does not overtake.
ServeInv ==
  /\ owed \subseteq Events /\ events \in Seq(Events) /\ due \in Nat
  /\ serve = "grace" /\ heard =>
       \E i \in 1 .. due : i \in 1 .. Len(events) /\ events[i] = "exited"

\* The stages of bringUp, one by one.
LEMMA StagesAre ==
  /\ Range(SubSeq(Stages, 1, 6)) = Begun
  /\ After("listener") = "metadata" /\ After("metadata") = "rpc"
  /\ After("rpc") = "terminal" /\ After("terminal") = "shell"
  /\ After("shell") = "hook" /\ After("hook") = "loop"
<1>1. /\ Len(Stages) = 7
      /\ Stages[1] = "listener" /\ Stages[2] = "metadata" /\ Stages[3] = "rpc"
      /\ Stages[4] = "terminal" /\ Stages[5] = "shell" /\ Stages[6] = "hook"
      /\ Stages[7] = "loop"
  BY DEF Stages
<1>2. Range(SubSeq(Stages, 1, 6)) = Begun
  <2>1. /\ DOMAIN SubSeq(Stages, 1, 6) = 1 .. 6
        /\ \A i \in 1 .. 6 : SubSeq(Stages, 1, 6)[i] = Stages[i]
    BY DEF Stages
  <2> QED
    BY <1>1, <2>1 DEF Range, Begun
<1>3. ASSUME NEW k \in 1 .. 6
      PROVE  After(Stages[k]) = Stages[k + 1]
  <2>1. \A i \in 1 .. 6 : Stages[i] = Stages[k] => i = k
    BY <1>1
  <2>2. (CHOOSE i \in 1 .. 6 : Stages[i] = Stages[k]) = k
    BY <2>1
  <2> QED
    BY <2>2 DEF After
<1> QED
  BY <1>1, <1>2, <1>3

\* What is in a queue after a take and after a report.
LEMMA QueueFacts ==
  ASSUME NEW q \in Seq(Events)
  PROVE  /\ \A e \in Events : Append(q, e) \in Seq(Events)
                              /\ Range(Append(q, e)) = Range(q) \cup {e}
         /\ q # << >> => /\ Head(q) \in Events /\ Tail(q) \in Seq(Events)
                         /\ Range(q) = Range(Tail(q)) \cup {Head(q)}
<1>1. ASSUME NEW e \in Events
      PROVE  Append(q, e) \in Seq(Events) /\ Range(Append(q, e)) = Range(q) \cup {e}
  <2>1. /\ Append(q, e) \in Seq(Events) /\ Len(q) \in Nat
        /\ DOMAIN q = 1 .. Len(q) /\ DOMAIN Append(q, e) = 1 .. Len(q) + 1
        /\ Append(q, e)[Len(q) + 1] = e
        /\ \A i \in 1 .. Len(q) : Append(q, e)[i] = q[i]
    OBVIOUS
  <2>2. \A i \in 1 .. Len(q) + 1 : i \in 1 .. Len(q) \/ i = Len(q) + 1
    BY <2>1
  <2>3. \A i \in 1 .. Len(q) : i \in 1 .. Len(q) + 1
    BY <2>1
  <2>4. Len(q) + 1 \in 1 .. Len(q) + 1
    BY <2>1
  <2> QED
    BY <2>1, <2>2, <2>3, <2>4 DEF Range
<1>2. ASSUME q # << >>
      PROVE  /\ Head(q) \in Events /\ Tail(q) \in Seq(Events)
             /\ Range(q) = Range(Tail(q)) \cup {Head(q)}
  <2>1. Head(q) \in Events /\ Tail(q) \in Seq(Events) /\ Len(q) \in Nat \ {0}
    BY <1>2
  <2>2. /\ DOMAIN q = 1 .. Len(q) /\ DOMAIN Tail(q) = 1 .. Len(q) - 1
        /\ Head(q) = q[1] /\ \A i \in 1 .. Len(q) - 1 : Tail(q)[i] = q[i + 1]
    BY <1>2
  <2>3. \A i \in DOMAIN q : i = 1 \/ (i - 1 \in DOMAIN Tail(q) /\ q[i] = Tail(q)[i - 1])
    BY <2>1, <2>2
  <2>4. 1 \in DOMAIN q /\ \A i \in DOMAIN Tail(q) : i + 1 \in DOMAIN q
    BY <2>1, <2>2
  <2> QED
    BY <2>1, <2>2, <2>3, <2>4 DEF Range
<1> QED
  BY <1>1, <1>2

\* What handlers, callers and peers do leaves Serve's side alone, but for Stop
\* requests and the terminal's status.
LEMMA CallsLeaveServe ==
  ASSUME \/ \E c \in Conns : Accept(c) \/ ReadRequest(c)
         \/ \E h \in calls : Handle(h)
         \/ \E c \in Callers : Begin(c) \/ CallStep(c) \/ Breaks(c) \/ CallerGivesUp(c)
         \/ \E p \in Peers : PeerSends(p)
  PROVE  UNCHANGED <<serve, cause, owed, events, due, heard>>
<1> USE DEF serveVars
<1>1. ASSUME NEW c \in Conns, Accept(c) \/ ReadRequest(c)
      PROVE  UNCHANGED <<serve, cause, owed, events, due, heard>>
  BY <1>1 DEF Accept, ReadRequest
<1>2. ASSUME NEW h \in calls, Handle(h)
      PROVE  UNCHANGED <<serve, cause, owed, events, due, heard>>
  BY <1>2 DEF Handle, Ping, Query, Write, StopCall, AttachBegins, Subscribe,
     AwaitReady, WriteStage
<1>3. ASSUME NEW c \in Callers, Begin(c) \/ CallStep(c) \/ Breaks(c) \/ CallerGivesUp(c)
      PROVE  UNCHANGED <<serve, cause, owed, events, due, heard>>
  BY <1>3 DEF Begin, CallStep, Dial, Reset, Reply, Breaks, CallerGivesUp
<1>4. ASSUME NEW p \in Peers, PeerSends(p)
      PROVE  UNCHANGED <<serve, cause, owed, events, due, heard>>
  BY <1>4 DEF PeerSends
<1> QED
  BY <1>1, <1>2, <1>3, <1>4

\* Serve returns the read error only with no exit reported when it was taken.
ExitFirst == cause = "none" /\ cause' = "ptyRead" =>
                IF serve = "grace" THEN ~heard ELSE "exited" \notin Range(events)

\* A queue seen from its end: what is appended moves nothing.
LEMMA ReportMoves ==
  ASSUME NEW q \in Seq(Events), NEW e \in Events
  PROVE  /\ Append(q, e) \in Seq(Events)
         /\ \A i \in 1 .. Len(q) : i \in 1 .. Len(Append(q, e)) /\ Append(q, e)[i] = q[i]
OBVIOUS

\* Every step keeps ServeInv, and finds the exit before the read error.
LEMMA ServeKept ==
  ASSUME ServeInv, [ServerNext]_serverVars
  PROVE  ServeInv' /\ ExitFirst
<1> USE DEF ServeInv, ExitFirst
<1>1. CASE UNCHANGED <<serve, cause, owed, events, due, heard>>
  BY <1>1
<1>2. CASE ServeBegins
  BY <1>2 DEF ServeBegins
<1>3. CASE BringUp
  <2>1. serve' # "grace"
    BY <1>3, StagesAre DEF BringUp, Begun
  <2> QED
    BY <1>3, <2>1 DEF BringUp
<1>4. CASE StageFails
  BY <1>4 DEF StageFails
<1>5. CASE SeesCtxDone
  BY <1>5 DEF SeesCtxDone, Ends
<1>6. CASE SeesRpcDone
  BY <1>6 DEF SeesRpcDone, Ends
<1>7. CASE SeesStop
  BY <1>7 DEF SeesStop, Ends
<1>8. CASE SeesEvent
  <2>1. events' \in Seq(Events) /\ Len(events') \in Nat
    BY <1>8, QueueFacts DEF SeesEvent
  <2>2. CASE Head(events) = "ptyRead"
    <3>1. /\ due' = Len(events') /\ owed' = owed /\ cause' = cause
          /\ heard' = ("exited" \in Range(events'))
      BY <1>8, <2>2 DEF SeesEvent
    <3>2. heard' => \E i \in 1 .. Len(events') : events'[i] = "exited"
      <4>1. ASSUME heard'  PROVE \E i \in DOMAIN events' : events'[i] = "exited"
        <5>1. "exited" \in Range(events')
          BY <3>1, <4>1
        <5> QED
          BY <5>1 DEF Range
      <4> QED
        BY <2>1, <4>1
    <3> QED
      BY <2>1, <3>1, <3>2
  <2>3. CASE Head(events) # "ptyRead"
    BY <1>8, <2>1, <2>3 DEF SeesEvent, Ends
  <2> QED
    BY <2>2, <2>3
<1>9. CASE GraceEvent
  <2>1. /\ events # << >> /\ events' = Tail(events) /\ events' \in Seq(Events)
        /\ serve = "grace"
    BY <1>9, QueueFacts DEF GraceEvent
  <2>2. CASE Head(events) = "exited"
    BY <1>9, <2>1, <2>2 DEF GraceEvent, Ends
  <2>3. CASE Head(events) # "exited"
    <3>1. /\ due' = (IF due > 0 THEN due - 1 ELSE 0) /\ heard' = heard
          /\ owed' = owed /\ cause' = cause
      BY <1>9, <2>3 DEF GraceEvent
    <3>2. ASSUME heard
          PROVE  \E i \in 1 .. due' : i \in 1 .. Len(events') /\ events'[i] = "exited"
      <4>1. PICK i \in 1 .. due : i \in 1 .. Len(events) /\ events[i] = "exited"
        BY <2>1, <3>2
      <4>2. i # 1 /\ i \in Nat
        BY <2>1, <2>3, <4>1
      <4>3. i - 1 \in 1 .. due'
        BY <3>1, <4>1, <4>2
      <4>4. i - 1 \in 1 .. Len(events') /\ events'[i - 1] = "exited"
        BY <2>1, <4>1, <4>2
      <4> QED
        BY <4>3, <4>4
    <3>3. due' \in Nat
      BY <3>1
    <3> QED
      BY <2>1, <3>1, <3>2, <3>3
  <2> QED
    BY <2>2, <2>3
<1>10. CASE GraceExpires
  <2>1. /\ serve = "grace" /\ due = 0 /\ serve' = "close"
        /\ UNCHANGED <<owed, events, due, heard>>
    BY <1>10 DEF GraceExpires, Ends
  <2>2. ~heard
    BY <2>1
  <2> QED
    BY <2>1, <2>2
<1>11. CASE RunnerCloses
  BY <1>11 DEF RunnerCloses
<1>12. CASE CloseEnds
  BY <1>12 DEF CloseEnds
<1>13. CASE ChildExits
  BY <1>13 DEF ChildExits, Events
<1>14. CASE Report
  <2>1. PICK e \in owed : owed' = owed \ {e} /\ events' = Append(events, e)
    BY <1>14 DEF Report
  <2>2. UNCHANGED <<serve, cause, due, heard>>
    BY <1>14 DEF Report
  <2> QED
    BY <2>1, <2>2, ReportMoves
<1>15. CASE PtyFails
  <2>1. PICK e \in {"ptyRead", "ptyWrite"} : events' = Append(events, e)
    BY <1>15 DEF PtyFails
  <2>2. e \in Events /\ UNCHANGED <<serve, cause, owed, due, heard>>
    BY <1>15, <2>1 DEF PtyFails, Events
  <2> QED
    BY <2>1, <2>2, ReportMoves
<1>16. StopRuns \/ CancelParent \/ AcceptEnds \/ UNCHANGED serverVars
         => UNCHANGED <<serve, cause, owed, events, due, heard>>
  BY DEF StopRuns, CancelParent, AcceptEnds, serverVars, serveVars
<1> QED
  BY <1>1, <1>2, <1>3, <1>4, <1>5, <1>6, <1>7, <1>8, <1>9, <1>10, <1>11,
     <1>12, <1>13, <1>14, <1>15, <1>16, CallsLeaveServe
     DEF ServerNext, ServeStep

\* Serve does not return the PTY's read error for an exit of the child that was
\* reported when it took the error, whatever is queued before it (#438).
THEOREM ExitIsTheCause == ServerSpec => CauseIsExit
<1>1. ServerInit => ServeInv
  BY DEF ServerInit, ServeInv, Events
<1>2. ServeInv /\ [ServerNext]_serverVars => ServeInv' /\ [ExitFirst]_serverVars
  BY ServeKept
<1> QED
  BY <1>1, <1>2, PTL DEF ServerSpec, CauseIsExit, ExitFirst

-----------------------------------------------------------------------------
Verbs    == {"ping", "query", "stop", "write", "attach", "subscribe", "unknown"}
Fds      == {<< >>} \cup (Conns \X Nat)
Requests == [id : Nat, verb : Verbs, params : BOOLEAN]
Replies  == [id : Nat, err : BOOLEAN, fd : Fds]
Codecs   == [open : {"no", "queued", "open", "closed"}, try : Nat,
             wire : Seq(Requests), next : Nat, ids : Seq(Nat), params : Seq(Nat),
             replies : Seq(Replies)]

\* A request's wire id is its place in the batch.  What has been read has left
\* nothing in the stash, and is answered at most once.
CodecOK(k) ==
  /\ k \in Codecs
  /\ Len(k.ids) = k.next /\ \A s \in 1 .. k.next : k.ids[s] = s
  /\ Len(k.params) = k.next /\ \A s \in 1 .. k.next : k.params[s] = 0
  /\ \A i \in 1 .. Len(k.wire) : k.wire[i].id = k.next + i
  /\ \A i \in 1 .. Len(k.replies) : k.replies[i].id \in 1 .. k.next
  /\ \A i, j \in 1 .. Len(k.replies) : k.replies[i].id = k.replies[j].id => i = j

\* A handler that runs has its own parameters, and nobody has answered for it.
Calls == [conn : Conns, try : Nat, seq : Nat, id : Nat, verb : Verbs, arg : Nat,
          params : BOOLEAN, fd : Fds, at : {"begin", "await", "send", "stage"}]
Pending(h, k) == h.try = k.try =>
                   /\ h.seq \in 1 .. k.next
                   /\ \A i \in 1 .. Len(k.replies) : k.replies[i].id # h.seq
CallOK(h, k) == /\ h \in Calls /\ h.arg = IF h.params THEN h.id ELSE 0
                /\ k.open # "no" /\ Pending(h, k)

\* A connection and the handlers that run for it: no two for one request.
ConnOK(k, of) ==
  /\ CodecOK(k) /\ \A h \in of : CallOK(h, k)
  /\ \A h, g \in of : h.try = g.try /\ h.seq = g.seq => h = g

\* A codec after the parameters of a request are taken.
LEMMA CodecTakes ==
  ASSUME NEW k \in Codecs, NEW p \in Seq(Nat), NEW h, h = [k EXCEPT !.params = p]
  PROVE  /\ h \in Codecs /\ h.wire = k.wire /\ h.next = k.next
         /\ h.ids = k.ids /\ h.params = p /\ h.open = k.open
         /\ h.try = k.try /\ h.replies = k.replies
BY DEF Codecs

\* The last element of a sequence, and the others.
LEMMA AppendFacts ==
  ASSUME NEW T, NEW q \in Seq(T), NEW e \in T, NEW a, a = Append(q, e)
  PROVE  /\ a \in Seq(T) /\ Len(q) \in Nat /\ Len(a) = Len(q) + 1
         /\ a[Len(q) + 1] = e /\ \A i \in 1 .. Len(q) : a[i] = q[i]
         /\ \A i \in 1 .. Len(q) + 1 : i = Len(q) + 1 \/ i \in 1 .. Len(q)
OBVIOUS

\* What ReadRequest makes of the next request.
LEMMA ReadKeeps ==
  ASSUME NEW k, CodecOK(k), k.wire # << >>, NEW known \in BOOLEAN
  PROVE  LET req  == Head(k.wire)
             head == ReadRequestHeader(k, req.id, req.params)
             body == ReadRequestBody(head, known)
         IN  /\ req \in Requests /\ req = k.wire[1] /\ req.id = k.next + 1
             /\ head.next = k.next + 1 /\ head.try = k.try
             /\ CodecOK(body.codec) /\ body.codec.next = k.next + 1
             /\ body.codec.open = k.open /\ body.codec.try = k.try
             /\ body.codec.replies = k.replies /\ body.codec.wire = Tail(k.wire)
             /\ known => body.arg = IF req.params THEN req.id ELSE 0
<1> DEFINE req  == Head(k.wire)
           n    == k.next + 1
           x    == IF req.params THEN req.id ELSE 0
           head == ReadRequestHeader(k, req.id, req.params)
           body == ReadRequestBody(head, known)
           left == body.codec
<1>1. /\ k \in Codecs /\ k.wire \in Seq(Requests) /\ k.next \in Nat
      /\ k.ids \in Seq(Nat) /\ k.params \in Seq(Nat)
      /\ Len(k.wire) \in Nat \ {0} /\ n \in Nat \ {0} /\ n = k.next + 1
  BY DEF CodecOK, Codecs
<1>2. /\ req \in Requests /\ req = k.wire[1] /\ req.id = n
      /\ x \in Nat /\ (x = IF req.params THEN n ELSE 0) /\ req.params \in BOOLEAN
  <2>1. req \in Requests /\ req = k.wire[1] /\ req.id = n
    BY <1>1 DEF CodecOK
  <2> QED
    BY <1>1, <2>1 DEF Requests
<1>3. /\ head \in Codecs /\ head.next = n /\ head.wire = Tail(k.wire)
      /\ head.open = k.open /\ head.try = k.try /\ head.replies = k.replies
      /\ head.ids = Append(k.ids, n) /\ head.params = Append(k.params, x)
  <2> DEFINE w == Tail(k.wire)
             s == Append(k.ids, n)
             p == Append(k.params, x)
  <2>1. w \in Seq(Requests) /\ s \in Seq(Nat) /\ p \in Seq(Nat)
    BY <1>1, <1>2
  <2>2. head = [k EXCEPT !.wire = w, !.next = n, !.ids = s, !.params = p]
    BY <1>2 DEF ReadRequestHeader
  <2>3. n \in Nat
    BY <1>1
  <2> HIDE DEF head, x, n, w, s, p
  <2>4. /\ head \in Codecs /\ head.next = n /\ head.wire = w /\ head.ids = s
        /\ head.params = p /\ head.open = k.open /\ head.try = k.try
        /\ head.replies = k.replies
    BY <1>1, <2>1, <2>2, <2>3 DEF Codecs
  <2> QED
    BY <2>4 DEF w, s, p
<1>4. body = IF Stashed(head) = {} THEN [codec |-> head, arg |-> 0]
             ELSE LET s == OldestStashed(head)
                  IN [codec |-> [head EXCEPT !.params[s] = 0],
                      arg |-> IF known THEN head.params[s] ELSE 0]
  BY DEF ReadRequestBody
<1> HIDE DEF req, n, x, head, body
<1>5. /\ Len(k.ids) = k.next /\ \A s \in 1 .. k.next : k.ids[s] = s
      /\ Len(k.params) = k.next /\ \A s \in 1 .. k.next : k.params[s] = 0
      /\ \A s \in 1 .. n : s = n \/ s \in 1 .. k.next
      /\ n \in 1 .. n
  BY <1>1 DEF CodecOK
<1>6. /\ Len(head.ids) = n /\ \A s \in 1 .. n : head.ids[s] = s
      /\ Len(head.params) = n /\ head.params[n] = x
      /\ \A s \in 1 .. k.next : head.params[s] = 0
      /\ DOMAIN head.params = 1 .. n /\ head.params \in Seq(Nat)
  <2>1. /\ Len(head.ids) = n /\ head.ids[n] = n
        /\ \A s \in 1 .. k.next : head.ids[s] = s
    BY <1>1, <1>3, <1>5
  <2>2. /\ Len(head.params) = n /\ head.params[n] = x
        /\ \A s \in 1 .. k.next : head.params[s] = 0
        /\ DOMAIN head.params = 1 .. n /\ head.params \in Seq(Nat)
    BY <1>1, <1>2, <1>3, <1>5
  <2> QED
    BY <1>5, <2>1, <2>2
<1>7. Stashed(head) = IF req.params THEN {n} ELSE {}
  <2>1. Stashed(head) = {s \in 1 .. n : head.params[s] # 0}
    BY <1>6 DEF Stashed
  <2>2. x # 0 <=> req.params
    BY <1>1, <1>2
  <2> QED
    BY <1>5, <1>6, <2>1, <2>2
<1>8. /\ left \in Codecs /\ left.next = n /\ left.wire = Tail(k.wire)
      /\ left.open = k.open /\ left.try = k.try /\ left.replies = k.replies
      /\ left.ids = head.ids /\ Len(left.params) = n
      /\ \A s \in 1 .. n : left.params[s] = 0
      /\ known => body.arg = x
  <2>1. CASE req.params
    <3>1. Stashed(head) = {n} /\ n <= n
      BY <1>1, <1>7, <2>1
    <3>2. Stashed(head) # {} /\ OldestStashed(head) = n
      BY <3>1 DEF OldestStashed
    <3> DEFINE p == [head.params EXCEPT ![n] = 0]
    <3>3. p \in Seq(Nat) /\ Len(p) = n /\ \A s \in 1 .. n : p[s] = 0
      BY <1>5, <1>6
    <3>4. body = [codec |-> [head EXCEPT !.params = p],
                  arg |-> IF known THEN head.params[n] ELSE 0]
      BY <1>4, <3>2
    <3>5. left = [head EXCEPT !.params = p] /\ (known => body.arg = head.params[n])
      BY <3>4
    <3> HIDE DEF p, left
    <3>6. /\ left \in Codecs /\ left.wire = head.wire /\ left.next = head.next
          /\ left.ids = head.ids /\ left.open = head.open /\ left.try = head.try
          /\ left.replies = head.replies /\ left.params = p
      BY <1>3, <3>3, <3>5, CodecTakes
    <3> QED
      BY <1>3, <1>6, <3>3, <3>5, <3>6
  <2>2. CASE ~req.params
    <3>1. body = [codec |-> head, arg |-> 0]
      BY <1>4, <1>7, <2>2
    <3>2. \A s \in 1 .. n : head.params[s] = 0
      BY <1>2, <1>5, <1>6, <2>2
    <3>3. left = head /\ body.arg = x
      BY <1>2, <2>2, <3>1
    <3> HIDE DEF left
    <3> QED
      BY <1>3, <1>6, <3>2, <3>3
  <2> QED
    BY <1>2, <2>1, <2>2
<1> HIDE DEF left
<1>9. CodecOK(left)
  <2>1. \A i \in 1 .. Len(Tail(k.wire)) : Tail(k.wire)[i].id = n + i
    <3>1. ASSUME NEW i \in 1 .. Len(Tail(k.wire))
          PROVE  Tail(k.wire)[i].id = n + i
      <4>1. i + 1 \in 1 .. Len(k.wire) /\ Tail(k.wire)[i] = k.wire[i + 1]
        BY <1>1
      <4> QED
        BY <1>1, <4>1 DEF CodecOK
    <3> QED
      BY <3>1
  <2>2. \A i \in 1 .. Len(k.replies) : k.replies[i].id \in 1 .. n
    BY <1>1 DEF CodecOK
  <2>3. \A i, j \in 1 .. Len(k.replies) : k.replies[i].id = k.replies[j].id => i = j
    BY DEF CodecOK
  <2> QED
    BY <1>6, <1>8, <2>1, <2>2, <2>3 DEF CodecOK
<1>10. known => body.arg = IF req.params THEN req.id ELSE 0
  BY <1>2, <1>8
<1> USE DEF req, head, body, left
<1>11. /\ req \in Requests /\ req = k.wire[1] /\ req.id = k.next + 1
       /\ head.next = k.next + 1 /\ head.try = k.try /\ CodecOK(left)
       /\ left.next = k.next + 1 /\ left.open = k.open /\ left.try = k.try
       /\ left.replies = k.replies /\ left.wire = Tail(k.wire)
  BY <1>1, <1>2, <1>3, <1>8, <1>9
<1> QED
  BY <1>10, <1>11

\* A response is the only one to its request.
LEMMA ResponseKeeps ==
  ASSUME NEW k, CodecOK(k), NEW r \in Replies, r.id \in 1 .. k.next,
         \A i \in 1 .. Len(k.replies) : k.replies[i].id # r.id,
         NEW w, w = [k EXCEPT !.replies = Append(k.replies, r)]
  PROVE  /\ CodecOK(w) /\ w.next = k.next /\ w.open = k.open
         /\ w.try = k.try /\ w.wire = k.wire /\ w.replies = Append(k.replies, r)
         /\ \A s \in Nat : (s # r.id /\ \A i \in 1 .. Len(k.replies) : k.replies[i].id # s)
                           => \A i \in 1 .. Len(w.replies) : w.replies[i].id # s
<1> DEFINE m == Len(k.replies)
           a == Append(k.replies, r)
           q == k.replies
<1>1. /\ k \in Codecs /\ k.next \in Nat /\ q \in Seq(Replies) /\ m \in Nat
      /\ m = Len(q)
  BY DEF CodecOK, Codecs
<1>2. a \in Seq(Replies)
  BY <1>1
<1>3. /\ Len(a) = m + 1 /\ a[m + 1] = r
      /\ \A i \in 1 .. m : a[i] = q[i]
      /\ \A i \in 1 .. m + 1 : i = m + 1 \/ i \in 1 .. m
  <2>1. a = Append(q, r)
    OBVIOUS
  <2> HIDE DEF a, m, q
  <2> QED
    BY <1>1, <2>1, AppendFacts
<1>4. /\ \A i \in 1 .. m : q[i].id \in 1 .. k.next
      /\ \A i, j \in 1 .. m : q[i].id = q[j].id => i = j
      /\ \A i \in 1 .. m : q[i].id # r.id
  BY DEF CodecOK
<1>5. w = [k EXCEPT !.replies = a]
  OBVIOUS
<1> HIDE DEF a, m, q
<1>6. /\ w \in Codecs /\ w.next = k.next /\ w.open = k.open /\ w.try = k.try
      /\ w.wire = k.wire /\ w.ids = k.ids /\ w.params = k.params
      /\ w.replies = a
  BY <1>1, <1>2, <1>5 DEF Codecs
<1>7. /\ \A i \in 1 .. m + 1 : a[i].id \in 1 .. k.next
      /\ \A i, j \in 1 .. m + 1 : a[i].id = a[j].id => i = j
  BY <1>3, <1>4
<1>8. CodecOK(w)
  BY <1>3, <1>6, <1>7 DEF CodecOK
<1>9. \A s \in Nat : (s # r.id /\ \A i \in 1 .. m : q[i].id # s)
                     => \A i \in 1 .. Len(w.replies) : w.replies[i].id # s
  BY <1>3, <1>6
<1> QED
  BY <1>6, <1>8, <1>9 DEF m, a, q

\* A connection is accepted, or hung up, whatever is on it.
LEMMA ConnOpens ==
  ASSUME NEW k, NEW of, ConnOK(k, of), NEW o \in {"queued", "open", "closed"},
         NEW w, w = [k EXCEPT !.open = o]
  PROVE  /\ w \in Codecs /\ ConnOK(w, of) /\ w.open = o /\ w.try = k.try
         /\ w.next = k.next /\ w.wire = k.wire /\ w.replies = k.replies
<1>1. k \in Codecs
  BY DEF ConnOK, CodecOK
<1>2. /\ w \in Codecs /\ w.open = o /\ w.try = k.try /\ w.wire = k.wire
      /\ w.next = k.next /\ w.ids = k.ids /\ w.params = k.params
      /\ w.replies = k.replies
  BY <1>1 DEF Codecs
<1>3. CodecOK(w)
  BY <1>2 DEF ConnOK, CodecOK
<1>4. \A h \in of : CallOK(h, w)
  BY <1>2 DEF ConnOK, CallOK, Pending
<1> QED
  BY <1>2, <1>3, <1>4 DEF ConnOK

\* A new connection has nothing to answer for: the handlers that still run are
\* of earlier ones.
LEMMA ConnStarts ==
  ASSUME NEW k, NEW of, ConnOK(k, of), NEW t \in Nat, \A h \in of : h.try # t,
         NEW q \in Seq(Requests), \A i \in 1 .. Len(q) : q[i].id = i, NEW w,
         w = [open |-> "queued", try |-> t, wire |-> q, next |-> 0,
              ids |-> << >>, params |-> << >>, replies |-> << >>]
  PROVE  /\ w \in Codecs /\ ConnOK(w, of) /\ w.open = "queued" /\ w.try = t
         /\ w.next = 0 /\ w.wire = q /\ w.replies = << >>
<1> DEFINE e == << >>
<1>1. w = [open |-> "queued", try |-> t, wire |-> q, next |-> 0, ids |-> e,
           params |-> e, replies |-> e]
  OBVIOUS
<1>2. e \in Seq(Nat) /\ e \in Seq(Replies) /\ Len(e) = 0
  OBVIOUS
<1> HIDE DEF e
<1>3. /\ w.open = "queued" /\ w.try = t /\ w.wire = q
      /\ w.next = 0 /\ w.ids = e /\ w.params = e /\ w.replies = e
  BY <1>1
<1>9. w \in Codecs
  BY <1>1, <1>2 DEF Codecs
<1>4. CodecOK(w)
  BY <1>2, <1>3, <1>9 DEF CodecOK
<1>5. \A h \in of : CallOK(h, w)
  BY <1>3 DEF ConnOK, CallOK, Pending
<1> QED
  BY <1>3, <1>4, <1>5, <1>9 DEF ConnOK, e

\* A handler answers, and is gone.
LEMMA ConnAnswers ==
  ASSUME NEW k, NEW of, ConnOK(k, of), NEW h \in of, h.try = k.try,
         NEW r \in Replies, r.id = h.seq,
         NEW w, w = [k EXCEPT !.replies = Append(k.replies, r)]
  PROVE  ConnOK(w, of \ {h})
<1>1. /\ CodecOK(k) /\ k \in Codecs /\ CallOK(h, k)
  BY DEF ConnOK, CodecOK
<1>2. h.seq \in 1 .. k.next /\ \A i \in 1 .. Len(k.replies) : k.replies[i].id # h.seq
  BY <1>1 DEF CallOK, Pending
<1>3. /\ CodecOK(w) /\ w.next = k.next /\ w.open = k.open
      /\ w.try = k.try /\ w.wire = k.wire
      /\ w.replies = Append(k.replies, r)
      /\ \A s \in Nat :
           (s # r.id /\ \A i \in 1 .. Len(k.replies) : k.replies[i].id # s)
             => \A i \in 1 .. Len(w.replies) : w.replies[i].id # s
  BY <1>1, <1>2, ResponseKeeps
<1>4. ASSUME NEW g \in of \ {h}  PROVE CallOK(g, w)
  <2>1. CallOK(g, k) /\ g.seq \in Nat /\ (g.try = k.try => g.seq # h.seq)
    BY DEF ConnOK, CallOK, Calls
  <2> QED
    BY <1>3, <2>1 DEF CallOK, Pending
<1> QED
  BY <1>3, <1>4 DEF ConnOK, CodecOK

\* A handler goes on to its next step.
LEMMA ConnMoves ==
  ASSUME NEW k, NEW of, ConnOK(k, of), NEW h \in of,
         NEW a \in {"await", "send", "stage"}, NEW f \in Fds, NEW g,
         g = [h EXCEPT !.at = a, !.fd = f]
  PROVE  ConnOK(k, (of \ {h}) \cup {g})
<1>1. h \in Calls /\ CallOK(h, k)
  BY DEF ConnOK, CallOK
<1>2. /\ g \in Calls /\ g.conn = h.conn /\ g.try = h.try /\ g.verb = h.verb
      /\ g.at = a /\ g.fd = f /\ g.seq = h.seq /\ g.arg = h.arg /\ g.id = h.id
      /\ g.params = h.params
  BY <1>1 DEF Calls
<1>3. CallOK(g, k)
  BY <1>1, <1>2 DEF CallOK, Pending
<1>4. \A x, y \in (of \ {h}) \cup {g} : x.try = y.try /\ x.seq = y.seq => x = y
  <2>1. ASSUME NEW x \in of \ {h}  PROVE ~(x.try = g.try /\ x.seq = g.seq)
    BY <1>2, <2>1 DEF ConnOK
  <2> QED
    BY <2>1 DEF ConnOK
<1>5. \A x \in (of \ {h}) \cup {g} : CallOK(x, k)
  BY <1>3 DEF ConnOK
<1> QED
  BY <1>4, <1>5 DEF ConnOK

-----------------------------------------------------------------------------
Of(c) == {h \in calls : h.conn = c}

CallRecs == [pc : {"idle", "dial", "wait", "returned"}, verb : Verbs \ {"unknown"},
             attempt : 1 .. Attempts, result : {"none", "nil", "err", "ctx"},
             got : SUBSET Fds, io : Nat, lost : SUBSET Nat]

\* The handlers of the attempts whose connection was not lost under the call.
Kept(r, of) == {h \in of : h.try \notin r.lost}

\* Only the attempt under way has a request on the wire, a handler or a reply,
\* and of those it has one: what is done, is done by the attempt that will
\* report it, or by nobody.  The handlers of lost attempts may run on.
CallerOK(c, k, r, d, of) ==
  /\ \A t \in r.lost : t <= r.attempt /\ (r.pc # "returned" => t # r.attempt)
  /\ d \ r.lost \subseteq {r.attempt}
  /\ r.pc \in {"idle", "dial"} => Kept(r, of) = {} /\ d \subseteq r.lost
                                 /\ r.result # "nil"
  /\ r.pc = "wait" => k.open \in {"queued", "open"} /\ r.result # "nil"
  /\ k.open \in {"queued", "open"} =>
       /\ r.pc = "wait" /\ k.try = r.attempt
       /\ \/ k.next = 0 /\ Len(k.wire) = 1 /\ k.wire[1].verb = r.verb
          \/ k.next = 1 /\ Len(k.wire) = 0
       /\ k.next = 0 => Kept(r, of) = {} /\ d \subseteq r.lost /\ k.replies = << >>
       /\ k.open = "queued" => k.next = 0
  /\ \A h \in of : /\ h.at # "begin" => h.fd = <<c, h.try>>
                   /\ h.verb \in PassesFd \/ h.at = "begin"
  /\ \A h \in Kept(r, of) :
       /\ h.try = r.attempt /\ k.try = r.attempt /\ h.verb = r.verb
       /\ d \subseteq r.lost /\ k.replies = << >> /\ r.result # "nil"
       /\ \A g \in Kept(r, of) : g = h
  /\ r.pc = "wait" /\ k.replies # << >> =>
       IF k.replies[1].err THEN d \subseteq r.lost
       ELSE /\ r.attempt \in d
            /\ r.verb \in PassesFd => k.replies[1].fd = <<c, r.attempt>>
  /\ r.result = "nil" => /\ r.attempt \in d \ r.lost
                         /\ r.verb \in PassesFd => r.got = {<<c, r.attempt>>}

\* The part of the state that belongs to connection c.
Part(c) == /\ ConnOK(conn[c], Of(c))
           /\ c \in Callers => CallerOK(c, conn[c], call[c], done[c], Of(c))
RpcTypes == /\ conn \in [Conns -> Codecs] /\ calls \subseteq Calls
            /\ call \in [Callers -> CallRecs] /\ done \in [Callers -> SUBSET Nat]
RpcInv == RpcTypes /\ \A c \in Conns : Part(c)

\* An action of one connection leaves the others' part alone.
LEMMA OnePart ==
  ASSUME RpcInv, RpcTypes', NEW c \in Conns, Part(c)',
         \A b \in Conns \ {c} : conn'[b] = conn[b] /\ Of(b)' = Of(b),
         \A b \in Callers \ {c} : call'[b] = call[b] /\ done'[b] = done[b]
  PROVE  RpcInv'
<1>1. ASSUME NEW b \in Conns \ {c}  PROVE Part(b)'
  <2>1. Part(b) /\ conn'[b] = conn[b] /\ Of(b)' = Of(b)
    BY DEF RpcInv
  <2>2. b \in Callers => call'[b] = call[b] /\ done'[b] = done[b]
    OBVIOUS
  <2> HIDE DEF Of
  <2> QED
    BY <2>1, <2>2 DEF Part
<1> QED
  BY <1>1 DEF RpcInv

\* What the invariant says of one connection.
LEMMA PartIs ==
  ASSUME RpcInv, NEW c \in Conns
  PROVE  /\ ConnOK(conn[c], Of(c)) /\ conn[c] \in Codecs
         /\ c \in Callers =>
              /\ CallerOK(c, conn[c], call[c], done[c], Of(c))
              /\ call[c] \in CallRecs /\ done[c] \in SUBSET Nat
BY DEF RpcInv, RpcTypes, Part

\* A call begins.
LEMMA CallBegins ==
  ASSUME NEW c, NEW k, NEW d, NEW of, NEW r \in CallRecs, CallerOK(c, k, r, d, of),
         r.pc = "idle", NEW v \in Verbs \ {"unknown"}, NEW s,
         s = [r EXCEPT !.pc = "dial", !.verb = v]
  PROVE  s \in CallRecs /\ CallerOK(c, k, s, d, of)
<1>1. /\ s \in CallRecs /\ s.pc = "dial" /\ s.verb = v /\ s.attempt = r.attempt
      /\ s.result = r.result /\ s.lost = r.lost
  BY DEF CallRecs
<1>2. Kept(s, of) = {} /\ Kept(r, of) = {}
  BY <1>1 DEF CallerOK, Kept
<1> QED
  BY <1>1, <1>2 DEF CallerOK

\* The next attempt, or the last error.
LEMMA FailedIs ==
  ASSUME NEW r \in CallRecs, r.result # "nil",
         \A t \in r.lost : t <= r.attempt, NEW s, s = Failed(r)
  PROVE  /\ s \in CallRecs /\ s.lost = r.lost
         /\ s.pc \in {"dial", "returned"} /\ s.result # "nil"
         /\ \A t \in s.lost : t <= s.attempt /\ (s.pc = "dial" => t # s.attempt)
<1>1. r.attempt \in 1 .. Attempts /\ Attempts = 3 /\ r.lost \in SUBSET Nat
  BY DEF CallRecs, Attempts
<1>2. CASE r.attempt = Attempts
  BY <1>1, <1>2 DEF Failed, CallRecs
<1>3. CASE r.attempt # Attempts
  <2>1. r.attempt + 1 \in 1 .. Attempts
    BY <1>1, <1>3
  <2>2. /\ s \in CallRecs /\ s.lost = r.lost /\ s.pc = "dial"
        /\ s.result = r.result /\ s.attempt = r.attempt + 1
    BY <1>3, <2>1 DEF Failed, CallRecs
  <2>3. \A t \in r.lost : t <= r.attempt + 1 /\ t # r.attempt + 1
    BY <1>1
  <2> QED
    BY <2>2, <2>3
<1> QED
  BY <1>2, <1>3

\* An attempt fails with nothing done and nothing under way.
LEMMA CallFails ==
  ASSUME NEW c, NEW k, NEW d, NEW of, NEW r \in CallRecs, CallerOK(c, k, r, d, of),
         r.pc \in {"dial", "wait"}, d \subseteq r.lost, Kept(r, of) = {},
         NEW w, w.open \notin {"queued", "open"}
  PROVE  Failed(r) \in CallRecs /\ CallerOK(c, w, Failed(r), d, of)
<1>1. PICK s : s = Failed(r)
  OBVIOUS
<1>2. r.result # "nil" /\ \A t \in r.lost : t <= r.attempt
  BY DEF CallerOK
<1>3. /\ s \in CallRecs /\ s.pc \in {"dial", "returned"} /\ s.result # "nil"
      /\ s.lost = r.lost
      /\ \A t \in s.lost : t <= s.attempt /\ (s.pc = "dial" => t # s.attempt)
  BY <1>1, <1>2, FailedIs
<1>4. Kept(s, of) = {}
  BY <1>3 DEF Kept
<1>5. \A h \in of : /\ h.at # "begin" => h.fd = <<c, h.try>>
                    /\ h.verb \in PassesFd \/ h.at = "begin"
  BY DEF CallerOK
<1>6. CallerOK(c, w, s, d, of)
  BY <1>3, <1>4, <1>5 DEF CallerOK
<1> QED
  BY <1>1, <1>3, <1>6

\* A connection is lost under a call: whatever runs for it, or was done, is of a
\* lost attempt now.
LEMMA CallBreaks ==
  ASSUME NEW c, NEW k, NEW d, NEW of, NEW r \in CallRecs, CallerOK(c, k, r, d, of),
         r.pc = "wait", NEW q, q = Lost(r),
         NEW w, w.open \notin {"queued", "open"}
  PROVE  Failed(q) \in CallRecs /\ CallerOK(c, w, Failed(q), d, of)
<1>1. PICK s : s = Failed(q)
  OBVIOUS
<1>2. /\ r.attempt \in Nat /\ r.result # "nil" /\ r.lost \in SUBSET Nat
      /\ \A t \in r.lost : t <= r.attempt
  BY DEF CallerOK, CallRecs, Attempts
<1>3. /\ q \in CallRecs /\ q.lost = r.lost \cup {r.attempt} /\ q.result # "nil"
      /\ q.attempt = r.attempt
  BY <1>2 DEF CallRecs, Lost
<1>4. \A t \in q.lost : t <= q.attempt
  BY <1>2, <1>3
<1>5. /\ s \in CallRecs /\ s.pc \in {"dial", "returned"} /\ s.result # "nil"
      /\ s.lost = r.lost \cup {r.attempt}
      /\ \A t \in s.lost : t <= s.attempt /\ (s.pc = "dial" => t # s.attempt)
  BY <1>1, <1>3, <1>4, FailedIs
<1>6. Kept(s, of) = {} /\ d \subseteq s.lost
  BY <1>5 DEF CallerOK, Kept
<1>7. \A h \in of : /\ h.at # "begin" => h.fd = <<c, h.try>>
                    /\ h.verb \in PassesFd \/ h.at = "begin"
  BY DEF CallerOK
<1>8. CallerOK(c, w, s, d, of)
  BY <1>5, <1>6, <1>7 DEF CallerOK
<1> QED
  BY <1>1, <1>5, <1>8

\* A dial puts the request on a connection of its own.
LEMMA CallDials ==
  ASSUME NEW c, NEW k, NEW d, NEW of, NEW r \in CallRecs, CallerOK(c, k, r, d, of),
         r.pc = "dial", NEW w, w.open = "queued", w.try = r.attempt, w.next = 0,
         Len(w.wire) = 1, w.wire[1].verb = r.verb, w.replies = << >>,
         NEW s, s = [r EXCEPT !.pc = "wait"]
  PROVE  s \in CallRecs /\ CallerOK(c, w, s, d, of)
<1>1. /\ s \in CallRecs /\ s.pc = "wait" /\ s.verb = r.verb /\ s.attempt = r.attempt
      /\ s.result = r.result /\ s.lost = r.lost
  BY DEF CallRecs
<1>2. Kept(r, of) = {} /\ d \subseteq r.lost /\ r.result # "nil"
  BY DEF CallerOK
<1>3. Kept(s, of) = {}
  BY <1>1, <1>2 DEF Kept
<1> QED
  BY <1>1, <1>2, <1>3 DEF CallerOK

\* The context of a caller ends.
LEMMA CallGivesUp ==
  ASSUME NEW c, NEW k, NEW d, NEW of, NEW r \in CallRecs, CallerOK(c, k, r, d, of),
         r.pc \in {"dial", "wait"}, NEW w, w.open = "closed", w.try = k.try,
         w.replies = k.replies,
         NEW s, s = [r EXCEPT !.pc = "returned", !.result = "ctx"]
  PROVE  s \in CallRecs /\ CallerOK(c, w, s, d, of)
<1>1. /\ s \in CallRecs /\ s.pc = "returned" /\ s.verb = r.verb
      /\ s.attempt = r.attempt /\ s.result = "ctx" /\ s.lost = r.lost
  BY DEF CallRecs
<1>2. Kept(s, of) = Kept(r, of)
  BY <1>1 DEF Kept
<1> QED
  BY <1>1, <1>2 DEF CallerOK

\* A reply with no error: what the attempt reports is done.
LEMMA CallReturns ==
  ASSUME NEW c \in Callers, NEW k \in Codecs, NEW d, NEW of, NEW r \in CallRecs,
         CallerOK(c, k, r, d, of), r.pc = "wait", k.replies # << >>,
         ~ Head(k.replies).err, NEW w, w.open = "closed"
  PROVE  LET s == WithConn(r, Taken(c, Head(k.replies)))
         IN  s \in CallRecs /\ CallerOK(c, w, s, d, of)
<1> DEFINE f   == Head(k.replies).fd
           got == Taken(c, Head(k.replies))
           s   == WithConn(r, got)
<1>1. /\ Head(k.replies) = k.replies[1] /\ f \in Fds
  <2>1. k.replies \in Seq(Replies) /\ k.replies # << >>
    BY DEF Codecs
  <2>2. Head(k.replies) = k.replies[1] /\ k.replies[1] \in Replies
    BY <2>1
  <2> QED
    BY <2>2 DEF Replies
<1>2. /\ r.attempt \in d \ r.lost /\ r.result # "nil" /\ Kept(r, of) = {}
      /\ r.verb \in PassesFd => f = <<c, r.attempt>>
  BY <1>1 DEF CallerOK
<1>3. /\ got = IF f = << >> THEN {} ELSE {f}
      /\ got \in SUBSET Fds /\ Cardinality(got) \in Nat
  <2>1. got = IF f = << >> THEN {} ELSE {f}
    BY DEF Taken
  <2>2. Cardinality({}) = 0 /\ Cardinality({f}) = 1
    BY FS_EmptySet, FS_Singleton
  <2> HIDE DEF f, got
  <2> QED
    BY <1>1, <2>1, <2>2
<1>4. r.verb \in PassesFd => got = {<<c, r.attempt>>}
  <2>1. <<c, r.attempt>> # << >>
    OBVIOUS
  <2> HIDE DEF f, got
  <2> QED
    BY <1>2, <1>3, <2>1
<1> HIDE DEF f, got
<1>5. /\ s \in CallRecs /\ s.pc = "returned" /\ s.verb = r.verb
      /\ s.attempt = r.attempt /\ s.got = got /\ s.lost = r.lost
  BY <1>3 DEF WithConn, CallRecs
<1> HIDE DEF s
<1>7. Kept(s, of) = {}
  BY <1>2, <1>5 DEF Kept
<1>6. CallerOK(c, w, s, d, of)
  BY <1>2, <1>4, <1>5, <1>7 DEF CallerOK
<1> QED
  BY <1>5, <1>6 DEF s, got

\* The connection of a call is accepted.
LEMMA CallAccepted ==
  ASSUME NEW c, NEW k, NEW d, NEW of, NEW r, CallerOK(c, k, r, d, of),
         k.open = "queued", NEW w, w.open = "open", w.try = k.try,
         w.next = k.next, w.wire = k.wire, w.replies = k.replies
  PROVE  CallerOK(c, w, r, d, of)
BY DEF CallerOK

\* The request is read, and a handler begins.
LEMMA CallIsRead ==
  ASSUME NEW c, NEW k, NEW d, NEW of, NEW r, CallerOK(c, k, r, d, of),
         k.open = "open", Len(k.wire) # 0, k.wire \in Seq(Requests),
         NEW w, w.open = "open", w.try = k.try, w.next = k.next + 1,
         w.wire = Tail(k.wire), w.replies = k.replies,
         NEW h, h.try = k.try, h.verb = k.wire[1].verb, h.at = "begin"
  PROVE  CallerOK(c, w, r, d, of \cup {h})
<1>1. /\ r.pc = "wait" /\ k.try = r.attempt /\ k.next = 0 /\ Len(k.wire) = 1
      /\ k.wire[1].verb = r.verb /\ Kept(r, of) = {} /\ d \subseteq r.lost
      /\ k.replies = << >> /\ r.result # "nil" /\ r.attempt \notin r.lost
  BY DEF CallerOK
<1>2. w.next = 1 /\ Len(w.wire) = 0
  BY <1>1
<1>3. Kept(r, of \cup {h}) = {h}
  BY <1>1 DEF Kept
<1>4. \A g \in of \cup {h} : /\ g.at # "begin" => g.fd = <<c, g.try>>
                            /\ (g.verb \in PassesFd \/ g.at = "begin")
  BY DEF CallerOK
<1>5. \A t \in r.lost : t <= r.attempt /\ (r.pc # "returned" => t # r.attempt)
  BY DEF CallerOK
<1> QED
  BY <1>1, <1>2, <1>3, <1>4, <1>5 DEF CallerOK

\* What is under way, of a handler whose attempt was not lost.
LEMMA KeptIs ==
  ASSUME NEW c, NEW k, NEW d, NEW of, NEW r, CallerOK(c, k, r, d, of),
         NEW h \in of, h.try \notin r.lost
  PROVE  /\ h.try = r.attempt /\ k.try = r.attempt /\ h.verb = r.verb
         /\ d \subseteq r.lost /\ k.replies = << >> /\ r.result # "nil"
         /\ Kept(r, of) = {h} /\ r.pc \notin {"idle", "dial"}
         /\ k.open \in {"queued", "open"} =>
              /\ r.pc = "wait" /\ k.next = 1 /\ Len(k.wire) = 0
              /\ k.open = "queued" => k.next = 0
<1>1. h \in Kept(r, of)
  BY DEF Kept
<1>2. /\ h.try = r.attempt /\ k.try = r.attempt /\ h.verb = r.verb
      /\ d \subseteq r.lost /\ k.replies = << >> /\ r.result # "nil"
      /\ \A g \in Kept(r, of) : g = h
  BY <1>1 DEF CallerOK
<1>3. Kept(r, of) = {h}
  BY <1>1, <1>2
<1>4. r.pc \notin {"idle", "dial"} /\ (k.open \in {"queued", "open"} => k.next # 0)
  BY <1>1 DEF CallerOK
<1>5. k.open \in {"queued", "open"} =>
        /\ r.pc = "wait" /\ k.next = 1 /\ Len(k.wire) = 0
        /\ k.open = "queued" => k.next = 0
  BY <1>4 DEF CallerOK
<1> QED
  BY <1>2, <1>3, <1>4, <1>5

\* The handler of an attach goes on.
LEMMA CallMoves ==
  ASSUME NEW c, NEW k, NEW d, NEW of, NEW r, CallerOK(c, k, r, d, of),
         NEW h \in of, h.verb \in PassesFd,
         NEW g, g.try = h.try, g.verb = h.verb, g.fd = <<c, h.try>>
  PROVE  CallerOK(c, k, r, d, (of \ {h}) \cup {g})
<1>1. PICK on : on = (of \ {h}) \cup {g}
  OBVIOUS
<1>2. \A x \in on : /\ x.at # "begin" => x.fd = <<c, x.try>>
                    /\ x.verb \in PassesFd \/ x.at = "begin"
  BY <1>1 DEF CallerOK
<1>3. CASE h.try \in r.lost
  <2>1. Kept(r, on) = Kept(r, of)
    BY <1>1, <1>3 DEF Kept
  <2>2. CallerOK(c, k, r, d, on)
    BY <1>2, <2>1 DEF CallerOK
  <2> QED
    BY <1>1, <2>2
<1>4. CASE h.try \notin r.lost
  <2>1. /\ h.try = r.attempt /\ k.try = r.attempt /\ h.verb = r.verb
        /\ d \subseteq r.lost /\ k.replies = << >> /\ r.result # "nil"
        /\ Kept(r, of) = {h} /\ r.pc \notin {"idle", "dial"}
        /\ k.open \in {"queued", "open"} =>
             /\ r.pc = "wait" /\ k.next = 1 /\ Len(k.wire) = 0
             /\ k.open = "queued" => k.next = 0
    BY <1>4, KeptIs
  <2>2. Kept(r, on) = {g}
    <3>1. \A x \in of : x.try \notin r.lost => x = h
      BY <2>1 DEF Kept
    <3> QED
      BY <1>1, <1>4, <3>1 DEF Kept
  <2>3. r.pc = "wait" => k.open \in {"queued", "open"}
    BY DEF CallerOK
  <2>4. \A t \in r.lost : t <= r.attempt /\ (r.pc # "returned" => t # r.attempt)
    BY DEF CallerOK
  <2>5. CallerOK(c, k, r, d, on)
    BY <1>2, <2>1, <2>2, <2>3, <2>4 DEF CallerOK
  <2> QED
    BY <1>1, <2>5
<1> QED
  BY <1>3, <1>4

\* The handler answers: done, or failed.  That of a lost attempt has no codec to
\* answer to once the next one has dialled.
LEMMA CallAnswered ==
  ASSUME NEW c, NEW k, NEW d, NEW of, NEW r, CallerOK(c, k, r, d, of),
         NEW h \in of, NEW err \in BOOLEAN, NEW e,
         e = IF err THEN d ELSE d \cup {h.try},
         ~err /\ h.verb \in PassesFd => h.at # "begin",
         NEW w, w.open = k.open, w.try = k.try, w.next = k.next, w.wire = k.wire,
         h.try # k.try => w.replies = k.replies,
         h.try = k.try /\ k.replies = << >> =>
           /\ w.replies # << >> /\ w.replies[1].err = err
           /\ ~err => w.replies[1].fd = h.fd
  PROVE  CallerOK(c, w, r, e, of \ {h})
<1>1. PICK on : on = of \ {h}
  OBVIOUS
<1>2. \A x \in on : /\ x.at # "begin" => x.fd = <<c, x.try>>
                    /\ x.verb \in PassesFd \/ x.at = "begin"
  BY <1>1 DEF CallerOK
<1>3. CASE h.try \in r.lost
  <2>1. Kept(r, on) = Kept(r, of) /\ e \ r.lost = d \ r.lost
    BY <1>1, <1>3 DEF Kept
  <2>2. ASSUME r.pc = "wait" \/ k.open \in {"queued", "open"} \/ Kept(r, of) # {}
        PROVE  w.replies = k.replies
    <3>1. k.try \notin r.lost
      BY <2>2 DEF CallerOK, Kept
    <3> QED
      BY <1>3, <3>1
  <2>3. /\ \A t \in r.lost : t <= r.attempt /\ (r.pc # "returned" => t # r.attempt)
        /\ e \ r.lost \subseteq {r.attempt}
        /\ r.pc \in {"idle", "dial"} => Kept(r, on) = {} /\ e \subseteq r.lost
                                       /\ r.result # "nil"
        /\ r.pc = "wait" => w.open \in {"queued", "open"} /\ r.result # "nil"
        /\ r.result = "nil" => /\ r.attempt \in e \ r.lost
                               /\ r.verb \in PassesFd => r.got = {<<c, r.attempt>>}
    BY <2>1 DEF CallerOK
  <2>4. w.open \in {"queued", "open"} =>
       /\ r.pc = "wait" /\ w.try = r.attempt
       /\ \/ w.next = 0 /\ Len(w.wire) = 1 /\ w.wire[1].verb = r.verb
          \/ w.next = 1 /\ Len(w.wire) = 0
       /\ w.next = 0 => Kept(r, on) = {} /\ e \subseteq r.lost /\ w.replies = << >>
       /\ w.open = "queued" => w.next = 0
    BY <2>1, <2>2 DEF CallerOK
  <2>5. \A x \in Kept(r, on) :
       /\ x.try = r.attempt /\ w.try = r.attempt /\ x.verb = r.verb
       /\ e \subseteq r.lost /\ w.replies = << >> /\ r.result # "nil"
       /\ \A g \in Kept(r, on) : x = g
    BY <2>1, <2>2 DEF CallerOK
  <2>6. r.pc = "wait" /\ w.replies # << >> =>
       IF w.replies[1].err THEN e \subseteq r.lost
       ELSE /\ r.attempt \in e
            /\ r.verb \in PassesFd => w.replies[1].fd = <<c, r.attempt>>
    <3>1. ASSUME r.pc = "wait", w.replies # << >>
          PROVE  IF w.replies[1].err THEN e \subseteq r.lost
                 ELSE /\ r.attempt \in e
                      /\ r.verb \in PassesFd => w.replies[1].fd = <<c, r.attempt>>
      <4>1. w.replies = k.replies
        BY <2>2, <3>1
      <4>2. IF k.replies[1].err THEN d \subseteq r.lost
            ELSE /\ r.attempt \in d
                 /\ r.verb \in PassesFd => k.replies[1].fd = <<c, r.attempt>>
        BY <3>1, <4>1 DEF CallerOK
      <4>3. (d \subseteq r.lost => e \subseteq r.lost) /\ d \subseteq e
        BY <1>3
      <4> QED
        BY <4>1, <4>2, <4>3
    <3> QED
      BY <3>1
  <2>7. CallerOK(c, w, r, e, on)
    BY <1>2, <2>3, <2>4, <2>5, <2>6 DEF CallerOK
  <2> QED
    BY <1>1, <2>7
<1>4. CASE h.try \notin r.lost
  <2>1. /\ h.try = r.attempt /\ k.try = r.attempt /\ h.verb = r.verb
        /\ d \subseteq r.lost /\ k.replies = << >> /\ r.result # "nil"
        /\ Kept(r, of) = {h} /\ r.pc \notin {"idle", "dial"}
        /\ k.open \in {"queued", "open"} =>
             /\ r.pc = "wait" /\ k.next = 1 /\ Len(k.wire) = 0
             /\ k.open = "queued" => k.next = 0
    BY <1>4, KeptIs
  <2>2. Kept(r, on) = {}
    BY <1>1, <2>1 DEF Kept
  <2>3. /\ r.pc = "wait" => k.open \in {"queued", "open"}
        /\ \A t \in r.lost : t <= r.attempt /\ (r.pc # "returned" => t # r.attempt)
        /\ h.at # "begin" => h.fd = <<c, r.attempt>>
    BY <2>1 DEF CallerOK
  <2>4. /\ w.replies # << >> /\ w.replies[1].err = err
        /\ ~err /\ r.verb \in PassesFd => w.replies[1].fd = <<c, r.attempt>>
    BY <2>1, <2>3
  <2>5. /\ err => e \subseteq r.lost
        /\ ~err => r.attempt \in e
        /\ e \ r.lost \subseteq {r.attempt}
    BY <2>1
  <2>6. CallerOK(c, w, r, e, on)
    BY <1>2, <2>1, <2>2, <2>3, <2>4, <2>5 DEF CallerOK
  <2> QED
    BY <1>1, <2>6
<1> QED
  BY <1>3, <1>4

-----------------------------------------------------------------------------
\* The invariant holds at the start.
LEMMA RpcStarts == ServerInit => RpcInv
<1> SUFFICES ASSUME ServerInit  PROVE RpcInv
  OBVIOUS
<1> DEFINE e == << >>
<1>1. /\ conn = [c \in Conns |-> NoConn] /\ calls = {}
      /\ call = [c \in Callers |-> [pc |-> "idle", verb |-> "ping", attempt |-> 1,
                                    result |-> "none", got |-> {}, io |-> 0, lost |-> {}]]
      /\ done = [c \in Callers |-> {}]
  BY DEF ServerInit
<1>2. /\ NoConn.open = "no" /\ NoConn.wire = e /\ NoConn.next = 0 /\ NoConn.ids = e
      /\ NoConn.params = e /\ NoConn.replies = e /\ NoConn \in Codecs
  <2>1. /\ e \in Seq(Nat) /\ e \in Seq(Replies) /\ e \in Seq(Requests)
    OBVIOUS
  <2>2. NoConn = [open |-> "no", try |-> 1, wire |-> e, next |-> 0, ids |-> e,
                  params |-> e, replies |-> e]
    BY DEF NoConn
  <2> HIDE DEF e
  <2> QED
    BY <2>1, <2>2 DEF Codecs
<1>3. ConnOK(NoConn, {})
  <2>1. Len(e) = 0
    OBVIOUS
  <2> HIDE DEF e
  <2> QED
    BY <1>2, <2>1 DEF ConnOK, CodecOK
<1>4. RpcTypes
  <2>1. [pc |-> "idle", verb |-> "ping", attempt |-> 1,
         result |-> "none", got |-> {}, io |-> 0, lost |-> {}] \in CallRecs
    BY DEF CallRecs, Verbs, Attempts
  <2> QED
    BY <1>1, <1>2, <2>1 DEF RpcTypes
<1>5. ASSUME NEW c \in Conns  PROVE Part(c)
  <2>1. conn[c] = NoConn /\ Of(c) = {}
    BY <1>1 DEF Of
  <2>2. ASSUME c \in Callers  PROVE CallerOK(c, NoConn, call[c], done[c], {})
    <3>1. /\ call[c].pc = "idle" /\ call[c].result = "none" /\ done[c] = {}
          /\ call[c].lost = {}
      BY <1>1, <2>2
    <3> QED
      BY <1>2, <3>1 DEF CallerOK, Kept
  <2> QED
    BY <1>3, <2>1, <2>2 DEF Part
<1> QED
  BY <1>4, <1>5 DEF RpcInv

\* Handlers of a connection, when one begins.
LEMMA OfGrows ==
  ASSUME NEW h, calls' = calls \cup {h}
  PROVE  /\ Of(h.conn)' = Of(h.conn) \cup {h}
         /\ \A b : b # h.conn => Of(b)' = Of(b)
BY DEF Of

\* An action that changes one connection and its caller, and no handler.
LEMMA OneConn ==
  ASSUME RpcInv, NEW c \in Conns, NEW w \in Codecs, ConnOK(w, Of(c)),
         conn' = [conn EXCEPT ![c] = w], calls' = calls, done' = done,
         c \notin Callers => call' = call,
         c \in Callers =>
           \E s \in CallRecs : /\ call' = [call EXCEPT ![c] = s]
                               /\ CallerOK(c, w, s, done[c], Of(c))
  PROVE  RpcInv'
<1>1. /\ conn \in [Conns -> Codecs] /\ call \in [Callers -> CallRecs]
      /\ RpcTypes
  BY DEF RpcInv, RpcTypes
<1>2. /\ conn' \in [Conns -> Codecs] /\ conn'[c] = w
      /\ \A b \in Conns \ {c} : conn'[b] = conn[b]
  BY <1>1
<1>3. \A b : Of(b)' = Of(b)
  BY DEF Of
<1>4. CASE c \notin Callers
  <2>1. RpcTypes'
    BY <1>1, <1>2, <1>4 DEF RpcTypes
  <2>2. Part(c)'
    BY <1>2, <1>3, <1>4 DEF Part
  <2> QED
    BY <1>2, <1>3, <1>4, <2>1, <2>2, OnePart
<1>5. CASE c \in Callers
  <2>1. PICK s \in CallRecs : /\ call' = [call EXCEPT ![c] = s]
                              /\ CallerOK(c, w, s, done[c], Of(c))
    BY <1>5
  <2>2. /\ call' \in [Callers -> CallRecs] /\ call'[c] = s
        /\ \A b \in Callers \ {c} : call'[b] = call[b]
    BY <1>1, <1>5, <2>1
  <2>3. RpcTypes'
    BY <1>1, <1>2, <2>2 DEF RpcTypes
  <2>4. Part(c)'
    BY <1>2, <1>3, <2>1, <2>2 DEF Part
  <2> QED
    BY <1>2, <1>3, <2>2, <2>3, <2>4, OnePart
<1> QED
  BY <1>4, <1>5

\* An action that changes one connection and one of its handlers.
LEMMA OneCall ==
  ASSUME RpcInv, NEW c \in Conns, NEW w \in Codecs, NEW of,
         ConnOK(w, of), conn' = [conn EXCEPT ![c] = w], call' = call,
         calls' \subseteq Calls, Of(c)' = of,
         \A b \in Conns \ {c} : Of(b)' = Of(b),
         c \notin Callers => done' = done,
         c \in Callers =>
           \E d \in SUBSET Nat : /\ done' = [done EXCEPT ![c] = d]
                                 /\ CallerOK(c, w, call[c], d, of)
  PROVE  RpcInv'
<1>1. /\ conn \in [Conns -> Codecs] /\ call \in [Callers -> CallRecs]
      /\ done \in [Callers -> SUBSET Nat]
  BY DEF RpcInv, RpcTypes
<1>2. /\ conn' \in [Conns -> Codecs] /\ conn'[c] = w
      /\ \A b \in Conns \ {c} : conn'[b] = conn[b]
  BY <1>1
<1> HIDE DEF Of
<1>3. CASE c \notin Callers
  <2>1. RpcTypes'
    BY <1>1, <1>2, <1>3 DEF RpcTypes
  <2>2. Part(c)'
    BY <1>2, <1>3 DEF Part
  <2> QED
    BY <1>2, <1>3, <2>1, <2>2, OnePart
<1>4. CASE c \in Callers
  <2>1. PICK d \in SUBSET Nat : /\ done' = [done EXCEPT ![c] = d]
                                /\ CallerOK(c, w, call[c], d, of)
    BY <1>4
  <2>2. /\ done' \in [Callers -> SUBSET Nat] /\ done'[c] = d
        /\ \A b \in Callers \ {c} : done'[b] = done[b]
    BY <1>1, <1>4, <2>1
  <2>3. RpcTypes'
    BY <1>1, <1>2, <2>2 DEF RpcTypes
  <2>4. Part(c)'
    BY <1>2, <2>1, <2>2 DEF Part
  <2> QED
    BY <1>2, <2>2, <2>3, <2>4, OnePart
<1> QED
  BY <1>3, <1>4

-----------------------------------------------------------------------------
\* Serve accepts a connection.
LEMMA AcceptKeeps ==
  ASSUME RpcInv, NEW c \in Conns, Accept(c)  PROVE RpcInv'
<1> DEFINE w == [conn[c] EXCEPT !.open = "open"]
<1>1. /\ conn[c].open = "queued" /\ conn' = [conn EXCEPT ![c] = w]
      /\ calls' = calls /\ done' = done /\ call' = call
  BY DEF Accept
<1>2. /\ w \in Codecs /\ ConnOK(w, Of(c)) /\ w.open = "open"
      /\ w.try = conn[c].try /\ w.next = conn[c].next /\ w.wire = conn[c].wire
      /\ w.replies = conn[c].replies
  <2> DEFINE v == w
  <2>1. v = [conn[c] EXCEPT !.open = "open"]
    OBVIOUS
  <2> HIDE DEF v, Of
  <2>2. /\ v \in Codecs /\ ConnOK(v, Of(c)) /\ v.open = "open"
        /\ v.try = conn[c].try /\ v.next = conn[c].next /\ v.wire = conn[c].wire
        /\ v.replies = conn[c].replies
    BY <2>1, PartIs, ConnOpens
  <2> QED
    BY <2>2 DEF v
<1> HIDE DEF w
<1>3. ASSUME c \in Callers
      PROVE  \E s \in CallRecs : /\ call' = [call EXCEPT ![c] = s]
                                 /\ CallerOK(c, w, s, done[c], Of(c))
  <2>1. /\ CallerOK(c, conn[c], call[c], done[c], Of(c)) /\ call[c] \in CallRecs
        /\ call \in [Callers -> CallRecs]
    BY <1>3, PartIs DEF RpcInv, RpcTypes
  <2>2. CallerOK(c, w, call[c], done[c], Of(c))
    BY <1>1, <1>2, <2>1, CallAccepted
  <2>3. call' = [call EXCEPT ![c] = call[c]]
    BY <1>1, <2>1
  <2> QED
    BY <2>1, <2>2, <2>3
<1> QED
  BY <1>1, <1>2, <1>3, OneConn

\* ServeCodec reads a request.
LEMMA ReadRequestKeeps ==
  ASSUME RpcInv, NEW c \in Conns, ReadRequest(c)  PROVE RpcInv'
<1>0. PICK k : k = conn[c]
  OBVIOUS
<1> DEFINE req  == Head(k.wire)
           head == ReadRequestHeader(k, req.id, req.params)
           known == req.verb # "unknown"
           body == ReadRequestBody(head, known)
           u    == WriteResponse(body.codec, head.next, TRUE, << >>)
           w    == body.codec
           h    == [conn |-> c, try |-> head.try, seq |-> head.next,
                    id |-> req.id, verb |-> req.verb, arg |-> body.arg,
                    params |-> req.params, fd |-> << >>, at |-> "begin"]
<1>1. /\ k.open = "open" /\ k.wire # << >> /\ call' = call /\ done' = done
      /\ req.verb = "unknown" =>
           conn' = [conn EXCEPT ![c] = u] /\ calls' = calls
      /\ req.verb # "unknown" =>
           conn' = [conn EXCEPT ![c] = w] /\ calls' = calls \cup {h}
  BY <1>0 DEF ReadRequest
<1>2. /\ ConnOK(k, Of(c)) /\ k \in Codecs /\ \A x \in Of(c) : x.conn = c
      /\ conn \in [Conns -> Codecs] /\ calls \subseteq Calls
  BY <1>0, PartIs DEF Of, RpcInv, RpcTypes
<1>3. /\ req = k.wire[1]
      /\ req.verb = "unknown" => u \in Codecs /\ ConnOK(u, Of(c))
      /\ req.verb # "unknown" =>
           /\ w \in Codecs /\ h \in Calls /\ ConnOK(w, Of(c) \cup {h})
      /\ w.open = k.open /\ w.try = k.try /\ w.next = k.next + 1
      /\ w.wire = Tail(k.wire) /\ w.replies = k.replies
      /\ h.try = k.try
  <2>10. PICK of : of = Of(c)
    OBVIOUS
  <2>0. /\ ConnOK(k, of) /\ k.wire # << >> /\ k.open = "open"
        /\ \A x \in of : x.conn = c
    BY <1>1, <1>2, <2>10
  <2>1. CodecOK(k) /\ known \in BOOLEAN
    BY <2>0 DEF ConnOK
  <2>2. /\ req \in Requests /\ req = k.wire[1] /\ req.id = k.next + 1
        /\ head.next = k.next + 1 /\ head.try = k.try
        /\ CodecOK(w) /\ w.next = k.next + 1
        /\ w.open = k.open /\ w.try = k.try
        /\ w.replies = k.replies /\ w.wire = Tail(k.wire)
        /\ known => body.arg = IF req.params THEN req.id ELSE 0
    <3> HIDE DEF known
    <3> QED
      BY <2>0, <2>1, ReadKeeps
  <2>3. /\ k.next \in Nat /\ k.try \in Nat /\ w \in Codecs
        /\ head.next \in 1 .. w.next
        /\ \A i \in 1 .. Len(w.replies) : w.replies[i].id # head.next
    <3>1. k.next \in Nat /\ k.try \in Nat
      BY <2>1 DEF CodecOK, Codecs
    <3>2. w \in Codecs
      BY <2>2 DEF CodecOK
    <3>3. \A i \in 1 .. Len(k.replies) : k.replies[i].id \in 1 .. k.next
      BY <2>1 DEF CodecOK
    <3> HIDE DEF head, w
    <3> QED
      BY <2>2, <3>1, <3>2, <3>3
  <2> HIDE DEF head, body, w, req
  <2>4. \A x \in of : CallOK(x, w) /\ (x.try = k.try => x.seq # head.next)
    BY <2>0, <2>2, <2>3 DEF ConnOK, CallOK, Pending, Calls
  <2>5. ~known => u \in Codecs /\ ConnOK(u, of)
    <3> DEFINE r == [id |-> head.next, err |-> TRUE, fd |-> << >>]
    <3>1. r \in Replies /\ r.id = head.next
      BY <2>2, <2>3 DEF Replies, Fds
    <3>5. u = [w EXCEPT !.replies = Append(w.replies, r)]
      <4>1. w.ids[head.next] = head.next
        BY <2>2, <2>3 DEF CodecOK
      <4>2. u = WriteResponse(w, head.next, TRUE, << >>)
        BY DEF w
      <4> HIDE DEF u
      <4> QED
        BY <4>1, <4>2 DEF WriteResponse
    <3> HIDE DEF u, r, h
    <3>2. /\ CodecOK(u) /\ u.next = w.next /\ u.open = w.open /\ u.try = w.try
          /\ \A s \in Nat :
               (s # head.next /\ \A i \in 1 .. Len(w.replies) : w.replies[i].id # s)
                 => \A i \in 1 .. Len(u.replies) : u.replies[i].id # s
      <4>1. /\ CodecOK(w) /\ r.id \in 1 .. w.next
            /\ \A i \in 1 .. Len(w.replies) : w.replies[i].id # r.id
        BY <2>2, <2>3, <3>1
      <4>2. /\ CodecOK(u) /\ u.next = w.next /\ u.open = w.open
            /\ u.try = w.try
            /\ \A s \in Nat :
                 (s # r.id /\ \A i \in 1 .. Len(w.replies) : w.replies[i].id # s)
                   => \A i \in 1 .. Len(u.replies) : u.replies[i].id # s
        BY <3>1, <3>5, <4>1, ResponseKeeps
      <4> QED
        BY <3>1, <4>2
    <3> HIDE DEF u
    <3>3. ASSUME NEW x \in of  PROVE CallOK(x, u)
      <4>1. CallOK(x, w) /\ x.seq \in Nat /\ (x.try = k.try => x.seq # head.next)
        BY <2>4 DEF CallOK, Calls
      <4> QED
        BY <2>2, <3>2, <4>1 DEF CallOK, Pending
    <3> QED
      BY <2>0, <3>2, <3>3 DEF ConnOK, CodecOK
  <2>6. known => h \in Calls /\ ConnOK(w, of \cup {h})
    <3> SUFFICES ASSUME known  PROVE h \in Calls /\ ConnOK(w, of \cup {h})
      OBVIOUS
    <3>1. /\ h \in Calls /\ h.arg = (IF h.params THEN h.id ELSE 0)
          /\ h.try = k.try /\ h.seq = head.next
      <4>1. head.try \in Nat /\ head.next \in Nat /\ req.id \in Nat /\ req.verb \in Verbs
            /\ req.params \in BOOLEAN /\ << >> \in Fds /\ body.arg \in Nat
            /\ body.arg = IF req.params THEN req.id ELSE 0
        BY <2>2, <2>3 DEF Requests, Fds
      <4> QED
        BY <2>2, <4>1 DEF Calls
    <3> HIDE DEF h
    <3>2. CallOK(h, w)
      BY <2>0, <2>2, <2>3, <3>1 DEF CallOK, Pending
    <3>3. \A x \in of : ~(x.try = h.try /\ x.seq = h.seq)
      BY <2>4, <3>1
    <3>4. \A x, y \in of \cup {h} : x.try = y.try /\ x.seq = y.seq => x = y
      BY <2>0, <3>3 DEF ConnOK
    <3> QED
      BY <2>2, <2>4, <3>1, <3>2, <3>4 DEF ConnOK
  <2>7. h.try = k.try
    BY <2>2
  <2>8. /\ req = k.wire[1]
        /\ w.open = k.open /\ w.try = k.try /\ w.next = k.next + 1
        /\ w.wire = Tail(k.wire) /\ w.replies = k.replies /\ w \in Codecs
    BY <2>2, <2>3
  <2> HIDE DEF Of, req, w, u, h
  <2> QED
    BY <2>5, <2>6, <2>7, <2>8, <2>10 DEF known
<1>4. /\ h.conn = c /\ h.verb = req.verb /\ h.at = "begin"
  OBVIOUS
<1>5. c \in Callers =>
        /\ CallerOK(c, k, call[c], done[c], Of(c))
        /\ done[c] \in SUBSET Nat /\ done = [done EXCEPT ![c] = done[c]]
        /\ call[c] \in CallRecs /\ call = [call EXCEPT ![c] = call[c]]
  BY <1>0, PartIs DEF RpcInv, RpcTypes
<1>6. Len(k.wire) # 0 /\ k.wire \in Seq(Requests)
  BY <1>1, <1>2 DEF Codecs
<1> HIDE DEF h, w, u, req, head, body
<1>7. c \in Callers => CallerOK(c, w, call[c], done[c], Of(c) \cup {h})
  <2> HIDE DEF Of
  <2> QED
    BY <1>1, <1>3, <1>4, <1>5, <1>6, CallIsRead
<1>8. CASE req.verb = "unknown"
  <2>1. c \notin Callers
    <3>1. c \in Callers =>
            call[c].verb # "unknown" /\ k.wire[1].verb = call[c].verb
      BY <1>1, <1>5, <1>6 DEF CallerOK, CallRecs
    <3> QED
      BY <1>3, <1>8, <3>1
  <2> QED
    BY <1>1, <1>3, <1>8, <2>1, OneConn
<1>9. CASE req.verb # "unknown"
  <2>1. /\ Of(c)' = Of(c) \cup {h} /\ \A b : b # c => Of(b)' = Of(b)
        /\ calls' \subseteq Calls
    BY <1>1, <1>2, <1>3, <1>4, <1>9, OfGrows
  <2>2. c \in Callers =>
          \E d \in SUBSET Nat : /\ done' = [done EXCEPT ![c] = d]
                                /\ CallerOK(c, w, call[c], d, Of(c) \cup {h})
    <3> HIDE DEF Of
    <3> QED
      BY <1>1, <1>5, <1>7
  <2> DEFINE of == Of(c) \cup {h}
  <2>3. /\ Of(c)' = of /\ ConnOK(w, of) /\ w \in Codecs
        /\ conn' = [conn EXCEPT ![c] = w]
        /\ c \in Callers =>
             \E d \in SUBSET Nat : /\ done' = [done EXCEPT ![c] = d]
                                   /\ CallerOK(c, w, call[c], d, of)
    BY <1>1, <1>3, <1>9, <2>1, <2>2
  <2> HIDE DEF of, Of
  <2> QED
    BY <1>1, <2>1, <2>3, OneCall
<1> QED
  BY <1>8, <1>9

\* A handler returns.
LEMMA AnswerKeeps ==
  ASSUME RpcInv, NEW h \in calls, NEW err \in BOOLEAN, Answer(h, err), call' = call,
         ~err /\ h.verb \in PassesFd => h.at # "begin"
  PROVE  RpcInv'
<1> DEFINE c == h.conn
           k == conn[c]
           r == [id |-> h.seq, err |-> err, fd |-> IF err THEN << >> ELSE h.fd]
           w == IF h.try # k.try THEN k
                ELSE [k EXCEPT !.replies = Append(k.replies, r)]
           e == IF err THEN done[c] ELSE done[c] \cup {h.try}
<1>1. /\ h \in Calls /\ c \in Conns /\ h.try \in Nat /\ h \in Of(c)
      /\ conn \in [Conns -> Codecs] /\ k \in Codecs /\ ConnOK(k, Of(c))
      /\ done \in [Callers -> SUBSET Nat]
  <2>1. h \in Calls /\ conn \in [Conns -> Codecs] /\ done \in [Callers -> SUBSET Nat]
    BY DEF RpcInv, RpcTypes
  <2>2. c \in Conns /\ h.try \in Nat /\ h \in Of(c)
    BY <2>1 DEF Calls, Of
  <2> QED
    BY <2>1, <2>2, PartIs
<1>2. /\ calls' = (calls \ {h}) \cup {} /\ conn' = [conn EXCEPT ![c] = w]
      /\ c \notin Callers => done' = done
      /\ c \in Callers => done' = [done EXCEPT ![c] = e]
  <2>1. /\ calls' = calls \ {h}
        /\ conn' = IF h.try # k.try THEN conn
                   ELSE [conn EXCEPT ![c] = WriteResponse(k, h.seq, err, h.fd)]
        /\ done' = IF err \/ c \notin Callers THEN done
                   ELSE [done EXCEPT ![c] = done[c] \cup {h.try}]
    BY DEF Answer
  <2>2. conn = [conn EXCEPT ![c] = k] /\ (c \in Callers => done = [done EXCEPT ![c] = done[c]])
    BY <1>1
  <2>3. conn' = [conn EXCEPT ![c] = w]
    <3>1. CASE h.try # k.try
      BY <2>1, <2>2, <3>1
    <3>2. CASE h.try = k.try
      <4>1. k.ids[h.seq] = h.seq
        <5> HIDE DEF k
        <5> QED
          BY <1>1, <3>2 DEF ConnOK, CallOK, Pending, CodecOK
      <4>2. WriteResponse(k, h.seq, err, h.fd) = w
        BY <3>2, <4>1 DEF WriteResponse
      <4> QED
        BY <2>1, <3>2, <4>2
    <3> QED
      BY <3>1, <3>2
  <2>4. /\ c \notin Callers => done' = done
        /\ c \in Callers => done' = [done EXCEPT ![c] = e]
    BY <2>1, <2>2
  <2> QED
    BY <2>1, <2>3, <2>4
<1> HIDE DEF c, k, e
<1>3. /\ r \in Replies /\ r.id = h.seq /\ r.err = err /\ (~err => r.fd = h.fd)
  BY <1>1 DEF Replies, Calls, Fds
<1> HIDE DEF r
<1>4. /\ w \in Codecs /\ ConnOK(w, Of(c) \ {h}) /\ w.open = k.open
      /\ w.try = k.try /\ w.next = k.next /\ w.wire = k.wire
      /\ h.try = k.try => w.replies = Append(k.replies, r)
      /\ h.try # k.try => w = k
  <2>1. PICK l, of, s, g : l = k /\ of = Of(c) /\ s = r /\ g = h
    OBVIOUS
  <2>2. ConnOK(l, of) /\ g \in of /\ s \in Replies /\ s.id = g.seq
    BY <1>1, <1>3, <2>1
  <2>3. CASE h.try # k.try
    <3>1. ConnOK(k, Of(c) \ {h})
      BY <1>1 DEF ConnOK
    <3> QED
      BY <1>1, <2>3, <3>1
  <2>4. CASE h.try = k.try
    <3>1. PICK v : v = [l EXCEPT !.replies = Append(l.replies, s)]
      OBVIOUS
    <3>4. g.try = l.try
      BY <2>1, <2>4
    <3>2. /\ v \in Codecs /\ v.open = l.open /\ v.try = l.try /\ v.next = l.next
          /\ v.wire = l.wire /\ v.replies = Append(l.replies, s)
      <4>1. l \in Codecs /\ l.replies \in Seq(Replies)
        BY <2>2 DEF ConnOK, CodecOK, Codecs
      <4>2. PICK a : a = Append(l.replies, s)
        OBVIOUS
      <4>3. a \in Seq(Replies) /\ v = [l EXCEPT !.replies = a]
        BY <2>2, <3>1, <4>1, <4>2
      <4>4. /\ v \in Codecs /\ v.open = l.open /\ v.try = l.try
            /\ v.next = l.next /\ v.wire = l.wire /\ v.replies = a
        BY <4>1, <4>3 DEF Codecs
      <4> QED
        BY <4>2, <4>4
    <3>5. ConnOK(v, of \ {g})
      BY <2>2, <3>1, <3>4, ConnAnswers
    <3>3. w = v
      BY <2>1, <2>4, <3>1
    <3> HIDE DEF w, Of
    <3> QED
      BY <2>1, <2>4, <3>2, <3>3, <3>5
  <2> QED
    BY <2>3, <2>4
<1> HIDE DEF w
<1>5. /\ Of(c)' = Of(c) \ {h} /\ \A b : b # c => Of(b)' = Of(b)
      /\ calls' \subseteq Calls
  <2>1. \A b : Of(b)' = {x \in calls' : x.conn = b}
    BY DEF Of
  <2> QED
    BY <1>2, <2>1 DEF RpcInv, RpcTypes, Of, c
<1>6. ASSUME c \in Callers
      PROVE  e \in SUBSET Nat /\ CallerOK(c, w, call[c], e, Of(c) \ {h})
  <2>1. CallerOK(c, k, call[c], done[c], Of(c)) /\ done[c] \in SUBSET Nat
    BY <1>1, <1>6, PartIs DEF k
  <2>2. h.try # k.try => w.replies = k.replies
    BY <1>4
  <2>3. h.try = k.try /\ k.replies = << >> => w.replies = <<r>>
    BY <1>4
  <2>4. h.try = k.try /\ k.replies = << >> =>
          /\ w.replies # << >> /\ w.replies[1].err = err
          /\ ~err => w.replies[1].fd = h.fd
    BY <1>3, <2>3
  <2>5. e = (IF err THEN done[c] ELSE done[c] \cup {h.try})
    BY DEF e
  <2>6. CallerOK(c, w, call[c], e, Of(c) \ {h})
    <3> HIDE DEF Of
    <3> QED
      BY <1>1, <1>4, <2>1, <2>2, <2>4, <2>5, CallAnswered
  <2> QED
    BY <1>1, <2>1, <2>5, <2>6
<1> DEFINE of == Of(c) \ {h}
<1>7. /\ Of(c)' = of /\ ConnOK(w, of) /\ w \in Codecs
      /\ c \in Callers =>
           \E d \in SUBSET Nat : /\ done' = [done EXCEPT ![c] = d]
                                 /\ CallerOK(c, w, call[c], d, of)
  BY <1>2, <1>4, <1>5, <1>6
<1> HIDE DEF of, Of
<1> QED
  BY <1>1, <1>2, <1>5, <1>7, OneCall

\* A handler goes on: it has the socketpair, it has seen Ready.
LEMMA MoveKeeps ==
  ASSUME RpcInv, NEW h \in calls, NEW a \in {"await", "send", "stage"}, NEW f \in Fds,
         NEW g, g = [h EXCEPT !.at = a, !.fd = f],
         calls' = (calls \ {h}) \cup {g}, conn' = conn, call' = call, done' = done,
         h.conn \in Callers => h.verb \in PassesFd /\ f = <<h.conn, h.try>>
  PROVE  RpcInv'
<1>1. PICK c, k, of : c = h.conn /\ k = conn[c] /\ of = Of(c)
  OBVIOUS
<1>2. /\ h \in Calls /\ c \in Conns /\ h \in of /\ ConnOK(k, of) /\ k \in Codecs
      /\ conn \in [Conns -> Codecs] /\ calls \subseteq Calls
      /\ done \in [Callers -> SUBSET Nat]
  <2>1. /\ h \in Calls /\ conn \in [Conns -> Codecs] /\ calls \subseteq Calls
        /\ done \in [Callers -> SUBSET Nat]
    BY DEF RpcInv, RpcTypes
  <2>2. c \in Conns /\ h \in of
    BY <1>1, <2>1 DEF Calls, Of
  <2> QED
    BY <1>1, <2>1, <2>2, PartIs
<1>3. /\ g \in Calls /\ ConnOK(k, (of \ {h}) \cup {g}) /\ g.conn = c
      /\ g.try = h.try /\ g.verb = h.verb /\ g.at = a /\ g.fd = f
  <2>1. ConnOK(k, (of \ {h}) \cup {g})
    BY <1>2, ConnMoves
  <2>2. /\ g \in Calls /\ g.conn = c /\ g.try = h.try /\ g.verb = h.verb
        /\ g.at = a /\ g.fd = f
    BY <1>1, <1>2 DEF Calls
  <2> QED
    BY <2>1, <2>2
<1>4. /\ Of(c)' = (of \ {h}) \cup {g} /\ \A b : b # c => Of(b)' = Of(b)
      /\ calls' \subseteq Calls
  <2>1. \A b : Of(b)' = {x \in calls' : x.conn = b}
    BY DEF Of
  <2> QED
    BY <1>1, <1>2, <1>3, <2>1 DEF Of
<1>5. ASSUME c \in Callers
      PROVE  /\ CallerOK(c, k, call[c], done[c], (of \ {h}) \cup {g})
             /\ done[c] \in SUBSET Nat
  <2>1. CallerOK(c, k, call[c], done[c], of) /\ done[c] \in SUBSET Nat
    BY <1>1, <1>2, <1>5, PartIs
  <2>2. h.verb \in PassesFd /\ g.fd = <<c, h.try>>
    BY <1>1, <1>3, <1>5
  <2> HIDE DEF Of
  <2>3. CallerOK(c, k, call[c], done[c], (of \ {h}) \cup {g})
    BY <1>2, <1>3, <2>1, <2>2, CallMoves
  <2> QED
    BY <2>1, <2>3
<1>6. conn' = [conn EXCEPT ![c] = k] /\ (c \in Callers => done' = [done EXCEPT ![c] = done[c]])
  BY <1>1, <1>2
<1>7. PICK og : og = (of \ {h}) \cup {g}
  OBVIOUS
<1>8. /\ Of(c)' = og /\ ConnOK(k, og)
      /\ c \in Callers =>
           \E d \in SUBSET Nat : /\ done' = [done EXCEPT ![c] = d]
                                 /\ CallerOK(c, k, call[c], d, og)
  BY <1>3, <1>4, <1>5, <1>6, <1>7
<1> HIDE DEF Of
<1> QED
  BY <1>2, <1>4, <1>6, <1>8, OneCall

\* A handler of a caller that has its socketpair: an attach or a subscribe.
LEMMA HandlerIs ==
  ASSUME RpcInv, NEW h \in calls
  PROVE  /\ h \in Calls /\ h.conn \in Conns /\ h.fd \in Fds
         /\ h.conn \in Callers =>
              /\ h.verb \in PassesFd \/ h.at = "begin"
              /\ h.at # "begin" => h.fd = <<h.conn, h.try>>
<1>1. h \in Calls /\ h.conn \in Conns /\ h.fd \in Fds /\ h \in Of(h.conn)
  BY DEF RpcInv, RpcTypes, Calls, Of
<1>2. h.conn \in Callers => CallerOK(h.conn, conn[h.conn], call[h.conn],
                                     done[h.conn], Of(h.conn))
  BY <1>1, PartIs
<1> HIDE DEF Of
<1> QED
  BY <1>1, <1>2 DEF CallerOK

\* A handler's answer, with whatever outcome its code computes.
LEMMA AnswersKeep ==
  ASSUME RpcInv, NEW h \in calls, call' = call,
         \/ Answer(h, TRUE)
         \/ Answer(h, FALSE) /\ (h.verb \notin PassesFd \/ h.at # "begin")
  PROVE  RpcInv'
<1>1. PICK failed \in BOOLEAN : failed = TRUE
  OBVIOUS
<1>2. PICK fine \in BOOLEAN : fine = FALSE
  OBVIOUS
<1>3. CASE Answer(h, TRUE)
  <2>1. Answer(h, failed)
    BY <1>1, <1>3
  <2> QED
    BY <1>1, <2>1, AnswerKeeps
<1>4. CASE Answer(h, FALSE) /\ (h.verb \notin PassesFd \/ h.at # "begin")
  <2>1. Answer(h, fine)
    BY <1>2, <1>4
  <2> QED
    BY <1>4, <2>1, AnswerKeeps
<1> QED
  BY <1>3, <1>4

\* A handler runs.
LEMMA HandleKeeps ==
  ASSUME RpcInv, NEW h \in calls, Handle(h)  PROVE RpcInv'
<1>1. CASE Ping(h)
  <2>1. Answer(h, FALSE) /\ call' = call /\ h.verb \notin PassesFd
    BY <1>1 DEF Ping, PassesFd
  <2> QED
    BY <2>1, AnswersKeep
<1>2. CASE Query(h)
  <2>1. /\ Answer(h, TRUE) \/ Answer(h, FALSE)
        /\ call' = call /\ h.verb \notin PassesFd
    <3>1. Answer(h, ~Built) => Answer(h, TRUE) \/ Answer(h, FALSE)
      <4>1. CASE Built
        BY <4>1 DEF Answer, AfterResponse, WriteResponse
      <4>2. CASE ~Built
        BY <4>2 DEF Answer, AfterResponse, WriteResponse
      <4> QED
        BY <4>1, <4>2
    <3> QED
      BY <1>2, <3>1 DEF Query, PassesFd
  <2> QED
    BY <2>1, AnswersKeep
<1>3. CASE Write(h)
  <2>1. /\ Answer(h, TRUE) \/ Answer(h, FALSE)
        /\ call' = call /\ h.verb \notin PassesFd
    <3> DEFINE open == Built /\ child = "running"
    <3>1. Answer(h, ~open) => Answer(h, TRUE) \/ Answer(h, FALSE)
      <4> HIDE DEF open
      <4>1. CASE open
        BY <4>1 DEF Answer, AfterResponse, WriteResponse
      <4>2. CASE ~open
        BY <4>2 DEF Answer, AfterResponse, WriteResponse
      <4> QED
        BY <4>1, <4>2
    <3> QED
      BY <1>3, <3>1 DEF Write, PassesFd
  <2> QED
    BY <2>1, AnswersKeep
<1>4. CASE StopCall(h)
  <2>1. Answer(h, FALSE) /\ call' = call /\ h.verb \notin PassesFd
    BY <1>4 DEF StopCall, PassesFd
  <2> QED
    BY <2>1, AnswersKeep
<1>5. CASE AttachBegins(h)
  <2>1. /\ h \in Calls /\ h.try \in Nat /\ h.conn \in Conns
    BY HandlerIs DEF Calls
  <2>2. CASE Built /\ Wired
    <3>1. PICK f, a : /\ f = <<h.conn, h.try>>
                      /\ a = IF h.verb = "attach" THEN "await" ELSE "send"
      OBVIOUS
    <3>2. PICK g : g = [h EXCEPT !.at = a, !.fd = f]
      OBVIOUS
    <3>3. /\ calls' = (calls \ {h}) \cup {g} /\ conn' = conn /\ call' = call
          /\ done' = done /\ h.verb \in PassesFd
      BY <1>5, <2>2, <3>1, <3>2 DEF AttachBegins
    <3>4. f \in Fds /\ a \in {"await", "send", "stage"}
      BY <2>1, <3>1 DEF Fds
    <3> QED
      BY <3>1, <3>2, <3>3, <3>4, MoveKeeps
  <2>3. CASE ~(Built /\ Wired)
    <3>1. Answer(h, TRUE) /\ call' = call
      BY <1>5, <2>3 DEF AttachBegins
    <3> QED
      BY <3>1, AnswersKeep
  <2> QED
    BY <2>2, <2>3
<1>6. CASE Subscribe(h)
  <2>1. Answer(h, FALSE) /\ call' = call /\ h.at # "begin"
    BY <1>6 DEF Subscribe
  <2> QED
    BY <2>1, AnswersKeep
<1>7. CASE AwaitReady(h)
  <2>1. /\ h.at = "await" /\ call' = call
        /\ \/ /\ calls' = (calls \ {h}) \cup {[h EXCEPT !.at = "stage"]}
              /\ conn' = conn /\ done' = done
           \/ Answer(h, TRUE)
    BY <1>7 DEF AwaitReady
  <2>2. CASE Answer(h, TRUE)
    BY <2>1, <2>2, AnswersKeep
  <2>3. CASE /\ calls' = (calls \ {h}) \cup {[h EXCEPT !.at = "stage"]}
             /\ conn' = conn /\ done' = done
    <3>1. PICK f, a : f = h.fd /\ a = "stage"
      OBVIOUS
    <3>2. PICK g : g = [h EXCEPT !.at = a, !.fd = f]
      OBVIOUS
    <3>3. /\ h \in Calls /\ f \in Fds /\ a \in {"await", "send", "stage"}
          /\ h.conn \in Callers => h.verb \in PassesFd /\ f = <<h.conn, h.try>>
      BY <2>1, <3>1, HandlerIs
    <3>4. g = [h EXCEPT !.at = "stage"]
      BY <3>1, <3>2, <3>3 DEF Calls
    <3>5. calls' = (calls \ {h}) \cup {g}
      BY <2>3, <3>4
    <3> QED
      BY <2>1, <2>3, <3>2, <3>3, <3>5, MoveKeeps
  <2> QED
    BY <2>1, <2>2, <2>3
<1>8. CASE WriteStage(h)
  <2>1. (Answer(h, TRUE) \/ Answer(h, FALSE)) /\ call' = call /\ h.at # "begin"
    BY <1>8 DEF WriteStage
  <2> QED
    BY <2>1, AnswersKeep
<1> QED
  BY <1>1, <1>2, <1>3, <1>4, <1>5, <1>6, <1>7, <1>8 DEF Handle

\* The client's steps.  HangUp closes the connection's codec, whatever is on it.
LEMMA HangsUp ==
  ASSUME RpcInv, NEW c \in Callers, HangUp(c)
  PROVE  \E w \in Codecs : /\ conn' = [conn EXCEPT ![c] = w] /\ ConnOK(w, Of(c))
                           /\ w.open = "closed" /\ w.try = conn[c].try
                           /\ w.replies = conn[c].replies
<1>1. PICK k, of, w : k = conn[c] /\ of = Of(c) /\ w = [k EXCEPT !.open = "closed"]
  OBVIOUS
<1>2. c \in Conns /\ ConnOK(k, of)
  BY <1>1, PartIs DEF Conns
<1>3. /\ w \in Codecs /\ ConnOK(w, of) /\ w.open = "closed" /\ w.try = k.try
      /\ w.replies = k.replies
  BY <1>1, <1>2, ConnOpens
<1>4. conn' = [conn EXCEPT ![c] = w]
  BY <1>1 DEF HangUp
<1> HIDE DEF Of
<1> QED
  BY <1>1, <1>3, <1>4

\* A new connection, with what its client has sent.
LEMMA NewConn ==
  ASSUME NEW t, NEW q
  PROVE  LET w == [open |-> "queued", try |-> t, wire |-> q, next |-> 0,
                   ids |-> << >>, params |-> << >>, replies |-> << >>]
         IN  /\ [NoConn EXCEPT !.open = "queued", !.try = t, !.wire = q] = w
             /\ t = 1 => [NoConn EXCEPT !.open = "queued", !.wire = q] = w
<1>1. PICK v : v = [NoConn EXCEPT !.open = "queued", !.try = t, !.wire = q]
  OBVIOUS
<1>2. v = [open |-> "queued", try |-> t, wire |-> q, next |-> 0,
           ids |-> << >>, params |-> << >>, replies |-> << >>]
  BY <1>1 DEF NoConn
<1>3. PICK u : u = [NoConn EXCEPT !.open = "queued", !.wire = q]
  OBVIOUS
<1>4. u = [open |-> "queued", try |-> 1, wire |-> q, next |-> 0,
           ids |-> << >>, params |-> << >>, replies |-> << >>]
  BY <1>3 DEF NoConn
<1> QED
  BY <1>1, <1>2, <1>3, <1>4

\* What the invariant says of one caller.
LEMMA CallerIs ==
  ASSUME RpcInv, NEW c \in Callers
  PROVE  /\ c \in Conns /\ ConnOK(conn[c], Of(c)) /\ conn[c] \in Codecs
         /\ CallerOK(c, conn[c], call[c], done[c], Of(c))
         /\ call[c] \in CallRecs /\ call \in [Callers -> CallRecs]
         /\ conn \in [Conns -> Codecs]
<1>1. c \in Conns
  BY DEF Conns
<1> QED
  BY <1>1, PartIs DEF RpcInv, RpcTypes

\* The new state of a caller, and of its connection.
LEMMA OneCaller ==
  ASSUME RpcInv, NEW c \in Callers, NEW w \in Codecs, ConnOK(w, Of(c)),
         conn' = [conn EXCEPT ![c] = w], calls' = calls, done' = done,
         NEW s \in CallRecs, call' = [call EXCEPT ![c] = s],
         CallerOK(c, w, s, done[c], Of(c))
  PROVE  RpcInv'
<1>1. c \in Conns
  BY DEF Conns
<1> HIDE DEF Of
<1> QED
  BY <1>1, OneConn

\* A caller begins.
LEMMA BeginKeeps ==
  ASSUME RpcInv, ServerAssumption, NEW c \in Callers, Begin(c)  PROVE RpcInv'
<1>1. PICK v \in Asks[c] : call' = [call EXCEPT ![c].pc = "dial", ![c].verb = v]
  BY DEF Begin
<1>2. v \in Verbs \ {"unknown"}
  BY ServerAssumption, <1>1 DEF ServerAssumption, Verbs
<1>3. PICK k, of, d, r, s : /\ k = conn[c] /\ of = Of(c) /\ d = done[c] /\ r = call[c]
                            /\ s = [r EXCEPT !.pc = "dial", !.verb = v]
  OBVIOUS
<1>4. /\ CallerOK(c, k, r, d, of) /\ r \in CallRecs /\ r.pc = "idle"
      /\ k \in Codecs /\ ConnOK(k, of) /\ conn \in [Conns -> Codecs]
      /\ call \in [Callers -> CallRecs] /\ conn' = conn /\ calls' = calls /\ done' = done
  BY <1>3, CallerIs DEF Begin, Idle
<1>5. s \in CallRecs /\ CallerOK(c, k, s, d, of)
  BY <1>2, <1>3, <1>4, CallBegins
<1>6. call' = [call EXCEPT ![c] = s] /\ conn' = [conn EXCEPT ![c] = k]
  BY <1>1, <1>3, <1>4
<1> HIDE DEF Of
<1> QED
  BY <1>3, <1>4, <1>5, <1>6, OneCaller

\* A caller dials, or fails to.
LEMMA DialKeeps ==
  ASSUME RpcInv, NEW c \in Callers, Dial(c)  PROVE RpcInv'
<1>1. PICK k, of, d, r : k = conn[c] /\ of = Of(c) /\ d = done[c] /\ r = call[c]
  OBVIOUS
<1>2. /\ CallerOK(c, k, r, d, of) /\ r \in CallRecs /\ r.pc = "dial"
      /\ k \in Codecs /\ ConnOK(k, of) /\ conn \in [Conns -> Codecs]
      /\ call \in [Callers -> CallRecs] /\ calls' = calls /\ done' = done
      /\ Kept(r, of) = {} /\ d \subseteq r.lost /\ k.open \notin {"queued", "open"}
  BY <1>1, CallerIs DEF Dial, CallerOK
<1>3. CASE listening
  <2>1. PICK q, w, s :
          /\ q = <<[id |-> 1, verb |-> r.verb, params |-> TRUE]>>
          /\ w = [open |-> "queued", try |-> r.attempt, wire |-> q, next |-> 0,
                  ids |-> << >>, params |-> << >>, replies |-> << >>]
          /\ s = [r EXCEPT !.pc = "wait"]
    OBVIOUS
  <2>2. conn' = [conn EXCEPT ![c] = w] /\ call' = [call EXCEPT ![c] = s]
    <3>1. w = [NoConn EXCEPT !.open = "queued", !.try = call[c].attempt,
                 !.wire = <<[id |-> 1, verb |-> call[c].verb, params |-> TRUE]>>]
      BY <1>1, <2>1, NewConn
    <3>2. /\ conn' = [conn EXCEPT ![c] =
                [NoConn EXCEPT !.open = "queued", !.try = call[c].attempt,
                 !.wire = <<[id |-> 1, verb |-> call[c].verb, params |-> TRUE]>>]]
          /\ call' = [call EXCEPT ![c].pc = "wait"]
      BY <1>3 DEF Dial
    <3>3. call' = [call EXCEPT ![c] = s]
      BY <1>1, <2>1, <3>2
    <3> QED
      BY <3>1, <3>2, <3>3
  <2>3. /\ q \in Seq(Requests) /\ Len(q) = 1 /\ q[1].verb = r.verb
        /\ \A i \in 1 .. Len(q) : q[i].id = i
    BY <1>2, <2>1 DEF Requests, CallRecs
  <2>4. r.attempt \in Nat
    BY <1>2 DEF CallRecs, Attempts
  <2>7. \A h \in of : h.try # r.attempt
    BY <1>2 DEF CallerOK, Kept
  <2>5. /\ w \in Codecs /\ ConnOK(w, of) /\ w.open = "queued" /\ w.try = r.attempt
        /\ w.next = 0 /\ w.wire = q /\ w.replies = << >>
    <3>1. PICK t \in Nat : t = r.attempt
      BY <2>4
    <3>2. /\ ConnOK(k, of) /\ \A h \in of : h.try # t
          /\ w = [open |-> "queued", try |-> t, wire |-> q, next |-> 0,
                  ids |-> << >>, params |-> << >>, replies |-> << >>]
      BY <1>2, <2>1, <2>7, <3>1
    <3>3. q \in Seq(Requests) /\ \A i \in 1 .. Len(q) : q[i].id = i
      BY <2>3
    <3>4. /\ w \in Codecs /\ ConnOK(w, of) /\ w.open = "queued" /\ w.try = t
          /\ w.next = 0 /\ w.wire = q /\ w.replies = << >>
      BY <3>2, <3>3, ConnStarts
    <3> QED
      BY <3>1, <3>4
  <2>6. s \in CallRecs /\ CallerOK(c, w, s, d, of)
    BY <1>2, <2>1, <2>3, <2>5, CallDials
  <2> HIDE DEF Of
  <2> QED
    BY <1>1, <1>2, <2>2, <2>5, <2>6, OneCaller
<1>4. CASE ~listening
  <2>1. PICK s : s = Failed(r)
    OBVIOUS
  <2>2. call' = [call EXCEPT ![c] = s] /\ conn' = [conn EXCEPT ![c] = k]
    BY <1>1, <1>2, <1>4, <2>1 DEF Dial
  <2>3. s \in CallRecs /\ CallerOK(c, k, s, d, of)
    BY <1>2, <2>1, CallFails
  <2> HIDE DEF Of
  <2> QED
    BY <1>1, <1>2, <2>2, <2>3, OneCaller
<1> QED
  BY <1>3, <1>4

\* A caller is reset, has a reply, or gives up.
LEMMA HungUpKeeps ==
  ASSUME RpcInv, NEW c \in Callers, Reset(c) \/ Reply(c) \/ Breaks(c) \/ CallerGivesUp(c)
  PROVE  RpcInv'
<1>1. PICK k, of, d, r : k = conn[c] /\ of = Of(c) /\ d = done[c] /\ r = call[c]
  OBVIOUS
<1>2. /\ CallerOK(c, k, r, d, of) /\ r \in CallRecs /\ k \in Codecs
      /\ call \in [Callers -> CallRecs]
  BY <1>1, CallerIs
<1>3. HangUp(c) /\ calls' = calls /\ done' = done
  BY DEF Reset, Reply, Breaks, CallerGivesUp
<1>4. PICK w \in Codecs : /\ conn' = [conn EXCEPT ![c] = w] /\ ConnOK(w, of)
                          /\ w.open = "closed" /\ w.try = k.try
                          /\ w.replies = k.replies
  BY <1>1, <1>3, HangsUp
<1>5. \E s \in CallRecs : call' = [call EXCEPT ![c] = s] /\ CallerOK(c, w, s, d, of)
  <2>1. PICK t : t = Failed(r)
    OBVIOUS
  <2>2. ASSUME r.pc = "wait", Kept(r, of) = {}, d \subseteq r.lost  PROVE t \in CallRecs /\ CallerOK(c, w, t, d, of)
    BY <1>2, <1>4, <2>1, <2>2, CallFails
  <2>3. CASE Reset(c)
    <3>1. r.pc = "wait" /\ k.open = "queued" /\ call' = [call EXCEPT ![c] = t]
      BY <1>1, <2>1, <2>3 DEF Reset
    <3>2. Kept(r, of) = {} /\ d \subseteq r.lost
      BY <1>2, <3>1 DEF CallerOK
    <3> QED
      BY <2>2, <3>1, <3>2
  <2>4. CASE Reply(c)
    <3>1. r.pc = "wait" /\ k.replies # << >>
      BY <1>1, <2>4 DEF Reply
    <3>2. Kept(r, of) = {} /\ Head(k.replies) = k.replies[1] /\ k.replies[1].err \in BOOLEAN
      <4>1. k.replies \in Seq(Replies) /\ k.replies # << >>
        BY <1>2, <3>1 DEF Codecs
      <4>2. Head(k.replies) = k.replies[1] /\ k.replies[1] \in Replies
        BY <4>1
      <4> QED
        BY <1>2, <3>1, <4>2 DEF CallerOK, Replies
    <3>3. CASE Head(k.replies).err
      <4>1. call' = [call EXCEPT ![c] = t]
        BY <1>1, <2>1, <2>4, <3>3 DEF Reply
      <4>2. d \subseteq r.lost
        BY <1>2, <3>1, <3>2, <3>3 DEF CallerOK
      <4> QED
        BY <2>2, <3>1, <3>2, <4>1, <4>2
    <3>4. CASE ~ Head(k.replies).err
      <4>1. PICK s : s = WithConn(r, Taken(c, Head(k.replies)))
        OBVIOUS
      <4>2. call' = [call EXCEPT ![c] = s]
        BY <1>1, <2>4, <3>4, <4>1 DEF Reply
      <4>3. s \in CallRecs /\ CallerOK(c, w, s, d, of)
        BY <1>2, <1>4, <3>1, <3>4, <4>1, CallReturns
      <4> QED
        BY <4>2, <4>3
    <3> QED
      BY <3>3, <3>4
  <2>6. CASE Breaks(c)
    <3>1. PICK q, u : q = Lost(r) /\ u = Failed(q)
      OBVIOUS
    <3>2. r.pc = "wait" /\ call' = [call EXCEPT ![c] = u]
      BY <1>1, <1>2, <2>6, <3>1 DEF Breaks
    <3>3. u \in CallRecs /\ CallerOK(c, w, u, d, of)
      BY <1>2, <1>4, <3>1, <3>2, CallBreaks
    <3> QED
      BY <3>2, <3>3
  <2>5. CASE CallerGivesUp(c)
    <3>1. PICK s : s = [r EXCEPT !.pc = "returned", !.result = "ctx"]
      OBVIOUS
    <3>2. r.pc \in {"dial", "wait"} /\ call' = [call EXCEPT ![c] = s]
      BY <1>1, <1>2, <2>5, <3>1 DEF CallerGivesUp
    <3>3. s \in CallRecs /\ CallerOK(c, w, s, d, of)
      BY <1>2, <1>4, <3>1, <3>2, CallGivesUp
    <3> QED
      BY <3>2, <3>3
  <2> QED
    BY <2>3, <2>4, <2>5, <2>6
<1> HIDE DEF Of
<1> QED
  BY <1>1, <1>3, <1>4, <1>5, OneCaller

\* Another client dials: no handler runs for a connection that is not open.
LEMMA PeerSendsKeeps ==
  ASSUME RpcInv, NEW p \in Peers, PeerSends(p)  PROVE RpcInv'
<1>1. p \in Conns /\ p \notin Callers
  BY ServerAssumption DEF ServerAssumption, Conns
<1>2. PICK q, w :
        /\ q = [i \in DOMAIN Pipeline |-> [id |-> i, verb |-> Pipeline[i].verb,
                                           params |-> Pipeline[i].params]]
        /\ w = [open |-> "queued", try |-> 1, wire |-> q, next |-> 0,
                ids |-> << >>, params |-> << >>, replies |-> << >>]
  OBVIOUS
<1>3. /\ conn[p].open = "no" /\ conn' = [conn EXCEPT ![p] = w]
      /\ calls' = calls /\ call' = call /\ done' = done
  <2>1. w = [NoConn EXCEPT !.open = "queued", !.wire = q]
    BY <1>2, NewConn
  <2> QED
    BY <1>2, <2>1 DEF PeerSends
<1>4. Of(p) = {}
  <2>1. ConnOK(conn[p], Of(p))
    BY <1>1, PartIs
  <2> HIDE DEF Of
  <2> QED
    BY <1>3, <2>1 DEF ConnOK, CallOK
<1>5. q \in Seq(Requests) /\ \A i \in 1 .. Len(q) : q[i].id = i
  <2>1. /\ Pipeline \in Seq([verb : {"ping", "stop", "write", "unknown"},
                             params : BOOLEAN])
        /\ Len(Pipeline) \in Nat /\ DOMAIN Pipeline = 1 .. Len(Pipeline)
    BY ServerAssumption DEF ServerAssumption
  <2>2. ASSUME NEW i \in 1 .. Len(Pipeline)
        PROVE  q[i] \in Requests /\ q[i].id = i
    <3> DEFINE S == [verb : {"ping", "stop", "write", "unknown"}, params : BOOLEAN]
    <3>4. Pipeline \in Seq(S)
      BY <2>1
    <3>1. Pipeline[i] \in S
      <4> HIDE DEF S
      <4> QED
        BY <2>1, <3>4
    <3>2. i \in Nat /\ Pipeline[i].verb \in Verbs /\ Pipeline[i].params \in BOOLEAN
      BY <2>1, <3>1 DEF Verbs
    <3>3. q[i] = [id |-> i, verb |-> Pipeline[i].verb, params |-> Pipeline[i].params]
      BY <1>2, <2>1
    <3> QED
      BY <3>2, <3>3 DEF Requests
  <2>3. DOMAIN q = 1 .. Len(Pipeline) /\ q = [i \in DOMAIN q |-> q[i]]
    BY <1>2, <2>1
  <2>4. q \in Seq(Requests) /\ Len(q) = Len(Pipeline)
    BY <2>1, <2>2, <2>3
  <2> QED
    BY <2>2, <2>4
<1>6. w \in Codecs /\ ConnOK(w, {})
  <2>3. ConnOK(conn[p], {})
    <3>1. ConnOK(conn[p], Of(p))
      BY <1>1, PartIs
    <3> QED
      BY <1>4, <3>1
  <2>1. PICK t \in Nat : t = 1
    OBVIOUS
  <2>2. w = [open |-> "queued", try |-> t, wire |-> q, next |-> 0,
             ids |-> << >>, params |-> << >>, replies |-> << >>]
    BY <1>2, <2>1
  <2> QED
    BY <1>5, <2>2, <2>3, ConnStarts
<1> HIDE DEF Of
<1> QED
  BY <1>1, <1>3, <1>4, <1>6, OneConn

\* Serve, its runner and its listener leave connections and calls alone.
LEMMA RpcIdle == ASSUME RpcInv, UNCHANGED rpcVars  PROVE RpcInv'
BY DEF RpcInv, RpcTypes, Part, Of, rpcVars

\* Every step keeps the invariant.
LEMMA RpcKept == RpcInv /\ [ServerNext]_serverVars => RpcInv'
<1> SUFFICES ASSUME RpcInv, [ServerNext]_serverVars  PROVE RpcInv'
  OBVIOUS
<1>1. CASE UNCHANGED rpcVars
  BY <1>1, RpcIdle
<1>2. CASE \E c \in Conns : Accept(c) \/ ReadRequest(c)
  BY <1>2, AcceptKeeps, ReadRequestKeeps
<1>3. CASE \E h \in calls : Handle(h)
  BY <1>3, HandleKeeps
<1>4. CASE \E c \in Callers : Begin(c) \/ CallStep(c) \/ Breaks(c) \/ CallerGivesUp(c)
  <2>1. PICK c \in Callers : \/ Begin(c) \/ Dial(c) \/ Breaks(c)
                             \/ Reset(c) \/ Reply(c) \/ CallerGivesUp(c)
    BY <1>4 DEF CallStep
  <2> QED
    BY <2>1, BeginKeeps, DialKeeps, HungUpKeeps, ServerAssumption
<1>5. CASE \E p \in Peers : PeerSends(p)
  BY <1>5, PeerSendsKeeps
<1>6. CASE UNCHANGED serverVars
  BY <1>1, <1>6 DEF serverVars
<1>7. CASE \/ ServeBegins \/ BringUp \/ StageFails \/ ServeStep \/ StopRuns
           \/ CancelParent \/ ChildExits \/ Report \/ PtyFails \/ AcceptEnds
  <2>1. UNCHANGED rpcVars
    <3>1. ServeStep => UNCHANGED rpcVars
      BY DEF ServeStep, SeesCtxDone, SeesRpcDone, SeesStop, SeesEvent, GraceEvent,
             GraceExpires, RunnerCloses, CloseEnds, Ends
    <3>2. ServeBegins \/ BringUp \/ StageFails \/ StopRuns => UNCHANGED rpcVars
      BY DEF ServeBegins, BringUp, StageFails, StopRuns
    <3>3. CancelParent \/ ChildExits \/ Report \/ PtyFails \/ AcceptEnds
            => UNCHANGED rpcVars
      BY DEF CancelParent, ChildExits, Report, PtyFails, AcceptEnds
    <3> QED
      BY <1>7, <3>1, <3>2, <3>3
  <2> QED
    BY <1>1, <2>1
<1> QED
  BY <1>2, <1>3, <1>4, <1>5, <1>6, <1>7 DEF ServerNext

\* The invariant holds in every behaviour.
LEMMA RpcAlways == ServerSpec => []RpcInv
<1> QED
  BY RpcStarts, RpcKept, PTL DEF ServerSpec

\* However a peer pipelines known, unknown and parameterless requests, the
\* codec's stash (ReadRequestBody) gives each handler its own parameters and

\* WriteResponse answers each id once.
THEOREM OwnParametersAlways == ServerSpec => []OwnParameters
<1>1. RpcInv => OwnParameters
  <2> SUFFICES ASSUME RpcInv  PROVE OwnParameters
    OBVIOUS
  <2>1. ASSUME NEW h \in calls  PROVE h.arg = IF h.params THEN h.id ELSE 0
    <3>1. h.conn \in Conns /\ h \in Of(h.conn)
      BY HandlerIs DEF Of
    <3>2. ConnOK(conn[h.conn], Of(h.conn))
      BY <3>1, PartIs
    <3> HIDE DEF Of
    <3> QED
      BY <3>1, <3>2 DEF ConnOK, CallOK
  <2>2. ASSUME NEW c \in Conns
        PROVE  IsInjective([i \in DOMAIN conn[c].replies |-> conn[c].replies[i].id])
    <3>1. CodecOK(conn[c])
      BY PartIs DEF ConnOK
    <3>2. PICK q : q = conn[c].replies
      OBVIOUS
    <3>3. /\ DOMAIN q = 1 .. Len(q)
          /\ \A i, j \in 1 .. Len(q) : q[i].id = q[j].id => i = j
      BY <3>1, <3>2 DEF CodecOK, Codecs
    <3> QED
      BY <3>2, <3>3 DEF IsInjective
  <2> QED
    BY <2>1, <2>2 DEF OwnParameters
<1> QED
  BY <1>1, RpcAlways, PTL

\* What callWithCodec sends again was not done, over up to three attempts, but for
\* an attempt whose connection was lost before its reply was read; and what a call
\* reports as done, the attempt it returns from has done.
THEOREM DoneOnceAlways == ServerSpec => []DoneOnce
<1>1. RpcInv => DoneOnce
  <2> SUFFICES ASSUME RpcInv, NEW c \in Callers
               PROVE  /\ done[c] \subseteq {call[c].attempt} \cup call[c].lost
                      /\ call[c].result = "nil" =>
                           /\ call[c].attempt \in done[c] \ call[c].lost
                           /\ call[c].verb \in PassesFd =>
                                call[c].got = {<<c, call[c].attempt>>}
    BY DEF DoneOnce
  <2>1. CallerOK(c, conn[c], call[c], done[c], Of(c))
    BY CallerIs
  <2> HIDE DEF Of
  <2> QED
    BY <2>1 DEF CallerOK
<1> QED
  BY <1>1, RpcAlways, PTL
=============================================================================
