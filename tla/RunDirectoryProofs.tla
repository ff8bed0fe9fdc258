-------------------------- MODULE RunDirectoryProofs --------------------------
(***************************************************************************)
(* Proofs about the run directory: a live terminal keeps its files, and    *)
(* names are served once, for any number of starts, scans and prunes.      *)
(***************************************************************************)
EXTENDS RunDirectory, TLAPS

Early == {"names", "ids"}

\* Of the processes of one ID at most one is up, but for a start that is still
\* in the checks of sbsh while a terminal serves.
OnePerId ==
  \A p \in Procs : \A q \in Others(p) :
    Up(p) /\ Up(q) => \/ pc[p] \in Early /\ pc[q] \in Serving
                      \/ pc[q] \in Early /\ pc[p] \in Serving

\* Who has registered, now or before.
Registrants == {p \in Procs : pc[p] \notin Starting \cup {"unborn"}}

\* A document is where its owner put it, and the owner has registered; so is
\* what a scan has read of it, and a socket.
MetaOwned ==
  \A i \in Ids : meta[i] \in Docs =>
    IdOf[meta[i].owner] = i /\ meta[i].owner \in Registrants
SeenOwned ==
  \A a \in Actors, i \in Ids : seen[a][i] \in Docs =>
    IdOf[seen[a][i].owner] = i /\ seen[a][i].owner \in Registrants
SockOwned == \A i \in Ids : sock[i] \in Procs => IdOf[sock[i]] = i

\* What a process has at each stage.
Staged ==
  \A p \in Procs :
    /\ p \in bound => pc[p] \in {"publish", "serving", "exit", "unlisten"}
    /\ p \in copy => pc[p] \in {"serving"} \cup Closing
    /\ pc[p] \notin Early => step[p] = "idle"
    /\ step[p] \in {"idle", "reconcile", "decide"}

\* The socket's path is free when it is bound.
Bindable == \A p \in Procs : pc[p] = "bind" => sock[IdOf[p]] = None

\* What a scanner holds at each stage.
Scanned ==
  \A a \in Actors :
    /\ step[a] \in {"idle", "orphans", "remove"} \cup Ids =>
         \A i \in Ids : seen[a][i] = NoDoc
    /\ step[a] = "prune" =>
         \A i \in todo[a] : seen[a][i] \in Docs /\ seen[a][i].state = "Exited"

\* While an ID is recycled nobody else scans; an ID that is not has no entry
\* but the one its start has just made.
Alone ==
  \A p \in Procs : pc[p] \in Starting /\ Recycles(p) =>
    \A a \in Actors \ {p} : step[a] = "idle"
NewEntry ==
  \A p \in Procs : pc[p] \in Starting /\ ~Recycles(p) =>
    dir[IdOf[p]] = "absent" \/ (dir[IdOf[p]] = "young" /\ pc[p] = "create")
UnusedId ==
  \A i \in Ids : (\A q \in Procs : IdOf[q] = i => pc[q] = "unborn") =>
    meta[i] = None \/ dir[i] = "absent"

\* What others have read of a registered terminal; nobody is about to remove it.
SeenLive ==
  \A a \in Actors, p \in Procs : Registered(p) /\ seen[a][IdOf[p]] \in Docs =>
    seen[a][IdOf[p]].owner = p /\ Active(seen[a][IdOf[p]])
NotRemoved ==
  \A a \in Actors, p \in Procs :
    Registered(p) => ~Doomed(a, IdOf[p])

\* The second check of sbsh has seen who serves under the ID.
IdSeen ==
  \A p \in Procs : pc[p] = "ids" /\ step[p] # "idle" =>
    \A q \in Others(p) : Registered(q) => seen[p][IdOf[p]] \in Docs

\* The first check has seen who serves under the name.
NameSeen ==
  \A p \in Procs : \A q \in before[p] :
    /\ pc[q] \notin Starting \cup {"unborn"} /\ NameOf[q] = NameOf[p] /\ q # p
    /\ p \in Cli /\ pc[p] = "names" /\ step[p] # "idle" /\ Registered(q) =>
         seen[p][IdOf[q]] \in Docs
    /\ p \in Cli /\ Up(p) /\ pc[p] # "names" => ~Registered(q)

DirInv == /\ DirTypeOK /\ OnePerId /\ MetaOwned /\ SeenOwned /\ SockOwned
          /\ Staged /\ Bindable /\ Scanned /\ Alone /\ NewEntry /\ UnusedId
          /\ SeenLive /\ NotRemoved /\ IdSeen /\ NameSeen /\ LiveKeepsFiles

\* IDs are as the code takes them to be: two starts do not use one at the same
\* time, and a start that is not checked by sbsh has an ID of its own.
Restricted == Exclusive /\ \A p \in Procs \ Cli : Others(p) = {}

-----------------------------------------------------------------------------
\* Documents, their absence and their corruption are told apart.
LEMMA DocFacts ==
  /\ NoDoc \notin Docs /\ None \notin Docs /\ None # NoDoc
  /\ NoDoc.state = "Exited"
  /\ \A d \in Docs : d.owner \in Procs /\ d.state \in States
  /\ \A p \in Procs, s \in States, b \in BOOLEAN :
        LET d == [owner |-> p, state |-> s, path |-> b]
        IN  d \in Docs /\ d.owner = p /\ d.state = s
  /\ \A d \in Docs :
        LET e == [d EXCEPT !.state = "Exited"]
        IN  e \in Docs /\ e.owner = d.owner /\ e.state = "Exited"
<1>1. NoDoc \notin Docs /\ None \notin Docs /\ None # NoDoc
  BY DirAssumption, NoneAssumption DEF NoDoc, Docs
<1>2. \A d \in Docs : d.owner \in Procs /\ d.state \in States
  BY DEF Docs
<1> QED
  BY <1>1, <1>2 DEF NoDoc, Docs, States

\* The document of a process that is up is never taken for that of a dead one.
LEMMA AliveIs ==
  ASSUME NEW d, d.owner \in Procs, Up(d.owner)
  PROVE  InstanceAlive(d)
BY DEF InstanceAlive, PidInUse


\* Only who removes orphans is about to remove one.
LEMMA DoomedFacts ==
  ASSUME NEW a, NEW i \in Ids
  PROVE  /\ step[a] \in {"idle", "reconcile", "decide", "prune", "orphans"} =>
              ~Doomed(a, i)
         /\ step[a] = "remove" => (Doomed(a, i) <=> i \in todo[a])
         /\ step[a] \in Ids => (Doomed(a, i) <=> i \in todo[a] \/ i = step[a])
BY IdAssumption DEF Doomed, Steps

\* What WriteMetadata leaves.
LEMMA WriteLeaves ==
  ASSUME DirTypeOK, NEW p \in Procs, NEW s \in States, Write(p, s)
  PROVE  /\ dir' = [dir EXCEPT ![IdOf[p]] = "young"]
         /\ \E d \in Docs : /\ d.owner = p /\ d.state = s
                            /\ meta' = [meta EXCEPT ![IdOf[p]] = d]
<1> DEFINE d == [owner |-> p, state |-> s, path |-> known'[p] # "none"]
<1>1. d \in Docs /\ d.owner = p /\ d.state = s
  BY DEF Docs
<1>2. /\ meta' = [meta EXCEPT ![IdOf[p]] = d]
      /\ dir' = [dir EXCEPT ![IdOf[p]] = "young"]
  BY DEF Write, Touch
<1> QED
  BY <1>1, <1>2

-----------------------------------------------------------------------------
\* Why a start ends in Close after it has registered.
Refused(q) == \/ dir[IdOf[q]] = "absent"
              \/ pc[q] = "probe" /\ LiveSocket(IdOf[q])
              \/ pc[q] = "bind" /\ sock[IdOf[q]] # None

\* Where a process may go, and by which action it is launched, registers and
\* passes the first check.
Onward(q) ==
  /\ q \in Registrants => q \in Registrants'
  /\ pc'[q] = "unborn" => pc[q] = "unborn"
  /\ pc[q] = "unborn" /\ pc'[q] # "unborn" => Launch(q)
  /\ pc'[q] \in Starting => pc[q] \in Starting \/ Launch(q)
  /\ pc[q] = "create" /\ pc'[q] \in Starting => pc'[q] = "create"
  /\ Registered(q)' => Registered(q) \/ WriteFirst(q)
  /\ Up(q)' => Up(q) \/ pc[q] = "unborn"
  /\ pc[q] = "names" /\ Up(q)' => pc'[q] = "names" \/ CheckNames(q)
  /\ pc'[q] = "names" => pc[q] = "names" \/ Launch(q)
  /\ pc'[q] = "ids" => pc[q] = "ids" \/ CheckNames(q)
  /\ pc[q] \in Early /\ Up(q)' => pc'[q] \in Early \/ CheckIds(q)
  /\ Registered(q) /\ Up(q)' => Registered(q)' \/ Refused(q) \/ BeginClose(q)
  /\ before'[q] = before[q] \/ Launch(q)
  /\ pc'[q] = "bind" => \/ pc[q] = "bind"
                        \/ pc[q] = "unlink" /\ sock'[IdOf[q]] = None


\* How a scanner goes on: what it holds of an entry, when it begins, and what
\* it removes without a document.
ScanMoves(a) ==
  /\ \A i \in Ids :
       \/ seen'[a][i] = seen[a][i]
       \/ seen'[a][i] = NoDoc /\ step'[a] \in {"idle", "orphans"}
       \/ /\ Scan(a)
          /\ seen'[a][i] = IF meta[i] \in {NoDoc, None} THEN NoDoc ELSE meta[i]
       \/ /\ seen[a][i] \in Docs /\ ~Up(seen[a][i].owner)
          /\ seen'[a][i] \in Docs /\ seen'[a][i].owner = seen[a][i].owner
  /\ step[a] = "idle" /\ step'[a] # "idle" =>
       Scan(a) /\ (a \in Procs => pc[a] \in Early)
  /\ \A i \in Ids : Doomed(a, i)' =>
       \/ Doomed(a, i)
       \/ Orphan(i) /\ step[a] = "orphans" /\ a \in Cleaners

\* Who may be removing an entry.
Removed(i) ==
  \E c \in Cleaners : \/ step[c] = "prune" /\ i \in todo[c] /\ seen[c][i].path
                      \/ step[c] = i

\* Who changes a document, a directory and a socket, and when.
MetaMoves(i) ==
  \/ meta'[i] = meta[i] /\ ((dir'[i] = "absent") <=> (dir[i] = "absent"))
  \/ Removed(i) /\ meta'[i] = NoDoc /\ dir'[i] = "absent"
  \/ /\ meta'[i] = meta[i] /\ dir[i] = "absent" /\ dir'[i] = "young"
     /\ \E p \in Procs : IdOf[p] = i /\ MakeDir(p)
  \/ /\ dir[i] # "absent" /\ dir'[i] = "young" /\ meta'[i] \in Docs
     /\ \E a \in Actors : /\ seen[a][i] \in Docs /\ step[a] = "reconcile"
                          /\ ~Up(seen[a][i].owner)
                          /\ meta'[i].owner = seen[a][i].owner
  \/ /\ dir[i] # "absent" /\ dir'[i] = "young" /\ meta'[i] \in Docs
     /\ \E p \in Procs :
          /\ meta'[i].owner = p /\ IdOf[p] = i
          /\ Up(p) /\ p \in Registrants'
          /\ pc[p] = "create" \/ p \in Registrants
          /\ Registered(p)' => meta'[i].state # "Exited"

\* How a directory grows old, and who touches a socket.
AgeMoves(i) ==
  dir'[i] = "old" /\ dir[i] # "old" =>
    dir[i] = "young" /\ pc' = pc /\ \A p \in Procs : IdOf[p] = i => pc[p] # "create"
SockMoves(i) ==
  /\ \/ sock'[i] = sock[i]
     \/ Removed(i) /\ sock'[i] = None
     \/ \E p \in Procs :
          /\ IdOf[p] = i /\ pc[p] \in {"unlink", "bind", "unlisten", "unsock"}
          /\ pc'[p] # pc[p]
          /\ IF pc[p] = "bind" THEN sock'[i] = p ELSE sock'[i] = None
  /\ \A p \in bound' \ bound : pc[p] = "bind" /\ sock'[IdOf[p]] = p


\* The types, in three groups.
TypesOfFiles ==
  /\ dir \in [Ids -> {"absent", "young", "old"}]
  /\ meta \in [Ids -> Docs \cup {NoDoc, None}]
  /\ sock \in [Ids -> Procs \cup {None}]
TypesOfProcs ==
  /\ pc \in [Procs -> Starting \cup Serving \cup Closing \cup Down]
  /\ bound \subseteq Procs /\ copy \subseteq Procs
  /\ known \in [Procs -> {"none", "dir", "socket"}]
  /\ before \in [Procs -> SUBSET Procs]
TypesOfScans ==
  /\ step \in [Actors -> Steps \cup Ids]
  /\ seen \in [Actors -> [Ids -> Docs \cup {NoDoc}]]
  /\ todo \in [Actors -> SUBSET Ids]

\* Any step, as the lemmas below take it.
Moves == /\ \A q \in Procs : Onward(q)
         /\ \A a \in Actors : ScanMoves(a)
         /\ \A i \in Ids : MetaMoves(i) /\ AgeMoves(i) /\ SockMoves(i)

-----------------------------------------------------------------------------
\* How each process goes on.
LEMMA PcMoves ==
  ASSUME DirTypeOK, [DirNext]_dirVars
  PROVE  \A q \in Procs : Onward(q)
<1>1. ASSUME NEW p \in Procs,
              TakeCopy(p) \/ WriteCopy(p)
      PROVE  \A q \in Procs : Onward(q)
  BY <1>1
     DEF TakeCopy, WriteCopy, Onward, Registrants, Registered, Up, fileVars,
         procVars, scanVars
<1>2. ASSUME NEW a \in Actors,
              Scan(a) \/ (\E i \in Ids : Reconcile(a, i)) \/ EndReconcile(a)
      PROVE  \A q \in Procs : Onward(q)
  BY <1>2
     DEF Scan, Reconcile, EndReconcile, Onward, Registrants, Registered, Up,
         fileVars, procVars, scanVars
<1>3. ASSUME NEW c \in Cleaners,
              Decide(c) \/ (\E i \in Ids : Prune(c, i)) \/ EndPrune(c) \/
              PruneFails(c) \/ ListOrphans(c) \/
              (\E i \in Ids : ProbeOrphan(c, i) \/ RemoveOrphan(c, i)) \/
              EndOrphans(c)
      PROVE  \A q \in Procs : Onward(q)
  BY <1>3
     DEF Decide, Prune, EndPrune, PruneFails, ListOrphans, ProbeOrphan,
         RemoveOrphan,
         EndOrphans, Onward, Registrants, Registered, Up, fileVars, procVars,
         scanVars
<1>4. ASSUME NEW i \in Ids, Age(i)
      PROVE  \A q \in Procs : Onward(q)
  BY <1>4
     DEF Age, Onward, Registrants, Registered, Up, fileVars, procVars,
         scanVars
<1>5. ASSUME NEW p \in Procs, Launch(p)
      PROVE  \A q \in Procs : Onward(q)
  <2>1. pc[p] = "unborn"
        /\ pc' = [pc EXCEPT ![p] = IF p \in Cli THEN "names" ELSE "owner"]
    BY <1>5 DEF Launch, Goes
  <2>2. \A q \in Procs \ {p} : before'[q] = before[q]
    BY <1>5 DEF Launch, DirTypeOK
  <2> QED
    BY <1>5, <2>1, <2>2
       DEF Onward, Early, DirTypeOK, Registrants, Registered, Up, Starting,
           Serving,
           Closing, Down
<1>6. ASSUME NEW p \in Procs, CheckNames(p)
      PROVE  \A q \in Procs : Onward(q)
  <2>1. /\ pc[p] = "names" /\ before' = before
        /\ \/ pc' = [pc EXCEPT ![p] = "ids"]
           \/ pc' = [pc EXCEPT ![p] = "down"]
    BY <1>6 DEF CheckNames
  <2> QED
    BY <1>6, <2>1
       DEF Onward, Early, DirTypeOK, Registrants, Registered, Up, Starting,
           Serving, Closing, Down
<1>7. ASSUME NEW p \in Procs, CheckIds(p)
      PROVE  \A q \in Procs : Onward(q)
  <2>1. /\ pc[p] = "ids" /\ before' = before
        /\ \/ pc' = [pc EXCEPT ![p] = "owner"]
           \/ pc' = [pc EXCEPT ![p] = "down"]
    BY <1>7 DEF CheckIds
  <2> QED
    BY <1>7, <2>1
       DEF Onward, Early, DirTypeOK, Registrants, Registered, Up, Starting,
           Serving, Closing, Down
<1>8. ASSUME NEW p \in Procs, CheckOwner(p)
      PROVE  \A q \in Procs : Onward(q)
  BY <1>8
     DEF CheckOwner, Goes, Onward, Early, DirTypeOK, Registrants, Registered,
         Up, Starting, Serving, Closing, Down, Refused
<1>9. ASSUME NEW p \in Procs, MakeDir(p)
      PROVE  \A q \in Procs : Onward(q)
  BY <1>9
     DEF MakeDir, Goes, Touch, Onward, Early, DirTypeOK, Registrants,
         Registered, Up, Starting, Serving, Closing, Down, Refused
<1>10. ASSUME NEW p \in Procs, WriteFirst(p)
      PROVE  \A q \in Procs : Onward(q)
  <2>1. /\ pc[p] = "create" /\ before' = before
        /\ \/ pc' = [pc EXCEPT ![p] = "socket"]
           \/ pc' = [pc EXCEPT ![p] = "exit"]
    BY <1>10 DEF WriteFirst, Update, Goes
  <2> QED
    BY <1>10, <2>1
       DEF Onward, Early, DirTypeOK, Registrants, Registered, Up, Starting,
           Serving, Closing, Down
<1>11. ASSUME NEW p \in Procs, NameSocket(p)
      PROVE  \A q \in Procs : Onward(q)
  BY <1>11
     DEF NameSocket, SetStatus, Update, Goes, Write, Touch, Onward, Early,
         DirTypeOK, Registrants, Registered, Up, Starting, Serving, Closing,
         Down, Refused
<1>12. ASSUME NEW p \in Procs, Probe(p)
      PROVE  \A q \in Procs : Onward(q)
  BY <1>12
     DEF Probe, Goes, Onward, Early, DirTypeOK, Registrants, Registered, Up,
         Starting, Serving, Closing, Down, Refused
<1>13. ASSUME NEW p \in Procs, Unlink(p)
      PROVE  \A q \in Procs : Onward(q)
  <2>1. sock'[IdOf[p]] = None
    BY <1>13, DirAssumption DEF Unlink, DirTypeOK
  <2> QED
    BY <1>13, <2>1
       DEF Unlink, Goes, Onward, Early, DirTypeOK, Registrants, Registered, Up,
           Refused, Starting, Serving, Closing, Down
<1>14. ASSUME NEW p \in Procs, Bind(p)
      PROVE  \A q \in Procs : Onward(q)
  BY <1>14
     DEF Bind, Goes, Touch, Onward, Early, DirTypeOK, Registrants, Registered,
         Up, Starting, Serving, Closing, Down, Refused
<1>15. ASSUME NEW p \in Procs, Publish(p)
      PROVE  \A q \in Procs : Onward(q)
  BY <1>15
     DEF Publish, Update, Goes, Write, Touch, Onward, Early, DirTypeOK,
         Registrants, Registered, Up, Starting, Serving, Closing, Down,
         Refused
<1>16. ASSUME NEW p \in Procs, BeginClose(p)
      PROVE  \A q \in Procs : Onward(q)
  <2>1. /\ pc[p] = "serving" /\ before' = before
        /\ pc' = [pc EXCEPT ![p] = "exit"]
    BY <1>16 DEF BeginClose, Goes
  <2> QED
    BY <1>16, <2>1
       DEF Onward, Early, DirTypeOK, Registrants, Registered, Up, Starting,
           Serving, Closing, Down
<1>17. ASSUME NEW p \in Procs, WriteExited(p)
      PROVE  \A q \in Procs : Onward(q)
  BY <1>17
     DEF WriteExited, Goes, Write, Touch, Onward, Early, DirTypeOK,
         Registrants, Registered, Up, Starting, Serving, Closing, Down,
         Refused
<1>18. ASSUME NEW p \in Procs, CloseListener(p)
      PROVE  \A q \in Procs : Onward(q)
  BY <1>18
     DEF CloseListener, Goes, Onward, Early, DirTypeOK, Registrants,
         Registered, Up, Starting, Serving, Closing, Down, Refused
<1>19. ASSUME NEW p \in Procs, RemoveSocket(p)
      PROVE  \A q \in Procs : Onward(q)
  BY <1>19
     DEF RemoveSocket, Goes, SetStatus, Onward, Early, DirTypeOK, Registrants,
         Registered, Up, Starting, Serving, Closing, Down, Refused
<1>20. ASSUME NEW p \in Procs, Crash(p)
      PROVE  \A q \in Procs : Onward(q)
  BY <1>20
     DEF Crash, SetStatus, Onward, Early, DirTypeOK, Registrants, Registered,
         Up, Starting, Serving, Closing, Down, Refused
<1>21. ASSUME UNCHANGED dirVars
      PROVE  \A q \in Procs : Onward(q)
  BY <1>21
     DEF dirVars, Onward, Registrants, Registered, Up, fileVars, procVars,
         scanVars
<1> QED
  BY <1>1, <1>2, <1>3, <1>4, <1>5, <1>6, <1>7, <1>8, <1>9, <1>10, <1>11,
     <1>12, <1>13, <1>14, <1>15, <1>16, <1>17, <1>18, <1>19, <1>20, <1>21
     DEF DirNext, StartStep, CloseStep, CleanStep, Actors

\* How each scanner goes on.
LEMMA ScanKept ==
  ASSUME DirTypeOK, [DirNext]_dirVars
  PROVE  \A b \in Actors : ScanMoves(b)
<1>1. ASSUME NEW p \in Procs,
              Launch(p) \/ CheckOwner(p) \/ MakeDir(p) \/ WriteFirst(p) \/
              NameSocket(p) \/ Probe(p) \/ Unlink(p)
      PROVE  \A b \in Actors : ScanMoves(b)
  BY <1>1
     DEF Launch, CheckOwner, MakeDir, WriteFirst, NameSocket, Probe, Unlink,
         Update, ScanMoves, Doomed, fileVars, procVars, scanVars
<1>2. ASSUME NEW p \in Procs,
              Bind(p) \/ Publish(p) \/ TakeCopy(p) \/ WriteCopy(p) \/
              BeginClose(p) \/ WriteExited(p) \/ CloseListener(p)
      PROVE  \A b \in Actors : ScanMoves(b)
  BY <1>2
     DEF Bind, Publish, TakeCopy, WriteCopy, BeginClose, WriteExited,
         CloseListener, Update, ScanMoves, Doomed, fileVars, procVars, scanVars
<1>3. ASSUME NEW p \in Procs,
              RemoveSocket(p)
      PROVE  \A b \in Actors : ScanMoves(b)
  BY <1>3
     DEF RemoveSocket, ScanMoves, Doomed, fileVars, procVars, scanVars
<1>4. ASSUME NEW i \in Ids, Age(i)
      PROVE  \A b \in Actors : ScanMoves(b)
  BY <1>4
     DEF Age, ScanMoves, Doomed, fileVars, procVars, scanVars
<1>5. ASSUME NEW a \in Actors, Scan(a),
             a \in Procs => pc[a] \in Early
      PROVE  \A b \in Actors : ScanMoves(b)
  <2>1. /\ step[a] = "idle" /\ step' = [step EXCEPT ![a] = "reconcile"]
        /\ \A b \in Actors \ {a} : todo'[b] = todo[b]
        /\ seen' = [seen EXCEPT ![a] = [i \in Ids |->
                       IF meta[i] \in {NoDoc, None} THEN NoDoc ELSE meta[i]]]
    BY <1>5 DEF Scan, DirTypeOK
  <2>2. \A b \in Actors, i \in Ids : Doomed(b, i)' => Doomed(b, i)
    BY <2>1, IdAssumption DEF Doomed, Steps, DirTypeOK
  <2> QED
    BY <1>5, <2>1, <2>2 DEF ScanMoves, DirTypeOK
<1>6. ASSUME NEW a \in Actors, NEW i \in Ids, Reconcile(a, i)
      PROVE  \A b \in Actors : ScanMoves(b)
  <2> DEFINE d == seen[a][i]
             e == [d EXCEPT !.state = "Exited"]
  <2>1. /\ step[a] = "reconcile" /\ step' = step
        /\ \A b \in Actors \ {a} : seen'[b] = seen[b] /\ todo'[b] = todo[b]
    BY <1>6 DEF Reconcile, DirTypeOK
  <2>4. \A b \in Actors, k \in Ids : Doomed(b, k)' => Doomed(b, k)
    BY <2>1, IdAssumption DEF Doomed, Steps
  <2>2. CASE seen' = seen
    BY <2>1, <2>2, <2>4 DEF ScanMoves
  <2>3. CASE Stale(d) /\ seen' = [seen EXCEPT ![a] = [seen[a] EXCEPT ![i] = e]]
    <3>1. d \in Docs /\ e \in Docs /\ e.owner = d.owner /\ ~Up(d.owner)
      BY <1>6, <2>3, DocFacts, AliveIs DEF DirTypeOK, Stale, Active
    <3>2. PICK x \in Docs : /\ x.owner = d.owner
                           /\ seen' = [seen EXCEPT ![a] = [seen[a] EXCEPT ![i] = x]]
      BY <2>3, <3>1, Zenon
    <3>3. \A k \in Ids : \/ seen'[a][k] = seen[a][k]
                         \/ k = i /\ seen'[a][k] = x
      BY <3>2 DEF DirTypeOK
    <3> QED
      BY <2>1, <2>4, <3>1, <3>2, <3>3 DEF ScanMoves
  <2> QED
    BY <1>6, <2>2, <2>3 DEF Reconcile
<1>7. ASSUME NEW a \in Actors, EndReconcile(a)
      PROVE  \A b \in Actors : ScanMoves(b)
  BY <1>7, DocFacts, IdAssumption
     DEF EndReconcile, ScanMoves, DirTypeOK, Doomed, Steps, Actors
<1>8. ASSUME NEW p \in Procs, CheckNames(p)
      PROVE  \A b \in Actors : ScanMoves(b)
  BY <1>8, DocFacts, IdAssumption
     DEF CheckNames, ScanEnds, ScanMoves, DirTypeOK, Doomed, Steps, Actors
<1>9. ASSUME NEW p \in Procs, CheckIds(p)
      PROVE  \A b \in Actors : ScanMoves(b)
  BY <1>9, DocFacts, IdAssumption
     DEF CheckIds, ScanEnds, ScanMoves, DirTypeOK, Doomed, Steps, Actors
<1>10. ASSUME NEW p \in Procs, Crash(p)
      PROVE  \A b \in Actors : ScanMoves(b)
  BY <1>10, DocFacts, IdAssumption
     DEF Crash, SetStatus, ScanMoves, DirTypeOK, Doomed, Steps, Actors
<1>11. ASSUME NEW c \in Cleaners, Decide(c)
      PROVE  \A b \in Actors : ScanMoves(b)
  BY <1>11, DocFacts, IdAssumption
     DEF Decide, ScanEnds, Listed, Active, ScanMoves, DirTypeOK, Doomed,
         Steps, Actors
<1>12. ASSUME NEW c \in Cleaners, NEW i \in Ids, Prune(c, i)
      PROVE  \A b \in Actors : ScanMoves(b)
  BY <1>12, DocFacts, IdAssumption
     DEF Prune, RemoveAll, ScanMoves, DirTypeOK, Doomed, Steps, Actors
<1>13. ASSUME NEW c \in Cleaners, EndPrune(c)
      PROVE  \A b \in Actors : ScanMoves(b)
  BY <1>13, DocFacts, IdAssumption
     DEF EndPrune, ScanEnds, ScanMoves, DirTypeOK, Doomed, Steps, Actors
<1>14. ASSUME NEW c \in Cleaners, PruneFails(c)
      PROVE  \A b \in Actors : ScanMoves(b)
  BY <1>14, DocFacts, IdAssumption
     DEF PruneFails, ScanEnds, ScanMoves, DirTypeOK, Doomed, Steps, Actors
<1>15. ASSUME NEW c \in Cleaners, ListOrphans(c)
      PROVE  \A b \in Actors : ScanMoves(b)
  BY <1>15, DocFacts, IdAssumption
     DEF ListOrphans, Orphan, ScanMoves, DirTypeOK, Doomed, Steps, Actors
<1>16. ASSUME NEW c \in Cleaners, NEW i \in Ids,
              ProbeOrphan(c, i) \/ RemoveOrphan(c, i)
      PROVE  \A b \in Actors : ScanMoves(b)
  BY <1>16, DocFacts, IdAssumption
     DEF ProbeOrphan, RemoveOrphan, RemoveAll, ScanMoves, DirTypeOK, Doomed,
         Steps, Actors
<1>17. ASSUME NEW c \in Cleaners, EndOrphans(c)
      PROVE  \A b \in Actors : ScanMoves(b)
  BY <1>17, DocFacts, IdAssumption
     DEF EndOrphans, ScanMoves, DirTypeOK, Doomed, Steps, Actors
<1>18. ASSUME UNCHANGED dirVars
      PROVE  \A b \in Actors : ScanMoves(b)
  BY <1>18
     DEF dirVars, ScanMoves, Doomed, fileVars, procVars, scanVars
<1> QED
  BY <1>1, <1>2, <1>3, <1>4, <1>5, <1>6, <1>7, <1>8, <1>9, <1>10, <1>11,
     <1>12, <1>13, <1>14, <1>15, <1>16, <1>17, <1>18, DirAssumption
     DEF DirNext, StartStep, CloseStep, CleanStep, Actors, Early

\* The types are kept: the files,
LEMMA FileTypes ==
  ASSUME DirTypeOK, [DirNext]_dirVars
  PROVE  TypesOfFiles'
<1>1. ASSUME NEW p \in Procs,
              Launch(p) \/ CheckNames(p) \/ CheckIds(p) \/ CheckOwner(p) \/
              Probe(p) \/ TakeCopy(p) \/ BeginClose(p)
      PROVE  TypesOfFiles'
  BY <1>1
     DEF Launch, CheckNames, CheckIds, CheckOwner, Probe, TakeCopy,
         BeginClose, TypesOfFiles, DirTypeOK, fileVars, procVars, scanVars
<1>2. ASSUME NEW p \in Procs,
              Crash(p)
      PROVE  TypesOfFiles'
  BY <1>2
     DEF Crash, TypesOfFiles, DirTypeOK, fileVars, procVars, scanVars
<1>3. ASSUME NEW a \in Actors,
              Scan(a) \/ EndReconcile(a)
      PROVE  TypesOfFiles'
  BY <1>3
     DEF Scan, EndReconcile, TypesOfFiles, DirTypeOK, fileVars, procVars,
         scanVars
<1>4. ASSUME NEW c \in Cleaners,
              Decide(c) \/ EndPrune(c) \/ PruneFails(c) \/ ListOrphans(c) \/
              (\E i \in Ids : ProbeOrphan(c, i)) \/ EndOrphans(c)
      PROVE  TypesOfFiles'
  BY <1>4
     DEF Decide, EndPrune, PruneFails, ListOrphans, ProbeOrphan, EndOrphans,
         TypesOfFiles,
         DirTypeOK, fileVars, procVars, scanVars
<1>5. ASSUME NEW a \in Actors, NEW i \in Ids, Reconcile(a, i)
      PROVE  TypesOfFiles'
  <2> DEFINE d == seen[a][i]
             e == [d EXCEPT !.state = "Exited"]
  <2>1. /\ sock' = sock
        /\ \/ meta' = meta /\ dir' = dir
           \/ /\ Stale(d) /\ dir' = [dir EXCEPT ![i] = "young"]
              /\ meta' = [meta EXCEPT ![i] = e]
    BY <1>5 DEF Reconcile, Touch
  <2>2. Stale(d) => e \in Docs
    BY DocFacts DEF DirTypeOK, Stale, Active
  <2>3. CASE meta' = meta /\ dir' = dir
    BY <2>1, <2>3 DEF TypesOfFiles, DirTypeOK
  <2>4. CASE /\ Stale(d) /\ dir' = [dir EXCEPT ![i] = "young"]
             /\ meta' = [meta EXCEPT ![i] = e]
    <3>1. PICK x \in Docs : meta' = [meta EXCEPT ![i] = x]
      BY <2>2, <2>4, Zenon
    <3>2. dir' = [dir EXCEPT ![i] = "young"]
      BY <2>4
    <3> HIDE DEF d, e
    <3> QED
      BY <2>1, <3>1, <3>2 DEF TypesOfFiles, DirTypeOK
  <2> QED
    BY <2>1, <2>3, <2>4
<1>6. ASSUME NEW p \in Procs, MakeDir(p)
      PROVE  TypesOfFiles'
  BY <1>6, DirAssumption
     DEF MakeDir, Goes, Touch, TypesOfFiles, DirTypeOK
<1>7. ASSUME NEW p \in Procs, WriteFirst(p)
      PROVE  TypesOfFiles'
  <2>1. sock' = sock /\ ((meta' = meta /\ dir' = dir) \/ Write(p, "Initializing"))
    BY <1>7 DEF WriteFirst, Update
  <2>2. CASE Write(p, "Initializing")
    BY <2>1, <2>2, WriteLeaves, DirAssumption DEF TypesOfFiles, DirTypeOK,
           States
  <2> QED
    BY <2>1, <2>2 DEF TypesOfFiles, DirTypeOK
<1>8. ASSUME NEW p \in Procs, NameSocket(p)
      PROVE  TypesOfFiles'
  <2>1. sock' = sock /\ ((meta' = meta /\ dir' = dir) \/ Write(p, "Initializing"))
    BY <1>8 DEF NameSocket, Update
  <2>2. CASE Write(p, "Initializing")
    BY <2>1, <2>2, WriteLeaves, DirAssumption DEF TypesOfFiles, DirTypeOK,
           States
  <2> QED
    BY <2>1, <2>2 DEF TypesOfFiles, DirTypeOK
<1>9. ASSUME NEW p \in Procs, Unlink(p)
      PROVE  TypesOfFiles'
  BY <1>9, DirAssumption
     DEF Unlink, Goes, TypesOfFiles, DirTypeOK
<1>10. ASSUME NEW p \in Procs, Bind(p)
      PROVE  TypesOfFiles'
  <2> DEFINE k == IdOf[p]
  <2>1. k \in Ids
    BY DirAssumption
  <2>2. CASE /\ sock' = [sock EXCEPT ![k] = p]
             /\ dir' = [dir EXCEPT ![k] = "young"]
    BY <1>10, <2>1, <2>2 DEF Bind, TypesOfFiles, DirTypeOK
  <2>3. CASE sock' = sock /\ dir' = dir
    BY <1>10, <2>3 DEF Bind, TypesOfFiles, DirTypeOK
  <2> QED
    BY <1>10, <2>2, <2>3 DEF Bind, Touch
<1>11. ASSUME NEW p \in Procs, Publish(p)
      PROVE  TypesOfFiles'
  <2>1. sock' = sock /\ ((meta' = meta /\ dir' = dir) \/ Write(p, "Initializing"))
    BY <1>11 DEF Publish, Update
  <2>2. CASE Write(p, "Initializing")
    BY <2>1, <2>2, WriteLeaves, DirAssumption DEF TypesOfFiles, DirTypeOK,
           States
  <2> QED
    BY <2>1, <2>2 DEF TypesOfFiles, DirTypeOK
<1>12. ASSUME NEW p \in Procs, WriteCopy(p)
      PROVE  TypesOfFiles'
  <2>1. sock' = sock /\ ((meta' = meta /\ dir' = dir) \/ Write(p, "Ready"))
    BY <1>12 DEF WriteCopy
  <2>2. CASE Write(p, "Ready")
    BY <2>1, <2>2, WriteLeaves, DirAssumption DEF TypesOfFiles, DirTypeOK,
           States
  <2> QED
    BY <2>1, <2>2 DEF TypesOfFiles, DirTypeOK
<1>13. ASSUME NEW p \in Procs, WriteExited(p)
      PROVE  TypesOfFiles'
  <2>1. sock' = sock /\ ((meta' = meta /\ dir' = dir) \/ Write(p, "Exited"))
    BY <1>13 DEF WriteExited
  <2>2. CASE Write(p, "Exited")
    <3>1. PICK x \in Docs : /\ meta' = [meta EXCEPT ![IdOf[p]] = x]
                            /\ dir' = [dir EXCEPT ![IdOf[p]] = "young"]
      BY <2>2, WriteLeaves DEF States
    <3> QED
      BY <2>1, <3>1, DirAssumption DEF TypesOfFiles, DirTypeOK
  <2> QED
    BY <2>1, <2>2 DEF TypesOfFiles, DirTypeOK
<1>14. ASSUME NEW p \in Procs, CloseListener(p)
      PROVE  TypesOfFiles'
  BY <1>14, DirAssumption
     DEF CloseListener, Goes, TypesOfFiles, DirTypeOK
<1>15. ASSUME NEW p \in Procs, RemoveSocket(p)
      PROVE  TypesOfFiles'
  BY <1>15, DirAssumption
     DEF RemoveSocket, Goes, SetStatus, TypesOfFiles, DirTypeOK
<1>16. ASSUME NEW c \in Cleaners, NEW i \in Ids, Prune(c, i)
      PROVE  TypesOfFiles'
  <2>1. CASE RemoveAll(i)
    BY <2>1 DEF RemoveAll, TypesOfFiles, DirTypeOK
  <2>2. CASE ~RemoveAll(i)
    BY <1>16, <2>2 DEF Prune, fileVars, TypesOfFiles, DirTypeOK
  <2> QED
    BY <2>1, <2>2
<1>17. ASSUME NEW c \in Cleaners, NEW i \in Ids, RemoveOrphan(c, i)
      PROVE  TypesOfFiles'
  <2>1. CASE RemoveAll(i)
    BY <2>1 DEF RemoveAll, TypesOfFiles, DirTypeOK
  <2>2. CASE ~RemoveAll(i)
    BY <1>17, <2>2 DEF ProbeOrphan, RemoveOrphan, fileVars, TypesOfFiles,
           DirTypeOK
  <2> QED
    BY <2>1, <2>2
<1>18. ASSUME NEW i \in Ids, Age(i)
      PROVE  TypesOfFiles'
  BY <1>18, DirAssumption
     DEF Age, TypesOfFiles, DirTypeOK
<1>19. ASSUME UNCHANGED dirVars
      PROVE  TypesOfFiles'
  BY <1>19
     DEF dirVars, TypesOfFiles, DirTypeOK, fileVars, procVars, scanVars
<1> QED
  BY <1>1, <1>2, <1>3, <1>4, <1>5, <1>6, <1>7, <1>8, <1>9, <1>10, <1>11,
     <1>12, <1>13, <1>14, <1>15, <1>16, <1>17, <1>18, <1>19
     DEF DirNext, StartStep, CloseStep, CleanStep, Actors

\* the processes,
LEMMA ProcTypes ==
  ASSUME DirTypeOK, [DirNext]_dirVars
  PROVE  TypesOfProcs'
<1>1. ASSUME NEW a \in Actors,
              Scan(a) \/ (\E i \in Ids : Reconcile(a, i)) \/ EndReconcile(a)
      PROVE  TypesOfProcs'
  BY <1>1
     DEF Scan, Reconcile, EndReconcile, TypesOfProcs, DirTypeOK, fileVars,
         procVars, scanVars
<1>2. ASSUME NEW c \in Cleaners,
              Decide(c) \/ (\E i \in Ids : Prune(c, i)) \/ EndPrune(c) \/
              PruneFails(c) \/ ListOrphans(c) \/
              (\E i \in Ids : ProbeOrphan(c, i) \/ RemoveOrphan(c, i)) \/
              EndOrphans(c)
      PROVE  TypesOfProcs'
  BY <1>2
     DEF Decide, Prune, EndPrune, PruneFails, ListOrphans, ProbeOrphan,
         RemoveOrphan,
         EndOrphans, TypesOfProcs, DirTypeOK, fileVars, procVars, scanVars
<1>3. ASSUME NEW i \in Ids, Age(i)
      PROVE  TypesOfProcs'
  BY <1>3
     DEF Age, TypesOfProcs, DirTypeOK, fileVars, procVars, scanVars
<1>4. ASSUME NEW p \in Procs, Launch(p)
      PROVE  TypesOfProcs'
  BY <1>4, DirAssumption
     DEF Launch, Goes, MayStart, TypesOfProcs, DirTypeOK, Starting, Serving,
         Closing, Down
<1>5. ASSUME NEW p \in Procs, CheckNames(p)
      PROVE  TypesOfProcs'
  BY <1>5, DirAssumption
     DEF CheckNames, ScanEnds, TypesOfProcs, DirTypeOK, Starting, Serving,
         Closing, Down
<1>6. ASSUME NEW p \in Procs, CheckIds(p)
      PROVE  TypesOfProcs'
  BY <1>6, DirAssumption
     DEF CheckIds, ScanEnds, TypesOfProcs, DirTypeOK, Starting, Serving,
         Closing, Down
<1>7. ASSUME NEW p \in Procs, CheckOwner(p)
      PROVE  TypesOfProcs'
  BY <1>7, DirAssumption
     DEF CheckOwner, Goes, TypesOfProcs, DirTypeOK, Starting, Serving,
         Closing, Down
<1>8. ASSUME NEW p \in Procs, MakeDir(p)
      PROVE  TypesOfProcs'
  BY <1>8, DirAssumption
     DEF MakeDir, Goes, Touch, TypesOfProcs, DirTypeOK, Starting, Serving,
         Closing, Down
<1>9. ASSUME NEW p \in Procs, WriteFirst(p)
      PROVE  TypesOfProcs'
  BY <1>9, DirAssumption
     DEF WriteFirst, SetStatus, Update, Goes, Write, Touch, TypesOfProcs,
         DirTypeOK, Starting, Serving, Closing, Down
<1>10. ASSUME NEW p \in Procs, NameSocket(p)
      PROVE  TypesOfProcs'
  BY <1>10, DirAssumption
     DEF NameSocket, SetStatus, Update, Goes, Write, Touch, TypesOfProcs,
         DirTypeOK, Starting, Serving, Closing, Down
<1>11. ASSUME NEW p \in Procs, Probe(p)
      PROVE  TypesOfProcs'
  BY <1>11, DirAssumption
     DEF Probe, Goes, TypesOfProcs, DirTypeOK, Starting, Serving, Closing,
         Down
<1>12. ASSUME NEW p \in Procs, Unlink(p)
      PROVE  TypesOfProcs'
  BY <1>12, DirAssumption
     DEF Unlink, Goes, TypesOfProcs, DirTypeOK, Starting, Serving, Closing,
         Down
<1>13. ASSUME NEW p \in Procs, Bind(p)
      PROVE  TypesOfProcs'
  BY <1>13, DirAssumption
     DEF Bind, Goes, Touch, TypesOfProcs, DirTypeOK, Starting, Serving,
         Closing, Down
<1>14. ASSUME NEW p \in Procs, Publish(p)
      PROVE  TypesOfProcs'
  BY <1>14, DirAssumption
     DEF Publish, Update, Goes, Write, Touch, TypesOfProcs, DirTypeOK,
         Starting, Serving, Closing, Down
<1>15. ASSUME NEW p \in Procs, TakeCopy(p)
      PROVE  TypesOfProcs'
  BY <1>15, DirAssumption
     DEF TakeCopy, TypesOfProcs, DirTypeOK, Starting, Serving, Closing, Down
<1>16. ASSUME NEW p \in Procs, WriteCopy(p)
      PROVE  TypesOfProcs'
  BY <1>16, DirAssumption
     DEF WriteCopy, Write, Touch, TypesOfProcs, DirTypeOK, Starting, Serving,
         Closing, Down
<1>17. ASSUME NEW p \in Procs, BeginClose(p)
      PROVE  TypesOfProcs'
  BY <1>17, DirAssumption
     DEF BeginClose, Goes, TypesOfProcs, DirTypeOK, Starting, Serving,
         Closing, Down
<1>18. ASSUME NEW p \in Procs, WriteExited(p)
      PROVE  TypesOfProcs'
  BY <1>18, DirAssumption
     DEF WriteExited, Goes, Write, Touch, TypesOfProcs, DirTypeOK, Starting,
         Serving, Closing, Down
<1>19. ASSUME NEW p \in Procs, CloseListener(p)
      PROVE  TypesOfProcs'
  BY <1>19, DirAssumption
     DEF CloseListener, Goes, TypesOfProcs, DirTypeOK, Starting, Serving,
         Closing, Down
<1>20. ASSUME NEW p \in Procs, RemoveSocket(p)
      PROVE  TypesOfProcs'
  BY <1>20, DirAssumption
     DEF RemoveSocket, Goes, SetStatus, TypesOfProcs, DirTypeOK, Starting,
         Serving, Closing, Down
<1>21. ASSUME NEW p \in Procs, Crash(p)
      PROVE  TypesOfProcs'
  BY <1>21, DirAssumption
     DEF Crash, SetStatus, TypesOfProcs, DirTypeOK, Starting, Serving,
         Closing, Down
<1>22. ASSUME UNCHANGED dirVars
      PROVE  TypesOfProcs'
  BY <1>22
     DEF dirVars, TypesOfProcs, DirTypeOK, fileVars, procVars, scanVars
<1> QED
  BY <1>1, <1>2, <1>3, <1>4, <1>5, <1>6, <1>7, <1>8, <1>9, <1>10, <1>11,
     <1>12, <1>13, <1>14, <1>15, <1>16, <1>17, <1>18, <1>19, <1>20, <1>21,
     <1>22
     DEF DirNext, StartStep, CloseStep, CleanStep, Actors

\* and the scans.
LEMMA ScanTypes ==
  ASSUME DirTypeOK, [DirNext]_dirVars
  PROVE  TypesOfScans'
<1>1. ASSUME NEW p \in Procs,
              Launch(p) \/ CheckOwner(p) \/ MakeDir(p) \/ WriteFirst(p) \/
              NameSocket(p) \/ Probe(p) \/ Unlink(p)
      PROVE  TypesOfScans'
  BY <1>1
     DEF Launch, CheckOwner, MakeDir, WriteFirst, NameSocket, Probe, Unlink,
         Update, TypesOfScans, DirTypeOK, Steps, fileVars, procVars, scanVars
<1>2. ASSUME NEW p \in Procs,
              Bind(p) \/ Publish(p) \/ TakeCopy(p) \/ WriteCopy(p) \/
              BeginClose(p) \/ WriteExited(p) \/ CloseListener(p)
      PROVE  TypesOfScans'
  BY <1>2
     DEF Bind, Publish, TakeCopy, WriteCopy, BeginClose, WriteExited,
         CloseListener, Update, TypesOfScans, DirTypeOK, Steps, fileVars, procVars,
         scanVars
<1>3. ASSUME NEW p \in Procs,
              RemoveSocket(p)
      PROVE  TypesOfScans'
  BY <1>3
     DEF RemoveSocket, TypesOfScans, DirTypeOK, Steps, fileVars, procVars,
         scanVars
<1>4. ASSUME NEW i \in Ids, Age(i)
      PROVE  TypesOfScans'
  BY <1>4
     DEF Age, TypesOfScans, DirTypeOK, Steps, fileVars, procVars, scanVars
<1>5. ASSUME NEW a \in Actors, Scan(a)
      PROVE  TypesOfScans'
  BY <1>5
     DEF Scan, MayScan, Early, Starting, TypesOfScans, DirTypeOK, Steps, Actors
<1>6. ASSUME NEW a \in Actors, NEW i \in Ids, Reconcile(a, i)
      PROVE  TypesOfScans'
  <2> DEFINE d == seen[a][i]
             e == [d EXCEPT !.state = "Exited"]
  <2>1. /\ step' = step /\ todo' = [todo EXCEPT ![a] = todo[a] \ {i}]
        /\ \/ seen' = seen
           \/ Stale(d) /\ seen' = [seen EXCEPT ![a] = [seen[a] EXCEPT ![i] = e]]
    BY <1>6 DEF Reconcile
  <2>2. CASE seen' = seen
    BY <2>1, <2>2 DEF TypesOfScans, DirTypeOK, Steps
  <2>3. CASE Stale(d) /\ seen' = [seen EXCEPT ![a] = [seen[a] EXCEPT ![i] = e]]
    <3>1. e \in Docs
      BY <2>3, DocFacts DEF DirTypeOK, Stale, Active
    <3>2. PICK x \in Docs : seen' = [seen EXCEPT ![a] = [seen[a] EXCEPT ![i] = x]]
      BY <2>3, <3>1, Zenon
    <3> QED
      BY <2>1, <3>2 DEF TypesOfScans, DirTypeOK, Steps
  <2> QED
    BY <2>1, <2>2, <2>3
<1>7. ASSUME NEW a \in Actors, EndReconcile(a)
      PROVE  TypesOfScans'
  BY <1>7
     DEF EndReconcile, TypesOfScans, DirTypeOK, Steps, Actors
<1>8. ASSUME NEW p \in Procs, CheckNames(p)
      PROVE  TypesOfScans'
  BY <1>8
     DEF CheckNames, ScanEnds, TypesOfScans, DirTypeOK, Steps, Actors
<1>9. ASSUME NEW p \in Procs, CheckIds(p)
      PROVE  TypesOfScans'
  BY <1>9
     DEF CheckIds, ScanEnds, TypesOfScans, DirTypeOK, Steps, Actors
<1>10. ASSUME NEW p \in Procs, Crash(p)
      PROVE  TypesOfScans'
  BY <1>10
     DEF Crash, SetStatus, TypesOfScans, DirTypeOK, Steps, Actors
<1>11. ASSUME NEW c \in Cleaners, Decide(c)
      PROVE  TypesOfScans'
  <2>1. /\ \/ step' = [step EXCEPT ![c] = "idle"]
           \/ step' = [step EXCEPT ![c] = "prune"]
        /\ seen' = seen \/ seen' = [seen EXCEPT ![c] = [i \in Ids |-> NoDoc]]
    BY <1>11 DEF Decide, ScanEnds
  <2>2. todo' = todo \/ \E S \in SUBSET Ids : todo' = [todo EXCEPT ![c] = S]
    BY <1>11 DEF Decide
  <2>3. step' \in [Actors -> Steps \cup Ids]
    BY <2>1 DEF DirTypeOK, Steps
  <2>4. seen' \in [Actors -> [Ids -> Docs \cup {NoDoc}]]
    BY <2>1 DEF DirTypeOK
  <2>5. todo' \in [Actors -> SUBSET Ids]
    BY <2>2 DEF DirTypeOK
  <2> QED
    BY <2>3, <2>4, <2>5 DEF TypesOfScans
<1>12. ASSUME NEW c \in Cleaners, NEW i \in Ids, Prune(c, i)
      PROVE  TypesOfScans'
  BY <1>12
     DEF Prune, RemoveAll, TypesOfScans, DirTypeOK, Steps, Actors
<1>13. ASSUME NEW c \in Cleaners, EndPrune(c)
      PROVE  TypesOfScans'
  BY <1>13
     DEF EndPrune, ScanEnds, TypesOfScans, DirTypeOK, Steps, Actors
<1>14. ASSUME NEW c \in Cleaners, PruneFails(c)
      PROVE  TypesOfScans'
  BY <1>14
     DEF PruneFails, ScanEnds, TypesOfScans, DirTypeOK, Steps, Actors
<1>15. ASSUME NEW c \in Cleaners, ListOrphans(c)
      PROVE  TypesOfScans'
  BY <1>15
     DEF ListOrphans, Orphan, TypesOfScans, DirTypeOK, Steps, Actors
<1>16. ASSUME NEW c \in Cleaners, NEW i \in Ids,
              ProbeOrphan(c, i) \/ RemoveOrphan(c, i)
      PROVE  TypesOfScans'
  <2>1. CASE ProbeOrphan(c, i)
    <3>1. /\ step' = step \/ step' = [step EXCEPT ![c] = i]
          /\ seen' = seen /\ todo' = [todo EXCEPT ![c] = todo[c] \ {i}]
      BY <2>1 DEF ProbeOrphan
    <3>2. step' \in [Actors -> Steps \cup Ids]
      BY <3>1 DEF DirTypeOK
    <3>3. todo' \in [Actors -> SUBSET Ids]
      BY <3>1 DEF DirTypeOK
    <3> QED
      BY <3>1, <3>2, <3>3 DEF TypesOfScans, DirTypeOK
  <2>2. CASE RemoveOrphan(c, i)
    BY <2>2 DEF RemoveOrphan, TypesOfScans, DirTypeOK, Steps
  <2> QED
    BY <1>16, <2>1, <2>2
<1>17. ASSUME NEW c \in Cleaners, EndOrphans(c)
      PROVE  TypesOfScans'
  BY <1>17
     DEF EndOrphans, TypesOfScans, DirTypeOK, Steps, Actors
<1>18. ASSUME UNCHANGED dirVars
      PROVE  TypesOfScans'
  BY <1>18
     DEF dirVars, TypesOfScans, DirTypeOK, Steps, fileVars, procVars, scanVars
<1> QED
  BY <1>1, <1>2, <1>3, <1>4, <1>5, <1>6, <1>7, <1>8, <1>9, <1>10, <1>11,
     <1>12, <1>13, <1>14, <1>15, <1>16, <1>17, <1>18
     DEF DirNext, StartStep, CloseStep, CleanStep, Actors

\* What a process has at each stage.
LEMMA StagedKept ==
  ASSUME DirTypeOK, Staged, [DirNext]_dirVars
  PROVE  Staged'
<1>1. ASSUME NEW a \in Actors,
              (\E i \in Ids : Reconcile(a, i))
      PROVE  Staged'
  BY <1>1
     DEF Reconcile, Staged, fileVars, procVars, scanVars
<1>2. ASSUME NEW c \in Cleaners, NEW i \in Ids,
              Prune(c, i) \/ ProbeOrphan(c, i) \/ RemoveOrphan(c, i)
      PROVE  Staged'
  <2>1. /\ UNCHANGED procVars
        /\ \A p \in Procs : step'[p] = step[p]
    BY <1>2, DirAssumption DEF Prune, ProbeOrphan, RemoveOrphan, DirTypeOK,
           Actors
  <2> QED
    BY <2>1 DEF Staged, procVars
<1>3. ASSUME NEW i \in Ids, Age(i)
      PROVE  Staged'
  BY <1>3
     DEF Age, Staged, fileVars, procVars, scanVars
<1>4. ASSUME NEW p \in Procs, Launch(p)
      PROVE  Staged'
  BY <1>4, DirAssumption
     DEF Launch, Goes, MayStart, Staged, DirTypeOK, Closing, Early, Actors,
         procVars, scanVars
<1>5. ASSUME NEW a \in Actors, Scan(a),
             a \in Procs => pc[a] \in Early
      PROVE  Staged'
  BY <1>5, DirAssumption
     DEF Scan, MayScan, Early, Staged, DirTypeOK, Closing,
         Actors, procVars, scanVars
<1>6. ASSUME NEW a \in Actors, EndReconcile(a)
      PROVE  Staged'
  BY <1>6, DirAssumption
     DEF EndReconcile, Staged, DirTypeOK, Closing, Early, Actors, procVars,
         scanVars
<1>7. ASSUME NEW p \in Procs, CheckNames(p)
      PROVE  Staged'
  BY <1>7, DirAssumption
     DEF CheckNames, ScanEnds, Staged, DirTypeOK, Closing, Early, Actors,
         procVars, scanVars
<1>8. ASSUME NEW p \in Procs, CheckIds(p)
      PROVE  Staged'
  BY <1>8, DirAssumption
     DEF CheckIds, ScanEnds, Staged, DirTypeOK, Closing, Early, Actors,
         procVars, scanVars
<1>9. ASSUME NEW p \in Procs, CheckOwner(p)
      PROVE  Staged'
  BY <1>9, DirAssumption
     DEF CheckOwner, Goes, Staged, DirTypeOK, Closing, Early, Actors,
         procVars, scanVars
<1>10. ASSUME NEW p \in Procs, MakeDir(p)
      PROVE  Staged'
  BY <1>10, DirAssumption
     DEF MakeDir, Goes, Touch, Staged, DirTypeOK, Closing, Early, Actors,
         procVars, scanVars
<1>11. ASSUME NEW p \in Procs, WriteFirst(p)
      PROVE  Staged'
  <2>1. /\ pc[p] = "create"
        /\ \/ pc' = [pc EXCEPT ![p] = "socket"]
           \/ pc' = [pc EXCEPT ![p] = "exit"]
        /\ bound' = bound /\ copy' = copy /\ step' = step
    BY <1>11 DEF WriteFirst, Update, Goes, scanVars
  <2> QED
    BY <2>1 DEF Staged, DirTypeOK, Closing, Early
<1>12. ASSUME NEW p \in Procs, NameSocket(p)
      PROVE  Staged'
  <2>1. /\ pc[p] = "socket"
        /\ \/ pc' = [pc EXCEPT ![p] = "probe"]
           \/ pc' = [pc EXCEPT ![p] = "exit"]
        /\ bound' = bound /\ copy' = copy /\ step' = step
    BY <1>12 DEF NameSocket, Update, Goes, scanVars
  <2> QED
    BY <2>1 DEF Staged, DirTypeOK, Closing, Early
<1>13. ASSUME NEW p \in Procs, Probe(p)
      PROVE  Staged'
  BY <1>13, DirAssumption
     DEF Probe, Goes, Staged, DirTypeOK, Closing, Early, Actors, procVars,
         scanVars
<1>14. ASSUME NEW p \in Procs, Unlink(p)
      PROVE  Staged'
  BY <1>14, DirAssumption
     DEF Unlink, Goes, Staged, DirTypeOK, Closing, Early, Actors, procVars,
         scanVars
<1>15. ASSUME NEW p \in Procs, Bind(p)
      PROVE  Staged'
  <2>1. /\ pc[p] = "bind" /\ copy' = copy /\ step' = step
        /\ \/ pc' = [pc EXCEPT ![p] = "publish"] /\ bound' = bound \cup {p}
           \/ pc' = [pc EXCEPT ![p] = "exit"] /\ bound' = bound
    BY <1>15 DEF Bind, Goes, scanVars
  <2> QED
    BY <2>1 DEF Staged, DirTypeOK, Closing, Early
<1>16. ASSUME NEW p \in Procs, Publish(p)
      PROVE  Staged'
  <2>1. /\ pc[p] = "publish"
        /\ \/ pc' = [pc EXCEPT ![p] = "serving"]
           \/ pc' = [pc EXCEPT ![p] = "exit"]
        /\ bound' = bound /\ copy' = copy /\ step' = step
    BY <1>16 DEF Publish, Update, Goes, scanVars
  <2> QED
    BY <2>1 DEF Staged, DirTypeOK, Closing, Early
<1>17. ASSUME NEW p \in Procs, TakeCopy(p)
      PROVE  Staged'
  BY <1>17, DirAssumption
     DEF TakeCopy, Staged, DirTypeOK, Closing, Early, Actors, procVars,
         scanVars
<1>18. ASSUME NEW p \in Procs, WriteCopy(p)
      PROVE  Staged'
  BY <1>18, DirAssumption
     DEF WriteCopy, Write, Touch, Staged, DirTypeOK, Closing, Early, Actors,
         procVars, scanVars
<1>19. ASSUME NEW p \in Procs, BeginClose(p)
      PROVE  Staged'
  BY <1>19, DirAssumption
     DEF BeginClose, Goes, Staged, DirTypeOK, Closing, Early, Actors,
         procVars, scanVars
<1>20. ASSUME NEW p \in Procs, WriteExited(p)
      PROVE  Staged'
  BY <1>20, DirAssumption
     DEF WriteExited, Goes, Write, Touch, Staged, DirTypeOK, Closing, Early,
         Actors, procVars, scanVars
<1>21. ASSUME NEW p \in Procs, CloseListener(p)
      PROVE  Staged'
  BY <1>21, DirAssumption
     DEF CloseListener, Goes, Staged, DirTypeOK, Closing, Early, Actors,
         procVars, scanVars
<1>22. ASSUME NEW p \in Procs, RemoveSocket(p)
      PROVE  Staged'
  BY <1>22, DirAssumption
     DEF RemoveSocket, Goes, SetStatus, Staged, DirTypeOK, Closing, Early,
         Actors, procVars, scanVars
<1>23. ASSUME NEW p \in Procs, Crash(p)
      PROVE  Staged'
  BY <1>23, DirAssumption
     DEF Crash, SetStatus, Staged, DirTypeOK, Closing, Early, Actors,
         procVars, scanVars
<1>24. ASSUME NEW c \in Cleaners, Decide(c)
      PROVE  Staged'
  BY <1>24, DirAssumption
     DEF Decide, ScanEnds, Listed, Active, Staged, DirTypeOK, Closing, Early,
         Actors, procVars, scanVars
<1>25. ASSUME NEW c \in Cleaners, EndPrune(c)
      PROVE  Staged'
  BY <1>25, DirAssumption
     DEF EndPrune, ScanEnds, Staged, DirTypeOK, Closing, Early, Actors,
         procVars, scanVars
<1>26. ASSUME NEW c \in Cleaners, PruneFails(c)
      PROVE  Staged'
  BY <1>26, DirAssumption
     DEF PruneFails, ScanEnds, Staged, DirTypeOK, Closing, Early, Actors,
         procVars, scanVars
<1>27. ASSUME NEW c \in Cleaners, ListOrphans(c)
      PROVE  Staged'
  BY <1>27, DirAssumption
     DEF ListOrphans, Orphan, Staged, DirTypeOK, Closing, Early, Actors,
         procVars, scanVars
<1>28. ASSUME NEW c \in Cleaners, EndOrphans(c)
      PROVE  Staged'
  BY <1>28, DirAssumption
     DEF EndOrphans, Staged, DirTypeOK, Closing, Early, Actors, procVars,
         scanVars
<1>29. ASSUME UNCHANGED dirVars
      PROVE  Staged'
  BY <1>29
     DEF dirVars, Staged, fileVars, procVars, scanVars
<1> QED
  BY <1>1, <1>2, <1>3, <1>4, <1>5, <1>6, <1>7, <1>8, <1>9, <1>10, <1>11,
     <1>12, <1>13, <1>14, <1>15, <1>16, <1>17, <1>18, <1>19, <1>20, <1>21,
     <1>22, <1>23, <1>24, <1>25, <1>26, <1>27, <1>28, <1>29, DirAssumption
     DEF DirNext, StartStep, CloseStep, CleanStep, Actors, Early

\* What a scanner holds at each stage.
LEMMA ScannedKept ==
  ASSUME DirTypeOK, Staged, Scanned, [DirNext]_dirVars
  PROVE  Scanned'
<1>1. ASSUME NEW p \in Procs,
              Launch(p) \/ CheckOwner(p) \/ MakeDir(p) \/ WriteFirst(p) \/
              NameSocket(p) \/ Probe(p) \/ Unlink(p)
      PROVE  Scanned'
  BY <1>1
     DEF Launch, CheckOwner, MakeDir, WriteFirst, NameSocket, Probe, Unlink,
         Update, Scanned, fileVars, procVars, scanVars
<1>2. ASSUME NEW p \in Procs,
              Bind(p) \/ Publish(p) \/ TakeCopy(p) \/ WriteCopy(p) \/
              BeginClose(p) \/ WriteExited(p) \/ CloseListener(p)
      PROVE  Scanned'
  BY <1>2
     DEF Bind, Publish, TakeCopy, WriteCopy, BeginClose, WriteExited,
         CloseListener, Update, Scanned, fileVars, procVars, scanVars
<1>3. ASSUME NEW p \in Procs,
              RemoveSocket(p)
      PROVE  Scanned'
  BY <1>3
     DEF RemoveSocket, Scanned, fileVars, procVars, scanVars
<1>4. ASSUME NEW i \in Ids, Age(i)
      PROVE  Scanned'
  BY <1>4
     DEF Age, Scanned, fileVars, procVars, scanVars
<1>5. ASSUME NEW a \in Actors, Scan(a)
      PROVE  Scanned'
  BY <1>5, DocFacts, IdAssumption
     DEF Scan, MayScan, Early, Starting, Scanned, DirTypeOK, Steps, Actors
<1>6. ASSUME NEW a \in Actors, NEW i \in Ids, Reconcile(a, i)
      PROVE  Scanned'
  BY <1>6, DocFacts, IdAssumption
     DEF Reconcile, Touch, Stale, Active, Scanned, DirTypeOK, Steps, Actors
<1>7. ASSUME NEW a \in Actors, EndReconcile(a)
      PROVE  Scanned'
  BY <1>7, DocFacts, IdAssumption
     DEF EndReconcile, Scanned, DirTypeOK, Steps, Actors
<1>8. ASSUME NEW p \in Procs, CheckNames(p)
      PROVE  Scanned'
  BY <1>8, DocFacts, IdAssumption
     DEF CheckNames, ScanEnds, Scanned, DirTypeOK, Steps, Actors
<1>9. ASSUME NEW p \in Procs, CheckIds(p)
      PROVE  Scanned'
  BY <1>9, DocFacts, IdAssumption
     DEF CheckIds, ScanEnds, Scanned, DirTypeOK, Steps, Actors
<1>10. ASSUME NEW p \in Procs, Crash(p)
      PROVE  Scanned'
  BY <1>10, DocFacts, IdAssumption
     DEF Crash, SetStatus, Scanned, DirTypeOK, Steps, Actors
<1>11. ASSUME NEW c \in Cleaners, Decide(c)
      PROVE  Scanned'
  BY <1>11, DocFacts, IdAssumption
     DEF Decide, ScanEnds, Listed, Active, Scanned, DirTypeOK, Steps, Actors
<1>12. ASSUME NEW c \in Cleaners, NEW i \in Ids, Prune(c, i)
      PROVE  Scanned'
  BY <1>12, DocFacts, IdAssumption
     DEF Prune, RemoveAll, Scanned, DirTypeOK, Steps, Actors
<1>13. ASSUME NEW c \in Cleaners, EndPrune(c)
      PROVE  Scanned'
  BY <1>13, DocFacts, IdAssumption
     DEF EndPrune, ScanEnds, Scanned, DirTypeOK, Steps, Actors
<1>14. ASSUME NEW c \in Cleaners, PruneFails(c)
      PROVE  Scanned'
  BY <1>14, DocFacts, IdAssumption
     DEF PruneFails, ScanEnds, Scanned, DirTypeOK, Steps, Actors
<1>15. ASSUME NEW c \in Cleaners, ListOrphans(c)
      PROVE  Scanned'
  BY <1>15, DocFacts, IdAssumption
     DEF ListOrphans, Orphan, Scanned, DirTypeOK, Steps, Actors
<1>16. ASSUME NEW c \in Cleaners, NEW i \in Ids,
              ProbeOrphan(c, i) \/ RemoveOrphan(c, i)
      PROVE  Scanned'
  <2>1. /\ seen' = seen /\ step[c] \in {"remove"} \cup Ids
        /\ step'[c] \in {"remove"} \cup Ids
        /\ \A a \in Actors \ {c} : step'[a] = step[a] /\ todo'[a] = todo[a]
    BY <1>16 DEF ProbeOrphan, RemoveOrphan, DirTypeOK, Actors
  <2> QED
    BY <2>1, IdAssumption DEF Scanned, Steps
<1>17. ASSUME NEW c \in Cleaners, EndOrphans(c)
      PROVE  Scanned'
  BY <1>17, DocFacts, IdAssumption
     DEF EndOrphans, Scanned, DirTypeOK, Steps, Actors
<1>18. ASSUME UNCHANGED dirVars
      PROVE  Scanned'
  BY <1>18
     DEF dirVars, Scanned, fileVars, procVars, scanVars
<1> QED
  BY <1>1, <1>2, <1>3, <1>4, <1>5, <1>6, <1>7, <1>8, <1>9, <1>10, <1>11,
     <1>12, <1>13, <1>14, <1>15, <1>16, <1>17, <1>18
     DEF DirNext, StartStep, CloseStep, CleanStep, Actors

\* Who changes each document.
LEMMA MetaKept ==
  ASSUME DirTypeOK, Staged, [DirNext]_dirVars
  PROVE  \A k \in Ids : MetaMoves(k)
<1>1. ASSUME NEW p \in Procs,
              Launch(p) \/ CheckNames(p) \/ CheckIds(p) \/ CheckOwner(p) \/
              Probe(p) \/ Unlink(p) \/ TakeCopy(p)
      PROVE  \A k \in Ids : MetaMoves(k)
  BY <1>1
     DEF Launch, CheckNames, CheckIds, CheckOwner, Probe, Unlink, TakeCopy,
         MetaMoves, fileVars, procVars, scanVars
<1>2. ASSUME NEW p \in Procs,
              BeginClose(p) \/ CloseListener(p) \/ RemoveSocket(p) \/ Crash(p)
      PROVE  \A k \in Ids : MetaMoves(k)
  BY <1>2
     DEF BeginClose, CloseListener, RemoveSocket, Crash, MetaMoves, fileVars,
         procVars, scanVars
<1>3. ASSUME NEW a \in Actors,
              Scan(a) \/ EndReconcile(a)
      PROVE  \A k \in Ids : MetaMoves(k)
  BY <1>3
     DEF Scan, EndReconcile, MetaMoves, fileVars, procVars, scanVars
<1>4. ASSUME NEW c \in Cleaners,
              Decide(c) \/ EndPrune(c) \/ PruneFails(c) \/ ListOrphans(c) \/
              (\E i \in Ids : ProbeOrphan(c, i)) \/ EndOrphans(c)
      PROVE  \A k \in Ids : MetaMoves(k)
  BY <1>4
     DEF Decide, EndPrune, PruneFails, ListOrphans, ProbeOrphan, EndOrphans,
         MetaMoves,
         fileVars, procVars, scanVars
<1>5. ASSUME NEW a \in Actors, NEW i \in Ids, Reconcile(a, i)
      PROVE  \A k \in Ids : MetaMoves(k)
  <2>1. CASE dir' = dir /\ meta' = meta
    BY <2>1 DEF MetaMoves
  <2>2. CASE ~(dir' = dir /\ meta' = meta)
    <3> DEFINE d == seen[a][i]
               e == [d EXCEPT !.state = "Exited"]
    <3>1. step[a] = "reconcile" /\ Stale(d) /\ dir[i] # "absent"
          /\ dir' = [dir EXCEPT ![i] = "young"] /\ meta' = [meta EXCEPT ![i] = e]
      BY <1>5, <2>2 DEF Reconcile, Touch
    <3>2. d \in Docs
      BY <3>1, DocFacts DEF DirTypeOK, Stale, Active
    <3>3. e \in Docs /\ e.owner = d.owner /\ ~Up(d.owner)
      BY <3>1, <3>2, DocFacts, AliveIs DEF Stale
    <3> QED
      BY <3>1, <3>2, <3>3 DEF MetaMoves, DirTypeOK
  <2> QED
    BY <2>1, <2>2
<1>6. ASSUME NEW p \in Procs, MakeDir(p)
      PROVE  \A k \in Ids : MetaMoves(k)
  <2>1. \/ dir' = dir
        \/ dir[IdOf[p]] = "absent" /\ dir' = [dir EXCEPT ![IdOf[p]] = "young"]
    BY <1>6 DEF MakeDir, Touch
  <2>2. meta' = meta
    BY <1>6 DEF MakeDir
  <2> QED
    BY <1>6, <2>1, <2>2, DirAssumption DEF MetaMoves, DirTypeOK
<1>7. ASSUME NEW p \in Procs, WriteFirst(p)
      PROVE  \A k \in Ids : MetaMoves(k)
  <2> DEFINE k == IdOf[p]
  <2>1. CASE dir[k] = "absent"
    <3>1. meta' = meta /\ dir' = dir
      BY <1>7, <2>1 DEF WriteFirst, Update, Goes
    <3> QED
      BY <3>1 DEF MetaMoves
  <2>2. CASE dir[k] # "absent"
    <3>1. Write(p, "Initializing")
          /\ pc[p] = "create" /\ pc' = [pc EXCEPT ![p] = "socket"]
      BY <1>7, <2>2 DEF WriteFirst, Update, Goes
    <3>2. k \in Ids /\ "Initializing" \in States
      BY DirAssumption DEF States
    <3>3. PICK d \in Docs : /\ d.owner = p /\ d.state = "Initializing"
                           /\ meta' = [meta EXCEPT ![k] = d]
                           /\ dir' = [dir EXCEPT ![k] = "young"]
      BY <3>1, <3>2, WriteLeaves
    <3>4. Up(p) /\ p \in Registrants' /\ (pc[p] = "create" \/ p \in Registrants)
          /\ (Registered(p)' => d.state # "Exited")
      BY <3>1, <3>3
         DEF DirTypeOK, Staged, Registrants, Registered, Up, Starting, Serving,
             Closing, Down
    <3> QED
      BY <3>2, <3>3, <3>4, <2>2 DEF MetaMoves, DirTypeOK
  <2> QED
    BY <2>1, <2>2
<1>8. ASSUME NEW p \in Procs, NameSocket(p)
      PROVE  \A k \in Ids : MetaMoves(k)
  <2> DEFINE k == IdOf[p]
  <2>1. CASE dir[k] = "absent"
    <3>1. meta' = meta /\ dir' = dir
      BY <1>8, <2>1 DEF NameSocket, Update, Goes
    <3> QED
      BY <3>1 DEF MetaMoves
  <2>2. CASE dir[k] # "absent"
    <3>1. Write(p, "Initializing")
          /\ pc[p] = "socket" /\ pc' = [pc EXCEPT ![p] = "probe"]
      BY <1>8, <2>2 DEF NameSocket, Update, Goes
    <3>2. k \in Ids /\ "Initializing" \in States
      BY DirAssumption DEF States
    <3>3. PICK d \in Docs : /\ d.owner = p /\ d.state = "Initializing"
                           /\ meta' = [meta EXCEPT ![k] = d]
                           /\ dir' = [dir EXCEPT ![k] = "young"]
      BY <3>1, <3>2, WriteLeaves
    <3>4. Up(p) /\ p \in Registrants' /\ (pc[p] = "create" \/ p \in Registrants)
          /\ (Registered(p)' => d.state # "Exited")
      BY <3>1, <3>3
         DEF DirTypeOK, Staged, Registrants, Registered, Up, Starting, Serving,
             Closing, Down
    <3> QED
      BY <3>2, <3>3, <3>4, <2>2 DEF MetaMoves, DirTypeOK
  <2> QED
    BY <2>1, <2>2
<1>9. ASSUME NEW p \in Procs, Bind(p)
      PROVE  \A k \in Ids : MetaMoves(k)
  BY <1>9, DocFacts
     DEF Bind, Goes, Touch, MetaMoves, DirTypeOK, Actors
<1>10. ASSUME NEW p \in Procs, Publish(p)
      PROVE  \A k \in Ids : MetaMoves(k)
  <2> DEFINE k == IdOf[p]
  <2>1. CASE dir[k] = "absent"
    <3>1. meta' = meta /\ dir' = dir
      BY <1>10, <2>1 DEF Publish, Update, Goes
    <3> QED
      BY <3>1 DEF MetaMoves
  <2>2. CASE dir[k] # "absent"
    <3>1. Write(p, "Initializing")
          /\ pc[p] = "publish" /\ pc' = [pc EXCEPT ![p] = "serving"]
      BY <1>10, <2>2 DEF Publish, Update, Goes
    <3>2. k \in Ids /\ "Initializing" \in States
      BY DirAssumption DEF States
    <3>3. PICK d \in Docs : /\ d.owner = p /\ d.state = "Initializing"
                           /\ meta' = [meta EXCEPT ![k] = d]
                           /\ dir' = [dir EXCEPT ![k] = "young"]
      BY <3>1, <3>2, WriteLeaves
    <3>4. Up(p) /\ p \in Registrants' /\ (pc[p] = "create" \/ p \in Registrants)
          /\ (Registered(p)' => d.state # "Exited")
      BY <3>1, <3>3
         DEF DirTypeOK, Staged, Registrants, Registered, Up, Starting, Serving,
             Closing, Down
    <3> QED
      BY <3>2, <3>3, <3>4, <2>2 DEF MetaMoves, DirTypeOK
  <2> QED
    BY <2>1, <2>2
<1>11. ASSUME NEW p \in Procs, WriteCopy(p)
      PROVE  \A k \in Ids : MetaMoves(k)
  <2> DEFINE k == IdOf[p]
  <2>1. CASE dir[k] = "absent"
    <3>1. meta' = meta /\ dir' = dir
      BY <1>11, <2>1 DEF WriteCopy
    <3> QED
      BY <3>1 DEF MetaMoves
  <2>2. CASE dir[k] # "absent"
    <3>1. Write(p, "Ready") /\ Up(p) /\ p \in copy /\ pc' = pc
      BY <1>11, <2>2 DEF WriteCopy
    <3>2. k \in Ids /\ "Ready" \in States
      BY DirAssumption DEF States
    <3>3. PICK d \in Docs : /\ d.owner = p /\ d.state = "Ready"
                           /\ meta' = [meta EXCEPT ![k] = d]
                           /\ dir' = [dir EXCEPT ![k] = "young"]
      BY <3>1, <3>2, WriteLeaves
    <3>4. Up(p) /\ p \in Registrants' /\ (pc[p] = "create" \/ p \in Registrants)
          /\ (Registered(p)' => d.state # "Exited")
      BY <3>1, <3>3
         DEF DirTypeOK, Staged, Registrants, Registered, Up, Starting, Serving,
             Closing, Down
    <3> QED
      BY <3>2, <3>3, <3>4, <2>2 DEF MetaMoves, DirTypeOK
  <2> QED
    BY <2>1, <2>2
<1>12. ASSUME NEW p \in Procs, WriteExited(p)
      PROVE  \A k \in Ids : MetaMoves(k)
  <2> DEFINE k == IdOf[p]
  <2>1. CASE dir[k] = "absent"
    <3>1. meta' = meta /\ dir' = dir
      BY <1>12, <2>1 DEF WriteExited, Goes
    <3> QED
      BY <3>1 DEF MetaMoves
  <2>2. CASE dir[k] # "absent"
    <3>1. Write(p, "Exited")
          /\ pc[p] = "exit" /\ pc' = [pc EXCEPT ![p] = "unlisten"]
      BY <1>12, <2>2 DEF WriteExited, Goes
    <3>2. k \in Ids /\ "Exited" \in States
      BY DirAssumption DEF States
    <3>3. PICK d \in Docs : /\ d.owner = p /\ d.state = "Exited"
                           /\ meta' = [meta EXCEPT ![k] = d]
                           /\ dir' = [dir EXCEPT ![k] = "young"]
      BY <3>1, <3>2, WriteLeaves
    <3>4. Up(p) /\ p \in Registrants' /\ (pc[p] = "create" \/ p \in Registrants)
          /\ (Registered(p)' => d.state # "Exited")
      BY <3>1, <3>3
         DEF DirTypeOK, Staged, Registrants, Registered, Up, Starting, Serving,
             Closing, Down
    <3> QED
      BY <3>2, <3>3, <3>4, <2>2 DEF MetaMoves, DirTypeOK
  <2> QED
    BY <2>1, <2>2
<1>13. ASSUME NEW c \in Cleaners, NEW i \in Ids, Prune(c, i)
      PROVE  \A k \in Ids : MetaMoves(k)
  <2>1. CASE meta' = meta /\ dir' = dir
    BY <2>1 DEF MetaMoves
  <2>2. CASE ~(meta' = meta /\ dir' = dir)
    <3>1. RemoveAll(i) /\ Removed(i)
      BY <1>13, <2>2 DEF Prune, Removed, fileVars
    <3> QED
      BY <3>1 DEF RemoveAll, MetaMoves, DirTypeOK
  <2> QED
    BY <2>1, <2>2
<1>14. ASSUME NEW c \in Cleaners, NEW i \in Ids, RemoveOrphan(c, i)
      PROVE  \A k \in Ids : MetaMoves(k)
  <2>1. CASE meta' = meta /\ dir' = dir
    BY <2>1 DEF MetaMoves
  <2>2. CASE ~(meta' = meta /\ dir' = dir)
    <3>1. RemoveAll(i) /\ Removed(i)
      BY <1>14, <2>2 DEF ProbeOrphan, RemoveOrphan, Removed, fileVars
    <3> QED
      BY <3>1 DEF RemoveAll, MetaMoves, DirTypeOK
  <2> QED
    BY <2>1, <2>2
<1>15. ASSUME NEW i \in Ids, Age(i)
      PROVE  \A k \in Ids : MetaMoves(k)
  BY <1>15, DocFacts
     DEF Age, MetaMoves, DirTypeOK, Actors
<1>16. ASSUME UNCHANGED dirVars
      PROVE  \A k \in Ids : MetaMoves(k)
  BY <1>16
     DEF dirVars, MetaMoves, fileVars, procVars, scanVars
<1> QED
  BY <1>1, <1>2, <1>3, <1>4, <1>5, <1>6, <1>7, <1>8, <1>9, <1>10, <1>11,
     <1>12, <1>13, <1>14, <1>15, <1>16
     DEF DirNext, StartStep, CloseStep, CleanStep, Actors

\* When a directory grows old.
LEMMA AgeKept ==
  ASSUME DirTypeOK, [DirNext]_dirVars
  PROVE  \A k \in Ids : AgeMoves(k)
<1>1. ASSUME NEW p \in Procs,
              Launch(p) \/ CheckNames(p) \/ CheckIds(p) \/ CheckOwner(p) \/
              Probe(p) \/ Unlink(p) \/ TakeCopy(p)
      PROVE  \A k \in Ids : AgeMoves(k)
  BY <1>1
     DEF Launch, CheckNames, CheckIds, CheckOwner, Probe, Unlink, TakeCopy,
         AgeMoves, fileVars, procVars, scanVars
<1>2. ASSUME NEW p \in Procs,
              BeginClose(p) \/ CloseListener(p) \/ RemoveSocket(p) \/ Crash(p)
      PROVE  \A k \in Ids : AgeMoves(k)
  BY <1>2
     DEF BeginClose, CloseListener, RemoveSocket, Crash, AgeMoves, fileVars,
         procVars, scanVars
<1>3. ASSUME NEW a \in Actors,
              Scan(a) \/ EndReconcile(a)
      PROVE  \A k \in Ids : AgeMoves(k)
  BY <1>3
     DEF Scan, EndReconcile, AgeMoves, fileVars, procVars, scanVars
<1>4. ASSUME NEW c \in Cleaners,
              Decide(c) \/ EndPrune(c) \/ PruneFails(c) \/ ListOrphans(c) \/
              (\E i \in Ids : ProbeOrphan(c, i)) \/ EndOrphans(c)
      PROVE  \A k \in Ids : AgeMoves(k)
  BY <1>4
     DEF Decide, EndPrune, PruneFails, ListOrphans, ProbeOrphan, EndOrphans,
         AgeMoves,
         fileVars, procVars, scanVars
<1>5. ASSUME NEW a \in Actors, NEW i \in Ids, Reconcile(a, i)
      PROVE  \A k \in Ids : AgeMoves(k)
  BY <1>5, DirAssumption
     DEF Reconcile, Touch, Stale, Active, AgeMoves, DirTypeOK
<1>6. ASSUME NEW p \in Procs, MakeDir(p)
      PROVE  \A k \in Ids : AgeMoves(k)
  BY <1>6, DirAssumption
     DEF MakeDir, Goes, Touch, AgeMoves, DirTypeOK
<1>7. ASSUME NEW p \in Procs, WriteFirst(p)
      PROVE  \A k \in Ids : AgeMoves(k)
  BY <1>7, DirAssumption
     DEF WriteFirst, SetStatus, Update, Goes, Write, Touch, AgeMoves,
         DirTypeOK
<1>8. ASSUME NEW p \in Procs, NameSocket(p)
      PROVE  \A k \in Ids : AgeMoves(k)
  BY <1>8, DirAssumption
     DEF NameSocket, SetStatus, Update, Goes, Write, Touch, AgeMoves,
         DirTypeOK
<1>9. ASSUME NEW p \in Procs, Bind(p)
      PROVE  \A k \in Ids : AgeMoves(k)
  BY <1>9, DirAssumption
     DEF Bind, Goes, Touch, AgeMoves, DirTypeOK
<1>10. ASSUME NEW p \in Procs, Publish(p)
      PROVE  \A k \in Ids : AgeMoves(k)
  BY <1>10, DirAssumption
     DEF Publish, Update, Goes, Write, Touch, AgeMoves, DirTypeOK
<1>11. ASSUME NEW p \in Procs, WriteCopy(p)
      PROVE  \A k \in Ids : AgeMoves(k)
  BY <1>11, DirAssumption
     DEF WriteCopy, Write, Touch, AgeMoves, DirTypeOK
<1>12. ASSUME NEW p \in Procs, WriteExited(p)
      PROVE  \A k \in Ids : AgeMoves(k)
  BY <1>12, DirAssumption
     DEF WriteExited, Goes, Write, Touch, AgeMoves, DirTypeOK
<1>13. ASSUME NEW c \in Cleaners, NEW i \in Ids, Prune(c, i)
      PROVE  \A k \in Ids : AgeMoves(k)
  <2>1. CASE UNCHANGED fileVars
    BY <1>13, <2>1 DEF Prune, AgeMoves, fileVars
  <2>2. CASE ~UNCHANGED fileVars
    <3>1. RemoveAll(i) /\ Removed(i)
      BY <1>13, <2>2 DEF Prune, Removed
    <3> QED
      BY <1>13, <3>1 DEF Prune, RemoveAll, AgeMoves, DirTypeOK
  <2> QED
    BY <2>1, <2>2
<1>14. ASSUME NEW c \in Cleaners, NEW i \in Ids, RemoveOrphan(c, i)
      PROVE  \A k \in Ids : AgeMoves(k)
  <2>1. CASE UNCHANGED fileVars
    BY <1>14, <2>1 DEF ProbeOrphan, RemoveOrphan, AgeMoves, fileVars
  <2>2. CASE ~UNCHANGED fileVars
    <3>1. RemoveAll(i) /\ Removed(i)
      BY <1>14, <2>2 DEF ProbeOrphan, RemoveOrphan, Removed
    <3> QED
      BY <1>14, <3>1 DEF ProbeOrphan, RemoveOrphan, RemoveAll, AgeMoves,
             DirTypeOK
  <2> QED
    BY <2>1, <2>2
<1>15. ASSUME NEW i \in Ids, Age(i)
      PROVE  \A k \in Ids : AgeMoves(k)
  BY <1>15, DirAssumption
     DEF Age, procVars, AgeMoves, DirTypeOK
<1>16. ASSUME UNCHANGED dirVars
      PROVE  \A k \in Ids : AgeMoves(k)
  BY <1>16
     DEF dirVars, AgeMoves, fileVars, procVars, scanVars
<1> QED
  BY <1>1, <1>2, <1>3, <1>4, <1>5, <1>6, <1>7, <1>8, <1>9, <1>10, <1>11,
     <1>12, <1>13, <1>14, <1>15, <1>16
     DEF DirNext, StartStep, CloseStep, CleanStep, Actors

\* Who touches each socket.
LEMMA SockKept ==
  ASSUME DirTypeOK, [DirNext]_dirVars
  PROVE  \A k \in Ids : SockMoves(k)
<1>1. ASSUME NEW p \in Procs,
              Launch(p) \/ CheckNames(p) \/ CheckIds(p) \/ CheckOwner(p) \/
              MakeDir(p) \/ WriteFirst(p) \/ NameSocket(p)
      PROVE  \A k \in Ids : SockMoves(k)
  BY <1>1
     DEF Launch, CheckNames, CheckIds, CheckOwner, MakeDir, WriteFirst,
         NameSocket, Update, SockMoves, fileVars, procVars, scanVars
<1>2. ASSUME NEW p \in Procs,
              Probe(p) \/ Publish(p) \/ TakeCopy(p) \/ WriteCopy(p) \/
              BeginClose(p) \/ WriteExited(p)
      PROVE  \A k \in Ids : SockMoves(k)
  BY <1>2
     DEF Probe, Publish, TakeCopy, WriteCopy, BeginClose, WriteExited, Update,
         SockMoves, fileVars, procVars, scanVars
<1>3. ASSUME NEW a \in Actors,
              Scan(a) \/ (\E i \in Ids : Reconcile(a, i)) \/ EndReconcile(a)
      PROVE  \A k \in Ids : SockMoves(k)
  BY <1>3
     DEF Scan, Reconcile, EndReconcile, SockMoves, fileVars, procVars,
         scanVars
<1>4. ASSUME NEW c \in Cleaners,
              Decide(c) \/ EndPrune(c) \/ PruneFails(c) \/ ListOrphans(c) \/
              (\E i \in Ids : ProbeOrphan(c, i)) \/ EndOrphans(c)
      PROVE  \A k \in Ids : SockMoves(k)
  BY <1>4
     DEF Decide, EndPrune, PruneFails, ListOrphans, ProbeOrphan, EndOrphans,
         SockMoves,
         fileVars, procVars, scanVars
<1>5. ASSUME NEW i \in Ids, Age(i)
      PROVE  \A k \in Ids : SockMoves(k)
  BY <1>5
     DEF Age, SockMoves, fileVars, procVars, scanVars
<1>6. ASSUME NEW p \in Procs, Unlink(p)
      PROVE  \A k \in Ids : SockMoves(k)
  BY <1>6, DirAssumption
     DEF Unlink, Goes, SockMoves, DirTypeOK, fileVars
<1>7. ASSUME NEW p \in Procs, Bind(p)
      PROVE  \A k \in Ids : SockMoves(k)
  BY <1>7, DirAssumption
     DEF Bind, Goes, Touch, SockMoves, DirTypeOK, fileVars
<1>8. ASSUME NEW p \in Procs, CloseListener(p)
      PROVE  \A k \in Ids : SockMoves(k)
  BY <1>8, DirAssumption
     DEF CloseListener, Goes, SockMoves, DirTypeOK, fileVars
<1>9. ASSUME NEW p \in Procs, RemoveSocket(p)
      PROVE  \A k \in Ids : SockMoves(k)
  BY <1>9, DirAssumption
     DEF RemoveSocket, Goes, SetStatus, SockMoves, DirTypeOK, fileVars
<1>10. ASSUME NEW p \in Procs, Crash(p)
      PROVE  \A k \in Ids : SockMoves(k)
  BY <1>10, DirAssumption
     DEF Crash, SetStatus, SockMoves, DirTypeOK, fileVars
<1>11. ASSUME NEW c \in Cleaners, NEW i \in Ids, Prune(c, i)
      PROVE  \A k \in Ids : SockMoves(k)
  <2>1. CASE UNCHANGED fileVars
    BY <1>11, <2>1 DEF Prune, SockMoves, procVars, fileVars
  <2>2. CASE ~UNCHANGED fileVars
    <3>1. RemoveAll(i) /\ Removed(i)
      BY <1>11, <2>2 DEF Prune, Removed
    <3> QED
      BY <1>11, <3>1 DEF Prune, RemoveAll, SockMoves, procVars, DirTypeOK
  <2> QED
    BY <2>1, <2>2
<1>12. ASSUME NEW c \in Cleaners, NEW i \in Ids, RemoveOrphan(c, i)
      PROVE  \A k \in Ids : SockMoves(k)
  <2>1. CASE UNCHANGED fileVars
    BY <1>12, <2>1 DEF ProbeOrphan, RemoveOrphan, SockMoves, procVars, fileVars
  <2>2. CASE ~UNCHANGED fileVars
    <3>1. RemoveAll(i) /\ Removed(i)
      BY <1>12, <2>2 DEF ProbeOrphan, RemoveOrphan, Removed
    <3> QED
      BY <1>12, <3>1 DEF ProbeOrphan, RemoveOrphan, RemoveAll, SockMoves,
             procVars, DirTypeOK
  <2> QED
    BY <2>1, <2>2
<1>13. ASSUME UNCHANGED dirVars
      PROVE  \A k \in Ids : SockMoves(k)
  BY <1>13
     DEF dirVars, SockMoves, fileVars, procVars, scanVars
<1> QED
  BY <1>1, <1>2, <1>3, <1>4, <1>5, <1>6, <1>7, <1>8, <1>9, <1>10, <1>11,
     <1>12, <1>13
     DEF DirNext, StartStep, CloseStep, CleanStep, Actors

\* Every step is one of these.
LEMMA StepMoves ==
  ASSUME DirTypeOK, Staged, [DirNext]_dirVars
  PROVE  Moves
<1>1. \A q \in Procs : Onward(q)
  BY PcMoves
<1>2. \A a \in Actors : ScanMoves(a)
  BY ScanKept
<1>3. \A i \in Ids : MetaMoves(i) /\ AgeMoves(i) /\ SockMoves(i)
  BY MetaKept, AgeKept, SockKept
<1> QED
  BY <1>1, <1>2, <1>3 DEF Moves

-----------------------------------------------------------------------------
\* Documents stay with their owner, and so does what is read of them,
LEMMA MetaOwnedKept ==
  ASSUME DirTypeOK, Moves, MetaOwned, SeenOwned
  PROVE  MetaOwned'
<1> SUFFICES ASSUME NEW i \in Ids, meta'[i] \in Docs
             PROVE  IdOf[meta'[i].owner] = i /\ meta'[i].owner \in Registrants'
  BY DEF MetaOwned
<1>1. \A q \in Registrants : q \in Registrants'
  BY DEF Moves, Onward, Registrants
<1> QED
  BY <1>1, DocFacts DEF Moves, MetaMoves, MetaOwned, SeenOwned

\* by every scan.
LEMMA SeenOwnedKept ==
  ASSUME DirTypeOK, Moves, MetaOwned, SeenOwned
  PROVE  SeenOwned'
<1> SUFFICES ASSUME NEW a \in Actors, NEW i \in Ids, seen'[a][i] \in Docs
             PROVE  IdOf[seen'[a][i].owner] = i /\ seen'[a][i].owner \in Registrants'
  BY DEF SeenOwned
<1>1. \A q \in Registrants : q \in Registrants'
  BY DEF Moves, Onward, Registrants
<1> QED
  BY <1>1, DocFacts DEF Moves, ScanMoves, MetaOwned, SeenOwned

\* Sockets are bound where their owner's entry is.
LEMMA SockOwnedKept ==
  ASSUME DirTypeOK, Moves, SockOwned
  PROVE  SockOwned'
BY DirAssumption DEF Moves, SockMoves, SockOwned

\* Nobody else binds between the unlink and the bind.
LEMMA BindableKept ==
  ASSUME DirTypeOK, Moves, OnePerId, Bindable
  PROVE  Bindable'
<1> SUFFICES ASSUME NEW p \in Procs, pc'[p] = "bind", pc[p] = "bind"
             PROVE  sock'[IdOf[p]] = None
  BY DEF Moves, Onward, Bindable
<1>1. IdOf[p] \in Ids /\ sock[IdOf[p]] = None
  BY DirAssumption DEF Bindable
<1>2. ASSUME NEW q \in Procs, IdOf[q] = IdOf[p], pc[q] = "bind"
      PROVE  q = p
  BY <1>2 DEF OnePerId, Others, Up, Down, Early, Serving
<1> QED
  BY <1>1, <1>2 DEF Moves, SockMoves

\* A start that recycles an ID keeps everybody else from scanning, and one
\* that does not is not turned into one that does.
LEMMA AloneKept ==
  ASSUME DirTypeOK, Moves, Alone, NewEntry, [DirNext]_dirVars, Exclusive
  PROVE  Alone'
<1> SUFFICES ASSUME NEW p \in Procs, pc'[p] \in Starting, Recycles(p)',
                    NEW a \in Actors \ {p}
             PROVE  step'[a] = "idle"
  BY DEF Alone
<1> DEFINE k == IdOf[p]
<1>1. k \in Ids
  BY DirAssumption
<1>2. CASE Launch(p)
  <2>1. Recycles(p) /\ step' = step
    BY <1>2 DEF Launch, Goes, Recycles, Corrupt, Others, Doomed, DirTypeOK,
                fileVars, scanVars
  <2> QED
    BY <1>2, <2>1 DEF Launch, MayStart
<1>3. CASE ~Launch(p) /\ Recycles(p)
  <2>1. pc[p] \in Starting /\ step[a] = "idle"
    BY <1>3 DEF Moves, Onward, Alone
  <2> QED
    BY <1>3, <2>1 DEF Moves, ScanMoves, Scan, MayScan
<1>4. CASE ~Launch(p) /\ ~Recycles(p)
  <2>1. pc[p] \in Starting /\ dir[k] # "old" /\ meta[k] # None
    BY <1>4 DEF Moves, Onward, NewEntry, Recycles, Corrupt
  <2>2. ~Corrupt(k)'
    BY <1>1, <2>1, DocFacts DEF Moves, MetaMoves, Corrupt
  <2>3. ASSUME NEW q \in Others(p), pc'[q] # "unborn"
        PROVE  FALSE
    <3>1. pc[q] = "unborn" /\ p \in Others(q)
      BY <1>4, <2>3 DEF Recycles, Others
    <3>2. Launch(q)
      BY <2>3, <3>1 DEF Moves, Onward, Others
    <3> QED
      BY <2>1, <3>1, <3>2 DEF Launch, MayStart
  <2>4. ASSUME NEW b \in Actors, Doomed(b, k)'
        PROVE  FALSE
    BY <1>1, <1>4, <2>1, <2>4 DEF Moves, ScanMoves, Orphan, Recycles
  <2> QED
    BY <2>2, <2>3, <2>4 DEF Recycles, Others
<1> QED
  BY <1>2, <1>3, <1>4

\* Nor is one that does turned into one that does not.
LEMMA RecyclesStays ==
  ASSUME DirTypeOK, Moves, Alone, Staged, SeenOwned,
         NEW p \in Procs, pc[p] \in Starting, pc'[p] \in Starting, Recycles(p)
  PROVE  Recycles(p)'
<1> DEFINE k == IdOf[p]
<1>1. k \in Ids /\ p \notin Cleaners /\ p \in Actors
  BY DirAssumption DEF Actors
<1>2. \A a \in Actors \ {p} : step[a] = "idle"
  BY DEF Alone
<1>3. ASSUME NEW q \in Procs, q # p, IdOf[q] = k, pc[q] # "unborn"
      PROVE  Recycles(p)'
  BY <1>3 DEF Moves, Onward, Recycles, Others
<1>4. CASE Corrupt(k)
  <2>1. ~Removed(k)
    BY <1>1, <1>2, IdAssumption DEF Removed, Actors, Steps
  <2>2. CASE meta'[k] = meta[k]
    BY <1>4, <2>2 DEF Recycles, Corrupt
  <2>3. ASSUME NEW a \in Actors, seen[a][k] \in Docs, step[a] = "reconcile"
        PROVE  Recycles(p)'
    <3>1. a = p
      BY <1>2, <2>3
    <3>2. /\ seen[p][k].owner \in Registrants /\ IdOf[seen[p][k].owner] = k
          /\ p \notin Registrants
      BY <1>1, <2>3, <3>1 DEF SeenOwned, Registrants, Starting
    <3> QED
      BY <1>3, <3>2 DEF Registrants
  <2>4. ASSUME NEW q \in Procs, IdOf[q] = k, Up(q), q \in Registrants'
        PROVE  Recycles(p)'
    BY <1>3, <2>4 DEF Registrants, Up, Down, Starting
  <2> QED
    BY <1>1, <2>1, <2>2, <2>3, <2>4 DEF Moves, MetaMoves
<1>5. ASSUME NEW a \in Actors, Doomed(a, k)
      PROVE  FALSE
  BY <1>1, <1>2, <1>5, DoomedFacts DEF Staged
<1> QED
  BY <1>3, <1>4, <1>5 DEF Recycles, Others

\* An ID in use for the first time has no entry but that of its start.
LEMMA NewEntryKept ==
  ASSUME DirTypeOK, DirTypeOK', Moves, Alone, Staged, SeenOwned, NewEntry, UnusedId
  PROVE  NewEntry'
<1> SUFFICES ASSUME NEW p \in Procs, pc'[p] \in Starting, ~Recycles(p)'
             PROVE  \/ dir'[IdOf[p]] = "absent"
                    \/ dir'[IdOf[p]] = "young" /\ pc'[p] = "create"
  BY DEF NewEntry
<1> DEFINE k == IdOf[p]
<1>1. k \in Ids
  BY DirAssumption
<1>2. CASE Launch(p)
  <2>1. meta' = meta /\ dir' = dir /\ pc[p] = "unborn"
    BY <1>2 DEF Launch, Goes, fileVars
  <2>2. \A q \in Procs : IdOf[q] = k => pc[q] = "unborn"
    BY <2>1 DEF Moves, Onward, Recycles, Others
  <2> QED
    BY <1>1, <2>1, <2>2 DEF UnusedId, Recycles, Corrupt
<1>3. CASE ~Launch(p)
  <2>1. pc[p] \in Starting /\ ~Recycles(p)
    BY <1>3, RecyclesStays DEF Moves, Onward
  <2>2. \/ dir[k] = "absent"
        \/ dir[k] = "young" /\ pc[p] = "create" /\ pc'[p] = "create"
    BY <2>1 DEF NewEntry, Moves, Onward
  <2>3. ASSUME NEW q \in Procs, IdOf[q] = k, MakeDir(q)
        PROVE  pc'[p] = "create"
    BY <2>1, <2>3 DEF MakeDir, Goes, Recycles, Others, DirTypeOK
  <2>4. dir[k] = "young" /\ pc[p] = "create" => dir'[k] # "old"
    BY <1>1 DEF Moves, AgeMoves
  <2>5. dir'[k] \in {"absent", "young", "old"}
    BY <1>1 DEF DirTypeOK
  <2>6. MetaMoves(k)
    BY <1>1 DEF Moves
  <2>7. CASE dir[k] = "absent"
    BY <2>3, <2>5, <2>6, <2>7 DEF MetaMoves
  <2>8. CASE dir[k] = "young" /\ pc'[p] = "create"
    BY <2>2, <2>4, <2>5, <2>6, <2>8 DEF MetaMoves
  <2> QED
    BY <2>2, <2>7, <2>8
<1> QED
  BY <1>2, <1>3

\* An ID that nobody has used has no entry but an unreadable one.
LEMMA UnusedIdKept ==
  ASSUME DirTypeOK, Moves, SeenOwned, UnusedId
  PROVE  UnusedId'
<1> SUFFICES ASSUME NEW i \in Ids,
                    \A q \in Procs : IdOf[q] = i => pc'[q] = "unborn"
             PROVE  meta'[i] = None \/ dir'[i] = "absent"
  BY DEF UnusedId
<1>1. \A q \in Procs : IdOf[q] = i => pc[q] = "unborn"
  BY DEF Moves, Onward
<1>2. \A q \in Procs : IdOf[q] = i => ~MakeDir(q) /\ ~Up(q) /\ q \notin Registrants
  BY <1>1 DEF MakeDir, Goes, Up, Down, Registrants
<1>3. \A a \in Actors : seen[a][i] \notin Docs
  BY <1>2, DocFacts DEF SeenOwned
<1> QED
  BY <1>1, <1>2, <1>3 DEF UnusedId, Moves, MetaMoves

\* Before a start writes its document nobody holds a document of its ID, or
\* is about to remove the entry.
LEMMA NobodyHasRead ==
  ASSUME DirTypeOK, Alone, Staged, Scanned, SeenOwned,
         NEW p \in Procs, pc[p] = "create"
  PROVE  \A a \in Actors :
           /\ seen[a][IdOf[p]] \notin Docs
           /\ ~Doomed(a, IdOf[p])
<1> SUFFICES ASSUME NEW a \in Actors,
                    \/ seen[a][IdOf[p]] \in Docs
                    \/ Doomed(a, IdOf[p])
             PROVE  FALSE
  OBVIOUS
<1>1. IdOf[p] \in Ids /\ p \in Actors /\ pc[p] \in Starting /\ pc[p] \notin Early
  BY DirAssumption DEF Actors, Starting, Early
<1>2. Recycles(p)
  <2>1. CASE Doomed(a, IdOf[p])
    BY <2>1 DEF Recycles
  <2>2. CASE seen[a][IdOf[p]] \in Docs
    <3> DEFINE q == seen[a][IdOf[p]].owner
    <3>1. q \in Registrants /\ IdOf[q] = IdOf[p]
      BY <1>1, <2>2 DEF SeenOwned
    <3>2. q \in Procs \ {p} /\ pc[q] # "unborn"
      BY <1>1, <3>1 DEF Registrants
    <3> QED
      BY <3>1, <3>2 DEF Recycles, Others
  <2> QED
    BY <2>1, <2>2
<1>3. step[a] = "idle"
  BY <1>1, <1>2 DEF Alone, Staged
<1> QED
  BY <1>1, <1>3, DocFacts, DoomedFacts DEF Scanned

\* What a scan holds of a registered terminal is that terminal's, active.
LEMMA SeenLiveKept ==
  ASSUME DirTypeOK, Moves, Alone, Staged, Scanned, SeenOwned, SeenLive,
         LiveKeepsFiles
  PROVE  SeenLive'
<1> SUFFICES ASSUME NEW a \in Actors, NEW p \in Procs, Registered(p)',
                    seen'[a][IdOf[p]] \in Docs
             PROVE  /\ seen'[a][IdOf[p]].owner = p
                    /\ seen'[a][IdOf[p]].state # "Exited"
  BY DEF SeenLive, Active
<1>1. IdOf[p] \in Ids
  BY DirAssumption
<1>2. CASE Registered(p)
  <2>1. Up(p)
    BY <1>2 DEF Registered, Up, Serving, Down
  <2> QED
    BY <1>1, <1>2, <2>1, DocFacts
       DEF Moves, ScanMoves, SeenLive, LiveKeepsFiles, Active
<1>3. CASE WriteFirst(p)
  <2>1. pc[p] = "create" /\ seen' = seen
    BY <1>3 DEF WriteFirst, Update, Goes, scanVars
  <2> QED
    BY <2>1, NobodyHasRead
<1> QED
  BY <1>2, <1>3 DEF Moves, Onward

\* No prune is about to remove a registered terminal as an orphan.
LEMMA NotRemovedKept ==
  ASSUME DirTypeOK, Moves, Alone, Staged, Scanned, SeenOwned, NotRemoved,
         LiveKeepsFiles
  PROVE  NotRemoved'
<1> SUFFICES ASSUME NEW a \in Actors, NEW p \in Procs, Registered(p)',
                    Doomed(a, IdOf[p])'
             PROVE  FALSE
  BY DEF NotRemoved
<1>1. IdOf[p] \in Ids
  BY DirAssumption
<1>2. CASE Registered(p)
  BY <1>1, <1>2 DEF Moves, ScanMoves, NotRemoved, LiveKeepsFiles, Orphan
<1>3. CASE WriteFirst(p)
  <2>1. pc[p] = "create" /\ step' = step /\ todo' = todo
    BY <1>3 DEF WriteFirst, Update, Goes, scanVars
  <2>2. Doomed(a, IdOf[p])
    BY <2>1 DEF Doomed
  <2> QED
    BY <2>1, <2>2, NobodyHasRead
<1> QED
  BY <1>2, <1>3 DEF Moves, Onward

\* A scan of a start that holds, or now reads, a registered terminal's
\* document still holds one after the step.
LEMMA StaysRead ==
  ASSUME DirTypeOK, Moves, Staged', LiveKeepsFiles,
         NEW p \in Procs, NEW q \in Procs, Registered(q), step'[p] # "idle",
         step[p] # "idle" => seen[p][IdOf[q]] \in Docs
  PROVE  seen'[p][IdOf[q]] \in Docs
<1>1. IdOf[q] \in Ids /\ p \in Actors
  BY DirAssumption DEF Actors
<1>2. CASE step[p] # "idle"
  BY <1>1, <1>2 DEF Moves, ScanMoves, Scan, Staged
<1>3. CASE step[p] = "idle"
  <2>1. Scan(p)
    BY <1>1, <1>3 DEF Moves, ScanMoves
  <2>2. /\ meta[IdOf[q]] \in Docs
        /\ seen'[p] = [i \in Ids |->
                         IF meta[i] \in {NoDoc, None} THEN NoDoc ELSE meta[i]]
    BY <1>1, <2>1 DEF Scan, LiveKeepsFiles, DirTypeOK
  <2> QED
    BY <1>1, <2>2, DocFacts
<1> QED
  BY <1>2, <1>3

\* The check of the ID sees who serves under it.
LEMMA IdSeenKept ==
  ASSUME DirTypeOK, Moves, OnePerId, Staged', LiveKeepsFiles, IdSeen
  PROVE  IdSeen'
<1> SUFFICES ASSUME NEW p \in Procs, pc'[p] = "ids", step'[p] # "idle",
                    NEW q \in Others(p), Registered(q)'
             PROVE  seen'[p][IdOf[p]] \in Docs
  BY DEF IdSeen, Others
<1>1. q \in Procs /\ IdOf[q] = IdOf[p] /\ p \in Actors
  BY DEF Others, Actors
<1>2. pc[p] = "ids"
  <2>1. ~CheckNames(p)
    BY DEF CheckNames, ScanEnds, DirTypeOK, Actors
  <2> QED
    BY <2>1 DEF Moves, Onward
<1>3. Registered(q)
  <2>1. pc[q] # "create"
    BY <1>2 DEF OnePerId, Up, Down, Early, Serving
  <2> QED
    BY <1>1, <2>1 DEF Moves, Onward, WriteFirst, Update, Goes
<1> QED
  BY <1>1, <1>2, <1>3, StaysRead DEF IdSeen

\* The check of the name sees who serves under it.
LEMMA NameSeenKept ==
  ASSUME DirTypeOK, Moves, Staged, Staged', SeenLive, LiveKeepsFiles, NameSeen
  PROVE  NameSeen'
<1> SUFFICES ASSUME NEW p \in Procs, NEW q \in before'[p]
             PROVE
    /\ pc'[q] \notin Starting \cup {"unborn"} /\ NameOf[q] = NameOf[p] /\ q # p
    /\ p \in Cli /\ pc'[p] = "names" /\ step'[p] # "idle" /\ Registered(q)' =>
         seen'[p][IdOf[q]] \in Docs
    /\ p \in Cli /\ Up(p)' /\ pc'[p] # "names" => ~Registered(q)'
  BY DEF NameSeen
<1>1. CASE Launch(p)
  <2>1. /\ pc[p] = "unborn" /\ (p \in Cli => pc'[p] = "names")
        /\ step'[p] = "idle" /\ q \in Procs
        /\ pc[q] = "serving" /\ pc'[q] = "serving" /\ NameOf[q] = NameOf[p]
    BY <1>1 DEF Launch, Goes, scanVars, DirTypeOK, Staged, Early
  <2> QED
    BY <2>1 DEF Starting
<1>2. CASE ~Launch(p)
  <2>1. /\ q \in before[p] /\ q \in Procs
        /\ pc[q] \notin Starting \cup {"unborn"}
        /\ NameOf[q] = NameOf[p] /\ q # p
    BY <1>2 DEF Moves, Onward, NameSeen, DirTypeOK
  <2>2. pc'[q] \notin Starting \cup {"unborn"}
    BY <2>1 DEF Moves, Onward, Registrants
  <2>3. Registered(q)' => Registered(q)
    BY <2>1 DEF Moves, Onward, WriteFirst, Update, Goes, Starting
  <2>4. ASSUME p \in Cli, pc'[p] = "names", step'[p] # "idle", Registered(q)'
        PROVE  seen'[p][IdOf[q]] \in Docs
    BY <1>2, <2>1, <2>3, <2>4, StaysRead DEF Moves, Onward, NameSeen
  <2>5. ASSUME p \in Cli, Up(p)', pc'[p] # "names", Registered(q)'
        PROVE  FALSE
    <3>1. Up(p)
      BY <1>2, <2>5 DEF Moves, Onward, Up, Down
    <3>2. pc[p] = "names" /\ CheckNames(p)
      BY <2>1, <2>3, <2>5, <3>1 DEF Moves, Onward, NameSeen
    <3>3. step[p] = "decide" /\ ~NameTaken(p)
      BY <2>5, <3>2 DEF CheckNames, DirTypeOK, Up, Down
    <3>4. seen[p][IdOf[q]] \in Docs
      BY <2>1, <2>3, <2>5, <3>2, <3>3 DEF NameSeen
    <3>5. seen[p][IdOf[q]].owner = q /\ Active(seen[p][IdOf[q]])
      BY <2>1, <2>3, <2>5, <3>4 DEF SeenLive, Actors
    <3> QED
      BY <2>1, <3>3, <3>5, DirAssumption DEF NameTaken, Listed
  <2> QED
    BY <2>1, <2>2, <2>4, <2>5
<1> QED
  BY <1>1, <1>2

\* An ID has one terminal that serves: the checks of sbsh, the probe of the
\* socket and the guards of MayStart keep the others out.
LEMMA OnePerIdKept ==
  ASSUME DirTypeOK, Moves, OnePerId, SockOwned, Staged, Bindable, IdSeen,
         SeenLive, LiveKeepsFiles, Restricted
  PROVE  OnePerId'
<1>1. ASSUME NEW p \in Procs, NEW q \in Others(p), pc[p] \in Early,
             Registered(q), Up(p)', Up(q)'
      PROVE  pc'[p] \in Early /\ Registered(q)'
  <2>1. /\ q \in Procs /\ q # p /\ IdOf[q] = IdOf[p] /\ IdOf[p] \in Ids
        /\ p \in Others(q)
    BY DirAssumption DEF Others
  <2>2. ~CheckIds(p)
    <3>1. SUFFICES ASSUME CheckIds(p)
                   PROVE  FALSE
      OBVIOUS
    <3>2. pc[p] = "ids" /\ step[p] = "decide" /\ ~IdInUse(p)
      BY <1>1, <3>1 DEF CheckIds, DirTypeOK, Up, Down
    <3>3. seen[p][IdOf[p]] \in Docs
      BY <1>1, <3>2 DEF IdSeen
    <3>4. Active(seen[p][IdOf[p]])
      BY <1>1, <2>1, <3>3 DEF SeenLive, Actors
    <3> QED
      BY <2>1, <3>2, <3>4 DEF IdInUse, Listed
  <2>3. ~Refused(q)
    <3>1. dir[IdOf[q]] # "absent"
      BY <1>1, <2>1 DEF LiveKeepsFiles
    <3>2. pc[q] = "bind" => sock[IdOf[q]] = None
      BY <2>1 DEF Bindable
    <3>3. ASSUME pc[q] = "probe", LiveSocket(IdOf[q])
          PROVE  FALSE
      <4> DEFINE r == sock[IdOf[q]]
      <4>1. r \in bound /\ r \in Procs /\ IdOf[r] = IdOf[q]
        BY <2>1, <3>3 DEF LiveSocket, SockOwned, DirTypeOK
      <4>2. pc[r] \in {"publish", "serving", "exit", "unlisten"}
        BY <4>1 DEF Staged
      <4>3. r \in Others(q)
        BY <2>1, <3>3, <4>1, <4>2 DEF Others
      <4> QED
        BY <2>1, <3>3, <4>2, <4>3 DEF OnePerId, Up, Down, Early, Serving
    <3> QED
      BY <3>1, <3>2, <3>3 DEF Refused
  <2>4. ~BeginClose(q)
    BY <1>1, <2>1 DEF BeginClose, Restricted, Early, Starting
  <2> QED
    BY <1>1, <2>1, <2>2, <2>3, <2>4 DEF Moves, Onward
<1>2. ASSUME NEW p \in Procs, NEW q \in Others(p), Launch(p), Up(q)'
      PROVE  pc'[p] \in Early /\ Registered(q)'
  <2>1. /\ q \in Procs /\ q # p /\ p \in Cli
        /\ pc'[p] = "names" /\ pc'[q] = pc[q]
    BY <1>2 DEF Others, Launch, Goes, Restricted, DirTypeOK
  <2>2. pc[q] \notin Starting \cup Closing
    BY <1>2 DEF Launch, MayStart, Restricted
  <2> QED
    BY <1>2, <2>1, <2>2 DEF Early, Registered, Up, DirTypeOK
<1> SUFFICES ASSUME NEW p \in Procs, NEW q \in Others(p), Up(p)', Up(q)'
             PROVE  \/ pc'[p] \in Early /\ Registered(q)'
                    \/ pc'[q] \in Early /\ Registered(p)'
  BY DEF OnePerId, Others, Registered
<1>3. q \in Procs /\ p \in Others(q)
  BY DEF Others
<1>4. CASE Launch(p) \/ Launch(q)
  BY <1>2, <1>3, <1>4
<1>5. CASE ~Launch(p) /\ ~Launch(q)
  <2>1. Up(p) /\ Up(q)
    BY <1>3, <1>5 DEF Moves, Onward, Up, Down
  <2> QED
    BY <1>1, <1>3, <2>1 DEF OnePerId, Registered
<1> QED
  BY <1>4, <1>5

\* A registered terminal keeps its files: whoever writes, removes or unlinks
\* has read something else, or is that terminal.
LEMMA LiveKept ==
  ASSUME DirTypeOK, Moves, OnePerId, SeenLive, NotRemoved, Scanned, Staged,
         LiveKeepsFiles
  PROVE  LiveKeepsFiles'
<1> SUFFICES ASSUME NEW p \in Procs, Registered(p)'
             PROVE  /\ dir'[IdOf[p]] # "absent"
                    /\ meta'[IdOf[p]] \in Docs
                    /\ meta'[IdOf[p]].owner = p
                    /\ meta'[IdOf[p]].state # "Exited"
                    /\ p \in bound' => sock'[IdOf[p]] = p
  BY DocFacts DEF LiveKeepsFiles, Active
<1> DEFINE k == IdOf[p]
<1>1. k \in Ids
  BY DirAssumption
<1>2. CASE Registered(p)
  <2>1. /\ Up(p) /\ dir[k] # "absent" /\ meta[k] \in Docs /\ meta[k].owner = p
        /\ meta[k].state # "Exited"
        /\ p \in bound => sock[k] = p /\ pc[p] \in {"publish", "serving"}
    BY <1>1, <1>2
       DEF LiveKeepsFiles, Active, Staged, Registered, DirTypeOK, Up, Serving,
           Down
  <2>2. ~Removed(k)
    <3>1. ASSUME NEW c \in Cleaners, k \in todo[c], step[c] = "prune"
          PROVE  FALSE
      BY <1>2, <3>1 DEF Scanned, SeenLive, Active, Actors
    <3>2. ASSUME NEW c \in Cleaners, step[c] = k
          PROVE  FALSE
      BY <1>2, <3>2 DEF NotRemoved, Doomed, Actors
    <3> QED
      BY <3>1, <3>2 DEF Removed
  <2>3. \A a \in Actors : seen[a][k] \in Docs => seen[a][k].owner = p
    BY <1>2 DEF SeenLive
  <2>4. ASSUME NEW r \in Procs, r # p, IdOf[r] = k, Up(r)
        PROVE  pc[r] \in Early
    BY <1>2, <2>1, <2>4 DEF OnePerId, Others, Registered, Early, Serving
  <2>5. \A r \in Procs : pc[r] \in Early => pc[r] # "create" /\ r \notin Registrants
    BY DEF Early, Registrants, Starting
  <2>6. /\ dir'[k] # "absent" /\ meta'[k] \in Docs /\ meta'[k].owner = p
        /\ meta'[k].state # "Exited"
    BY <1>1, <2>1, <2>2, <2>3, <2>4, <2>5 DEF Moves, MetaMoves
  <2>7. p \in bound' => sock'[k] = p
    <3>1. \A r \in Procs : pc[r] \in {"unlink", "bind", "unlisten", "unsock"} =>
             Up(r) /\ pc[r] \notin Early
      BY DEF Up, Down, Early
    <3> QED
      BY <1>1, <2>1, <2>2, <2>4, <3>1 DEF Moves, SockMoves
  <2> QED
    BY <2>6, <2>7
<1>3. CASE WriteFirst(p)
  <2>1. /\ pc[p] = "create" /\ bound' = bound /\ dir[k] # "absent"
        /\ Write(p, "Initializing")
    BY <1>3 DEF WriteFirst, Update, Goes, Registered, Serving, DirTypeOK
  <2>2. p \notin bound
    BY <2>1 DEF Staged
  <2> QED
    BY <1>1, <2>1, <2>2, WriteLeaves DEF States, DirTypeOK
<1> QED
  BY <1>2, <1>3 DEF Moves, Onward

-----------------------------------------------------------------------------
\* The run directory as it is found satisfies the invariant,
LEMMA DirStarts ==
  ASSUME DirInit
  PROVE  DirInv
<1>1. DirTypeOK
  <2>1. TypesOfFiles
    BY DEF DirInit, TypesOfFiles
  <2>2. TypesOfProcs
    BY DEF DirInit, TypesOfProcs, Down
  <2>3. TypesOfScans
    BY DEF DirInit, TypesOfScans, Steps
  <2> QED
    BY <2>1, <2>2, <2>3 DEF DirTypeOK, TypesOfFiles, TypesOfProcs, TypesOfScans
<1>2. \A p \in Procs : ~Up(p) /\ ~Registered(p) /\ pc[p] \notin Starting
  BY DEF DirInit, Up, Down, Registered, Serving, Starting
<1>3. OnePerId /\ Alone /\ NewEntry /\ SeenLive /\ NotRemoved /\ LiveKeepsFiles
  BY <1>2 DEF OnePerId, Others, Alone, NewEntry, SeenLive, NotRemoved,
         LiveKeepsFiles
<1>4. MetaOwned /\ SeenOwned /\ SockOwned /\ UnusedId
  BY DocFacts, DirAssumption DEF DirInit, MetaOwned, SeenOwned, SockOwned,
         UnusedId
<1>5. Staged /\ Bindable /\ Scanned /\ IdSeen /\ NameSeen
  BY DEF DirInit, Staged, Bindable, Scanned, IdSeen, NameSeen, Actors
<1> QED
  BY <1>1, <1>3, <1>4, <1>5 DEF DirInv

\* and every step keeps it.
LEMMA DirKept ==
  ASSUME DirInv, Restricted, [DirNext]_dirVars
  PROVE  DirInv'
<1> USE DEF DirInv
<1>1. DirTypeOK'
  BY FileTypes, ProcTypes, ScanTypes
     DEF DirTypeOK, TypesOfFiles, TypesOfProcs, TypesOfScans
<1>2. Moves /\ Staged' /\ Scanned'
  BY StepMoves, StagedKept, ScannedKept
<1>3. MetaOwned' /\ SeenOwned' /\ SockOwned' /\ Bindable'
  BY <1>2, MetaOwnedKept, SeenOwnedKept, SockOwnedKept, BindableKept
<1>4. Alone' /\ NewEntry' /\ UnusedId'
  BY <1>1, <1>2, AloneKept, NewEntryKept, UnusedIdKept DEF Restricted
<1>5. SeenLive' /\ NotRemoved' /\ IdSeen' /\ NameSeen'
  BY <1>2, SeenLiveKept, NotRemovedKept, IdSeenKept, NameSeenKept
<1>6. OnePerId' /\ LiveKeepsFiles'
  BY <1>2, OnePerIdKept, LiveKept
<1> QED
  BY <1>1, <1>2, <1>3, <1>4, <1>5, <1>6

\* The invariant holds always.
LEMMA DirAlways ==
  ASSUME Restricted
  PROVE  DirSpec => []DirInv
<1>1. DirInit => DirInv
  BY DirStarts
<1>2. DirInv /\ [DirNext]_dirVars => DirInv'
  BY DirKept
<1> QED
  BY <1>1, <1>2, PTL DEF DirSpec

\* A terminal that has registered and is not closing keeps its directory, its
\* document and its socket, for any number of terminals, IDs, scans and prunes
\* (metadata.go, sockets.go, reconcile.go, orphans.go).
THEOREM LiveKeepsFilesAlways ==
  ASSUME Restricted
  PROVE  DirSpec => []LiveKeepsFiles
<1>1. DirInv => LiveKeepsFiles
  BY DEF DirInv
<1> QED
  BY <1>1, DirAlways, PTL

\* A start that sbsh has checked does not register under a name that a terminal
\* has served under since before its launch (VerifyTerminalNameAvailable).
THEOREM NamesDistinctAlways ==
  ASSUME Restricted
  PROVE  DirSpec => []NamesDistinct
<1>1. DirInv => NamesDistinct
  BY DirAssumption DEF DirInv, NameSeen, NamesDistinct, Registered, Up, Down,
         Serving
<1> QED
  BY <1>1, DirAlways, PTL
=============================================================================
