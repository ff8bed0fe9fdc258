---------------------------- MODULE RunDirectory ----------------------------
(***************************************************************************)
(* The run directory that the terminals of one user share:                 *)
(* terminals/<id>/ with metadata.json and the control socket.  Terminal    *)
(* processes create, update and close their entry (metadata.go, sockets.go,*)
(* lifecycle.go); every start, listing and prune scans all entries,        *)
(* reconciles what it has read, and prunes (internal/discovery,            *)
(* pkg/discovery).  No lock is taken: only a single write (a rename), bind *)
(* or unlink is atomic.                                                    *)
(*                                                                         *)
(* A document is the process that wrote it, the state it claims, and       *)
(* whether it names its directory (and pid, which is set with it).         *)
(* RemoveAll is one step, and a scan reads all documents in one step.      *)
(***************************************************************************)
EXTENDS FiniteSets

CONSTANTS Procs,     \* terminal processes, one start each
          Cleaners,  \* processes of sb get and sb prune, again and again
          Ids,       \* terminal IDs
          Leftover,  \* those with an old entry that nobody can read
          IdOf, NameOf, PidOf, \* what each start is given; pids are recycled
          Cli,       \* the starts that go through sbsh (others: an embedder)
          Tokens,    \* those whose document records the process's start time
          Blind,     \* actors that may fail to read the start time of a process
          Exclusive, \* an ID is recycled by one start at a time, after its last
                     \* owner is gone and while nobody else scans
          None

ASSUME DirAssumption ==
    /\ IdOf \in [Procs -> Ids] /\ DOMAIN NameOf = Procs /\ DOMAIN PidOf = Procs
    /\ Cli \subseteq Procs /\ Leftover \subseteq Ids /\ Exclusive \in BOOLEAN
    /\ Procs \cap Cleaners = {} /\ None \notin Procs /\ Tokens \subseteq Procs
    /\ Blind \subseteq Procs \cup Cleaners

Actors == Procs \cup Cleaners
Steps  == {"idle", "reconcile", "decide", "prune", "orphans", "remove"}
States == {"Initializing", "Ready", "Exited"}
Docs   == [owner : Procs, state : States, path : BOOLEAN]
NoDoc  == [owner |-> None, state |-> "Exited", path |-> FALSE]

ASSUME NoneAssumption == None \notin Docs \cup {NoDoc}
ASSUME IdAssumption   == Ids \cap Steps = {}

VARIABLES dir,   \* the directory: absent, young (changed in the last 30 s), old
          meta,  \* its metadata.json, NoDoc or a corrupt file
          sock,  \* whose socket is at its control socket's path
          pc,    \* where a process stands in its start, life and Close
          bound, \* the processes whose listener is open
          known, \* what a process's Status names: nothing, its directory, the socket
          copy,  \* the processes of which a goroutine holds a metadata copy
          step,  \* where an actor stands in its scan, or the orphan it removes
          seen,  \* the documents it has read
          todo,  \* the entries it still has to look at
          before \* those serving under a process's name when it was started

fileVars == <<dir, meta, sock>>
procVars == <<pc, bound, known, copy, before>>
scanVars == <<step, seen, todo>>
dirVars  == <<fileVars, procVars, scanVars>>

Starting == {"names", "ids", "owner", "mkdir", "create"}
Serving  == {"socket", "probe", "unlink", "bind", "publish", "serving"}
Closing  == {"exit", "unlisten", "unsock"}
Down     == {"unborn", "down"}

Up(p)       == pc[p] \notin Down
Corrupt(i)  == meta[i] = None

DirTypeOK ==
    /\ dir \in [Ids -> {"absent", "young", "old"}]
    /\ meta \in [Ids -> Docs \cup {NoDoc, None}]
    /\ sock \in [Ids -> Procs \cup {None}]
    /\ pc \in [Procs -> Starting \cup Serving \cup Closing \cup Down]
    /\ bound \subseteq Procs /\ copy \subseteq Procs
    /\ known \in [Procs -> {"none", "dir", "socket"}]
    /\ step \in [Actors -> Steps \cup Ids]
    /\ seen \in [Actors -> [Ids -> Docs \cup {NoDoc}]]
    /\ todo \in [Actors -> SUBSET Ids]
    /\ before \in [Procs -> SUBSET Procs]

\* An entry is absent, or left behind long ago with an unreadable document.
DirInit ==
    /\ meta = [i \in Ids |-> IF i \in Leftover THEN None ELSE NoDoc]
    /\ dir = [i \in Ids |-> IF i \in Leftover THEN "old" ELSE "absent"]
    /\ sock = [i \in Ids |-> None]
    /\ pc = [p \in Procs |-> "unborn"]
    /\ bound = {} /\ copy = {}
    /\ known = [p \in Procs |-> "none"]
    /\ step = [a \in Actors |-> "idle"]
    /\ seen = [a \in Actors |-> [i \in Ids |-> NoDoc]]
    /\ todo = [a \in Actors |-> {}]
    /\ before = [p \in Procs |-> {}]

-----------------------------------------------------------------------------
(***************************************************************************)
(* What the code asks of a document and of a socket.                       *)
(***************************************************************************)
\* isProcessAlive: signal 0 to the pid, and a pid that was never written counts.
PidInUse(d) == ~d.path \/ \E q \in Procs : Up(q) /\ PidOf[q] = PidOf[d.owner]

\* Mutant: the start-time token is not compared.
MutInstanceAlive(d) == PidInUse(d)

\* A token, if the document has one, is that of the process that wrote it.
InstanceAlive(d) == PidInUse(d) /\ (d.owner \in Tokens => Up(d.owner))

\* The token of the process that has the pid cannot be read: it counts as alive.
Inconclusive(a, d) == a \in Blind /\ d.owner \in Tokens /\ PidInUse(d)

Active(d) == d.state # "Exited"
Stale(d)  == Active(d) /\ ~InstanceAlive(d)

\* A dial is answered as long as the listener of the inode is open.
LiveSocket(i) == sock[i] \in bound

Goes(p, from, to) == pc[p] = from /\ pc' = [pc EXCEPT ![p] = to]

Touch(i) == dir' = [dir EXCEPT ![i] = "young"]

\* WriteMetadata: a temporary file and a rename, in a directory that exists.
Write(p, state) ==
    /\ Touch(IdOf[p])
    /\ meta' = [meta EXCEPT ![IdOf[p]] =
                [owner |-> p, state |-> state, path |-> known'[p] # "none"]]

(***************************************************************************)
(* Scan and reconcile.  A start recycles its ID when the ID was used       *)
(* before, or somebody is about to remove what was left under it; a live   *)
(* terminal's ID is not recycled, the start is refused.                    *)
(***************************************************************************)
\* What an actor has found without a document and has not yet removed.
Doomed(a, i) == step[a] = i \/ (step[a] \in Ids \cup {"remove"} /\ i \in todo[a])
Others(p)    == {q \in Procs \ {p} : IdOf[q] = IdOf[p]}
Recycles(p)  == \/ Corrupt(IdOf[p]) \/ \E q \in Others(p) : pc[q] # "unborn"
                \/ \E a \in Actors : Doomed(a, IdOf[p])
MayScan(a)   == Exclusive => \A p \in Procs \ {a} : ~(pc[p] \in Starting /\ Recycles(p))
MayStart(p)  ==
    Exclusive => /\ \A q \in Others(p) : pc[q] \notin Starting \cup Closing
                 /\ Recycles(p) => /\ \A a \in Actors : step[a] = "idle"
                                   /\ \A q \in Procs \ {p} : pc[q] \notin Starting

\* scanMetadataFiles: missing and corrupt files are skipped.
Scan(a) ==
    /\ step[a] = "idle" /\ step' = [step EXCEPT ![a] = "reconcile"]
    /\ MayScan(a)
    /\ LET found == {i \in Ids : meta[i] \notin {NoDoc, None}}
       IN /\ seen' = [seen EXCEPT ![a] =
                         [i \in Ids |-> IF i \in found THEN meta[i] ELSE NoDoc]]
          /\ todo' = [todo EXCEPT ![a] = found]
    /\ UNCHANGED <<fileVars, procVars>>

\* reconcileTerminal: what was read, with state Exited, replaces what is there.
Reconcile(a, i) ==
    /\ step[a] = "reconcile" /\ i \in todo[a]
    /\ todo' = [todo EXCEPT ![a] = @ \ {i}]
    /\ LET d == seen[a][i] IN
       \/ /\ Stale(d)
          /\ seen' = [seen EXCEPT ![a][i].state = "Exited"]
          /\ \/ dir[i] = "absent" /\ UNCHANGED <<dir, meta>>
             \/ /\ dir[i] # "absent" /\ Touch(i)
                /\ meta' = [meta EXCEPT ![i] = [d EXCEPT !.state = "Exited"]]
       \/ /\ Stale(d) => Inconclusive(a, d)
          /\ UNCHANGED <<seen, dir, meta>>
    /\ UNCHANGED <<sock, procVars, step>>

EndReconcile(a) ==
    /\ step[a] = "reconcile" /\ todo[a] = {}
    /\ step' = [step EXCEPT ![a] = "decide"]
    /\ UNCHANGED <<fileVars, procVars, seen, todo>>

Listed(a) == {i \in Ids : Active(seen[a][i])}

ScanEnds(a, to) ==
    /\ step' = [step EXCEPT ![a] = to]
    /\ seen' = [seen EXCEPT ![a] = [i \in Ids |-> NoDoc]]

-----------------------------------------------------------------------------
(***************************************************************************)
(* A start: the two checks of sbsh, then CreateMetadata and OpenSocketCtrl.*)
(***************************************************************************)
Launch(p) ==
    /\ Goes(p, "unborn", IF p \in Cli THEN "names" ELSE "owner")
    /\ \A q \in Procs : Up(q) => PidOf[q] # PidOf[p]
    /\ MayStart(p)
    /\ before' = [before EXCEPT ![p] = {q \in Procs : pc[q] = "serving" /\ NameOf[q] = NameOf[p]}]
    /\ UNCHANGED <<fileVars, bound, known, copy, scanVars>>

\* Mutant: the names of terminals that are not yet Ready are not in the way.
MutNameTaken(p) ==
    \E i \in Listed(p) : seen[p][i].state = "Ready" /\ NameOf[seen[p][i].owner] = NameOf[p]

NameTaken(p) == \E i \in Listed(p) : NameOf[seen[p][i].owner] = NameOf[p]
IdInUse(p)   == IdOf[p] \in Listed(p)

\* VerifyTerminalNameAvailable, then VerifyTerminalIDAvailable, each with a
\* scan of its own; a refused start ends here and leaves no trace.
CheckNames(p) ==
    /\ pc[p] = "names" /\ step[p] = "decide"
    /\ pc' = [pc EXCEPT ![p] = IF NameTaken(p) THEN "down" ELSE "ids"]
    /\ ScanEnds(p, "idle")
    /\ UNCHANGED <<fileVars, bound, known, copy, before, todo>>

CheckIds(p) ==
    /\ pc[p] = "ids" /\ step[p] = "decide"
    /\ pc' = [pc EXCEPT ![p] = IF IdInUse(p) THEN "down" ELSE "owner"]
    /\ ScanEnds(p, "idle")
    /\ UNCHANGED <<fileVars, bound, known, copy, before, todo>>

\* liveMetadataOwner.
Owned(p)      == ~Corrupt(IdOf[p]) /\ Active(meta[IdOf[p]])
OwnerLives(p) == Owned(p) /\ InstanceAlive(meta[IdOf[p]])

CheckOwner(p) ==
    /\ \/ ~OwnerLives(p) /\ Goes(p, "owner", "mkdir")
       \/ /\ OwnerLives(p) \/ (Owned(p) /\ Inconclusive(p, meta[IdOf[p]]))
          /\ Goes(p, "owner", "exit")
    /\ UNCHANGED <<fileVars, bound, known, copy, before, scanVars>>

MakeDir(p) ==
    /\ Goes(p, "mkdir", "create")
    /\ IF dir[IdOf[p]] = "absent" THEN Touch(IdOf[p]) ELSE UNCHANGED dir
    /\ UNCHANGED <<meta, sock, bound, known, copy, before, scanVars>>

\* updateMetadata in the start: a failed write ends in Close.
Update(p, from, to) ==
    /\ \/ /\ dir[IdOf[p]] # "absent"
          /\ Goes(p, from, to) /\ Write(p, "Initializing")
       \/ /\ dir[IdOf[p]] = "absent"
          /\ Goes(p, from, "exit") /\ UNCHANGED <<meta, dir>>
    /\ UNCHANGED <<sock, bound, copy, before, scanVars>>

SetStatus(p, what) == known' = [known EXCEPT ![p] = what]

WriteFirst(p) == SetStatus(p, "dir") /\ Update(p, "create", "socket")

\* Status.SocketFile is set before the probe.
NameSocket(p) == SetStatus(p, "socket") /\ Update(p, "socket", "probe")

Probe(p) ==
    /\ Goes(p, "probe", IF LiveSocket(IdOf[p]) THEN "exit" ELSE "unlink")
    /\ UNCHANGED <<fileVars, bound, known, copy, before, scanVars>>

Unlink(p) ==
    /\ Goes(p, "unlink", "bind")
    /\ sock' = [sock EXCEPT ![IdOf[p]] = None]
    /\ UNCHANGED <<dir, meta, bound, known, copy, before, scanVars>>

Bind(p) ==
    /\ \/ /\ dir[IdOf[p]] # "absent" /\ sock[IdOf[p]] = None
          /\ Goes(p, "bind", "publish")
          /\ sock' = [sock EXCEPT ![IdOf[p]] = p] /\ bound' = bound \cup {p}
          /\ Touch(IdOf[p])
       \/ /\ dir[IdOf[p]] = "absent" \/ sock[IdOf[p]] # None
          /\ Goes(p, "bind", "exit") /\ UNCHANGED <<sock, bound, dir>>
    /\ UNCHANGED <<meta, known, copy, before, scanVars>>

Publish(p) == UNCHANGED known /\ Update(p, "publish", "serving")

(***************************************************************************)
(* A life: state updates and attacher updates take a copy under the lock   *)
(* and write it after it.                                                  *)
(***************************************************************************)
TakeCopy(p) ==
    /\ pc[p] = "serving" /\ p \notin copy /\ copy' = copy \cup {p}
    /\ UNCHANGED <<fileVars, pc, bound, known, before, scanVars>>

WriteCopy(p) ==
    /\ Up(p) /\ p \in copy /\ copy' = copy \ {p}
    /\ UNCHANGED <<sock, pc, bound, known, before, scanVars>>
    /\ IF dir[IdOf[p]] = "absent" THEN UNCHANGED <<meta, dir>>
                                 ELSE Write(p, "Ready")

BeginClose(p) ==
    /\ Goes(p, "serving", "exit")
    /\ Exclusive => \A q \in Others(p) : pc[q] \notin Starting
    /\ UNCHANGED <<fileVars, bound, known, copy, before, scanVars>>

\* Close: Exited is written whoever the document belongs to.
WriteExited(p) ==
    /\ Goes(p, "exit", "unlisten")
    /\ UNCHANGED <<sock, bound, known, copy, before, scanVars>>
    /\ IF dir[IdOf[p]] = "absent" THEN UNCHANGED <<meta, dir>>
                                 ELSE Write(p, "Exited")

\* A listener's close removes its path.
CloseListener(p) ==
    /\ Goes(p, "unlisten", "unsock")
    /\ sock' = IF p \in bound THEN [sock EXCEPT ![IdOf[p]] = None] ELSE sock
    /\ bound' = bound \ {p}
    /\ UNCHANGED <<dir, meta, known, copy, before, scanVars>>

\* Close, at its end: the socket's path is removed again, if it was ever set,
\* and the process ends.
RemoveSocket(p) ==
    /\ Goes(p, "unsock", "down")
    /\ sock' = IF known[p] = "socket" THEN [sock EXCEPT ![IdOf[p]] = None] ELSE sock
    /\ copy' = copy \ {p} /\ SetStatus(p, "none")
    /\ UNCHANGED <<dir, meta, bound, before, scanVars>>

\* The process is killed, at any point.
Crash(p) ==
    /\ Up(p) /\ pc' = [pc EXCEPT ![p] = "down"]
    /\ bound' = bound \ {p} /\ copy' = copy \ {p}
    /\ step' = [step EXCEPT ![p] = "idle"]
    /\ seen' = [seen EXCEPT ![p] = [i \in Ids |-> NoDoc]]
    /\ todo' = [todo EXCEPT ![p] = {}]
    /\ SetStatus(p, "none") /\ UNCHANGED <<fileVars, before>>

StartStep(p) == \/ pc[p] \in {"names", "ids"} /\ Scan(p)
                \/ \E i \in Ids : Reconcile(p, i)
                \/ EndReconcile(p) \/ CheckNames(p) \/ CheckIds(p)
                \/ CheckOwner(p) \/ MakeDir(p) \/ WriteFirst(p) \/ NameSocket(p)
                \/ Probe(p) \/ Unlink(p) \/ Bind(p) \/ Publish(p)
CloseStep(p) == WriteExited(p) \/ CloseListener(p) \/ RemoveSocket(p)

-----------------------------------------------------------------------------
(***************************************************************************)
(* sb get and sb prune.                                                    *)
(***************************************************************************)
RemoveAll(i) == /\ dir' = [dir EXCEPT ![i] = "absent"]
                /\ meta' = [meta EXCEPT ![i] = NoDoc]
                /\ sock' = [sock EXCEPT ![i] = None]

\* sb get ends here; sb prune goes on with what it lists as Exited.
Decide(c) ==
    /\ step[c] = "decide"
    /\ \/ ScanEnds(c, "idle") /\ UNCHANGED todo
       \/ /\ step' = [step EXCEPT ![c] = "prune"]
          /\ todo' = [todo EXCEPT ![c] =
                         {i \in Ids \ Listed(c) : seen[c][i] # NoDoc}]
          /\ UNCHANGED seen
    /\ UNCHANGED <<fileVars, procVars>>

\* PruneTerminal: a document without its directory's name removes nothing.
Prune(c, i) ==
    /\ step[c] = "prune" /\ i \in todo[c]
    /\ todo' = [todo EXCEPT ![c] = @ \ {i}]
    /\ \/ seen[c][i].path /\ RemoveAll(i)
       \/ ~seen[c][i].path /\ UNCHANGED fileVars
    /\ UNCHANGED <<procVars, step, seen>>

EndPrune(c) ==
    /\ step[c] = "prune" /\ todo[c] = {}
    /\ ScanEnds(c, "orphans")
    /\ UNCHANGED <<fileVars, procVars, todo>>

\* The first directory that cannot be removed ends sb prune.
PruneFails(c) ==
    /\ step[c] \in Ids \/ (step[c] = "prune" /\ todo[c] # {})
    /\ ScanEnds(c, "idle") /\ todo' = [todo EXCEPT ![c] = {}]
    /\ UNCHANGED <<fileVars, procVars>>

\* Mutant: no grace period.
MutOrphan(i) == dir[i] # "absent" /\ meta[i] \in {NoDoc, None}

\* A directory without a readable document, not changed for 30 s.
Orphan(i) == dir[i] = "old" /\ meta[i] \in {NoDoc, None}

ListOrphans(c) ==
    /\ step[c] = "orphans" /\ step' = [step EXCEPT ![c] = "remove"]
    /\ todo' = [todo EXCEPT ![c] = {i \in Ids : Orphan(i)}]
    /\ UNCHANGED <<fileVars, procVars, seen>>

\* The probe of its sockets and the removal are two steps.
ProbeOrphan(c, i) ==
    /\ step[c] = "remove" /\ i \in todo[c]
    /\ todo' = [todo EXCEPT ![c] = @ \ {i}]
    /\ \/ ~LiveSocket(i) /\ step' = [step EXCEPT ![c] = i]
       \/ LiveSocket(i) /\ UNCHANGED step
    /\ UNCHANGED <<fileVars, procVars, seen>>

RemoveOrphan(c, i) ==
    /\ step[c] = i /\ step' = [step EXCEPT ![c] = "remove"]
    /\ RemoveAll(i)
    /\ UNCHANGED <<procVars, seen, todo>>

EndOrphans(c) ==
    /\ step[c] = "remove" /\ todo[c] = {}
    /\ step' = [step EXCEPT ![c] = "idle"]
    /\ UNCHANGED <<fileVars, procVars, seen, todo>>

CleanStep(c) == \/ Scan(c) \/ EndReconcile(c) \/ Decide(c) \/ EndPrune(c) \/ PruneFails(c)
                \/ ListOrphans(c) \/ EndOrphans(c)
                \/ \E i \in Ids : Reconcile(c, i) \/ Prune(c, i) \/ ProbeOrphan(c, i)
                                    \/ RemoveOrphan(c, i)

\* Thirty seconds without a change: a start writes its document sooner than
\* that after it has made the directory.
Age(i) ==
    /\ dir[i] = "young"
    /\ \A p \in Procs : IdOf[p] = i => pc[p] # "create"
    /\ dir' = [dir EXCEPT ![i] = "old"]
    /\ UNCHANGED <<meta, sock, procVars, scanVars>>

DirNext ==
    \/ \E p \in Procs : \/ Launch(p) \/ StartStep(p) \/ TakeCopy(p) \/ WriteCopy(p)
                        \/ BeginClose(p) \/ CloseStep(p) \/ Crash(p)
    \/ \E c \in Cleaners : CleanStep(c)
    \/ \E i \in Ids : Age(i)

DirSpec == DirInit /\ [][DirNext]_dirVars

\* Cleaners scan again and again, and starts that have begun go on; nobody has
\* to start, close or crash.
DirFairSpec ==
    /\ DirSpec
    /\ WF_dirVars(\E p \in Procs : StartStep(p))
    /\ \A c \in Cleaners : WF_dirVars(CleanStep(c))

-----------------------------------------------------------------------------
Registered(p) == pc[p] \in Serving

\* A terminal that has registered and is not closing keeps its directory, its
\* document and, once it is bound, its socket, whatever the scans, prunes,
\* crashes and starts around it do with other terminals, with the same name,
\* with a recycled ID or with a recycled pid.
LiveKeepsFiles ==
    \A p \in Procs : Registered(p) =>
        /\ dir[IdOf[p]] # "absent"
        /\ meta[IdOf[p]] \notin {NoDoc, None}
        /\ meta[IdOf[p]].owner = p /\ Active(meta[IdOf[p]])
        /\ p \in bound => sock[IdOf[p]] = p

\* A start of sbsh does not register under a name that a terminal has served
\* under since before it was launched.
NamesDistinct ==
    \A p \in Cli : Registered(p) => \A q \in before[p] : ~Registered(q)

\* The document of a process that is gone does not stay active, though the
\* process was killed, its pid is in use again, or a goroutine wrote an old
\* copy over Exited; but where no start time was recorded (as outside Linux) it
\* may while the pid is in use.  Somebody who is not Blind has to scan.
Forgotten(i) == \A p \in Procs :
    pc[p] = "down" /\ ~Corrupt(i) /\ meta[i].owner = p /\ Active(meta[i])
      => p \notin Tokens /\ PidInUse(meta[i])

DeadIsForgotten == \A i \in Ids : []<>Forgotten(i)

\* A start that is refused because a live terminal has the ID leaves that
\* terminal's document and socket alone.
RefusedLeavesOwner ==
    [][\A p, q \in Procs :
          (pc[p] \in Closing /\ p \notin bound /\ pc'[p] # pc[p] /\ Registered(q)
             /\ IdOf[p] = IdOf[q])
          => meta'[IdOf[q]] = meta[IdOf[q]] /\ sock'[IdOf[q]] = sock[IdOf[q]]]_dirVars
=============================================================================
