---------------------------- MODULE Persistence ----------------------------
(***************************************************************************)
(* The server with a data directory: every mutation of the store journals  *)
(* its operations one after the other, under the lock, after it was made   *)
(* in memory; the server may be killed between any two writes, stopped,    *)
(* and booted again (state.rs, scheduler.rs, journal.rs, and lib.rs of     *)
(* bigtop-server).                                                         *)
(*                                                                         *)
(* The agents are an environment here: a node registers once, and a task   *)
(* that was handed out is reported on.  At most one server runs: another   *)
(* that is started finds the lock file and ends, and changes nothing.      *)
(***************************************************************************)
EXTENDS Journal

CONSTANTS
    Reported,     \* the states agents report
    MaxLapses,    \* how often a node may miss its heartbeats
    MaxFailures,  \* how many appends may fail
    MaxKills,     \* how often the server may be killed
    MaxStops,     \* how often it may be shut down
    MaxOutages    \* how many failures, kills and stops there may be together

ASSUME PersistenceAssumption ==
    /\ FirstHost =< LastHost
    /\ Reported \subseteq {"running"} \cup Terminal
    /\ {MaxLapses, MaxFailures, MaxKills, MaxStops, MaxOutages} \subseteq Nat

VARIABLES
    mode,    \* the server: serving, compacted (stopping), down, refused, panicked
    db,      \* its store, in memory
    used,    \* its accounting
    tick,    \* where the scheduling pass is
    queue,   \* place_pending's list
    todo,    \* operations of the mutation in progress still to be appended
    clean,   \* history: every mutation was journaled once, and as a whole
    file,    \* journal.jsonl
    snap,    \* snapshot.json; the empty store when there is none
    lock,    \* bigtop.lock is there
    joined,  \* node ids that were made up for a registration
    known,   \* those that were answered to an agent
    handed,  \* tasks an agent was asked to start
    acked,   \* history: tasks of which a terminal report was acknowledged
    faults   \* history: how many of each fault happened

disk == <<file, snap, lock>>
agents == <<joined, known, handed>>
vars == <<mode, db, used, tick, queue, todo, clean, disk, agents, acked, faults>>

NobodyUses == [n \in Nodes |-> NoResources]

Init ==
    /\ mode = "down"
    /\ db = EmptyStore
    /\ used = NobodyUses
    /\ tick = "idle"
    /\ queue = {}
    /\ todo = <<>>
    /\ clean = TRUE
    /\ file = EmptyFile
    /\ snap = EmptyStore
    /\ lock = FALSE
    /\ joined = {}
    /\ known = {}
    /\ handed = {}
    /\ acked = {}
    /\ faults = [lapses |-> 0, failures |-> 0, kills |-> 0, stops |-> 0]

\* Nobody has the lock, or the pass that has it comes to its next round
Serving == mode = "serving" /\ todo = <<>>
Unlocked == Serving /\ tick = "idle"

Outages == faults.failures + faults.kills + faults.stops

Mutate(store, ops) == db' = store /\ todo' = ops

-----------------------------------------------------------------------------
(* Handlers *)

Submit(job) ==
    /\ Unlocked
    /\ job # {} /\ \A t \in job : db.state[t] = "absent"
    /\ Mutate(CreateJob(db, job), <<OpCreateJob(job)>>)
    /\ UNCHANGED <<mode, used, tick, queue, clean, disk, agents, acked, faults>>

Join(n) ==
    /\ Unlocked
    /\ n \notin joined
    /\ joined' = joined \cup {n}
    /\ Mutate(RegisterNode(db, n), <<OpRegisterNode(n)>>)
    /\ used' = [used EXCEPT ![n] = NoResources]
    /\ UNCHANGED <<mode, tick, queue, clean, disk, known, handed, acked, faults>>

\* Not journaled
Beat(n) ==
    /\ Unlocked
    /\ n \in known \ db.alive
    /\ db' = Heartbeat(db, n)
    /\ db' # db
    /\ UNCHANGED <<mode, used, tick, queue, todo, clean, disk, agents, acked, faults>>

Miss(n) ==
    /\ Unlocked
    /\ n \in db.alive
    /\ faults.lapses < MaxLapses
    /\ faults' = [faults EXCEPT !.lapses = @ + 1]
    /\ db' = Lapse(db, n)
    /\ UNCHANGED <<mode, used, tick, queue, todo, clean, disk, agents, acked>>

\* The assignments handler has answered n
HandOut(n) ==
    /\ Unlocked
    /\ n \in known
    /\ ~ (Assignments(db, n) \subseteq handed)
    /\ handed' = handed \cup Assignments(db, n)
    /\ UNCHANGED <<mode, db, used, tick, queue, todo, clean, disk, joined, known, acked, faults>>

\* A report, late ones included
Report(t, s) ==
    /\ Unlocked
    /\ t \in handed
    /\ ~Refused(db, t)
    /\ db.state[t] # s
    /\ Mutate(SetTaskState(db, t, s), SetTaskStateOps(db, t, s))
    /\ UNCHANGED <<mode, used, tick, queue, clean, disk, agents, acked, faults>>

-----------------------------------------------------------------------------
(* The scheduling pass, as in Cluster, with what it journals *)

GoOnWith(q) == queue' = q /\ tick' = IF q = {} THEN "idle" ELSE "place"

RequeueOrphan(t) ==
    /\ Serving
    /\ tick \in {"idle", "requeue"}
    /\ t \in Orphans(db)
    /\ Mutate(Requeue(db, t), RequeueOps(db, t))
    /\ tick' = "requeue"
    /\ UNCHANGED <<mode, used, queue, clean, disk, agents, acked, faults>>

Recount ==
    /\ Serving
    /\ tick \in {"idle", "requeue"}
    /\ Orphans(db) = {}
    /\ used' = RecountUsed(db)
    /\ GoOnWith(Pending(db))
    /\ UNCHANGED <<mode, db, todo, clean, disk, agents, acked, faults>>

NextInQueue(t) == Serving /\ tick = "place" /\ t \in queue /\ \A u \in queue : t =< u

PlaceNext(t, n) ==
    /\ NextInQueue(t)
    /\ Picks(db, used, t, n)
    /\ LET placed == Place(db, t, n) IN
         /\ Mutate(placed, PlaceOps(placed, t, n))
         /\ used' = IF placed.state[t] = "assigned" THEN Commit(used, t, n) ELSE used
    /\ GoOnWith(queue \ {t})
    /\ UNCHANGED <<mode, clean, disk, agents, acked, faults>>

SkipNext(t) ==
    /\ NextInQueue(t)
    /\ Eligible(db, used, t) = {}
    /\ GoOnWith(queue \ {t})
    /\ UNCHANGED <<mode, db, used, todo, clean, disk, agents, acked, faults>>

-----------------------------------------------------------------------------
(* The journal *)

\* With these operations a registration, or a report, has been journaled
Registers(op) == IF op.op = "register_node" THEN {op.node} ELSE {}
Acknowledges(op) == op.op = "set_task_state" /\ op.state \in Terminal

AppendNext ==
    /\ todo # <<>>
    /\ file' = Appended(file, Head(todo))
    /\ todo' = Tail(todo)
    /\ acked' = IF Acknowledges(Head(todo)) THEN acked \cup {Head(todo).task} ELSE acked
    /\ known' = known \cup Registers(Head(todo))
    /\ UNCHANGED <<mode, db, used, tick, queue, clean, snap, lock, joined, handed, faults>>

(***************************************************************************)
(* An append fails: the caller gets an error, the mutation stays as it is  *)
(* in memory, and a pass ends here.                                        *)
(***************************************************************************)
AppendFails ==
    /\ todo # <<>>
    /\ faults.failures < MaxFailures /\ Outages < MaxOutages
    /\ faults' = [faults EXCEPT !.failures = @ + 1]
    /\ file' \in Interrupted(file, Head(todo))
    /\ todo' = <<>>
    /\ tick' = "idle" /\ queue' = {}
    /\ clean' = FALSE
    /\ UNCHANGED <<mode, db, used, snap, lock, agents, acked>>

-----------------------------------------------------------------------------
(* Boot, kill, shutdown *)

\* Never the last operation of a mutation
OfIpam(op) == op.op \in {"ipam_allocate", "ipam_release"}

\* A server was killed between the two operations of a mutation
EndsInHalf(f) == f.lines # <<>> /\ OfIpam(Last(f.lines))

Builds == {"debug", "release"}

(***************************************************************************)
(* DirLock, then load_persistent_state: repair, then replay or refuse.  A  *)
(* debug build panics at an address that is not the journaled one, and     *)
(* unwinding drops DirLock; the operator may try again, with either build. *)
(***************************************************************************)
Boot(build) ==
    /\ mode \in {"down", "panicked"}
    /\ ~lock
    /\ file' = Repaired(file)
    /\ clean' = (clean /\ ~EndsInHalf(file'))
    /\ IF Readable(file) /\ (build = "release" \/ Agrees(snap, file'.lines))
       THEN /\ mode' = "serving"
            /\ db' = Replay(snap, file'.lines)
            /\ used' = RecountUsed(db')
            /\ lock' = TRUE
       ELSE /\ mode' = IF Readable(file) THEN "panicked" ELSE "refused"
            /\ UNCHANGED <<db, used, lock>>
    /\ UNCHANGED <<tick, queue, todo, snap, agents, acked, faults>>

\* After a kill the operator, who finds no server running, removes the lock
RemoveLock ==
    /\ mode = "down"
    /\ lock
    /\ lock' = FALSE
    /\ UNCHANGED <<mode, db, used, tick, queue, todo, clean, file, snap, agents, acked, faults>>

\* The process and its memory are gone
Gone ==
    /\ mode' = "down"
    /\ db' = EmptyStore /\ used' = NobodyUses
    /\ tick' = "idle" /\ queue' = {} /\ todo' = <<>>
    /\ UNCHANGED <<agents, acked>>

Kill ==
    /\ mode \in {"serving", "compacted"}
    /\ faults.kills < MaxKills /\ Outages < MaxOutages
    /\ faults' = [faults EXCEPT !.kills = @ + 1]
    /\ file' \in IF todo = <<>> THEN {file} ELSE Interrupted(file, Head(todo))
    /\ clean' = (clean /\ mode # "compacted")
    /\ UNCHANGED <<snap, lock>>
    /\ Gone

\* Mutant: the snapshot is written and never renamed
CompactKeepingSnapshot ==
    /\ Unlocked
    /\ faults.stops < MaxStops /\ Outages < MaxOutages
    /\ faults' = [faults EXCEPT !.stops = @ + 1]
    /\ mode' = "compacted"
    /\ UNCHANGED <<db, used, tick, queue, todo, clean, disk, agents, acked>>

(***************************************************************************)
(* The shutdown hook, on a server that no longer serves requests, after    *)
(* the last pass: capture, snapshot.json.tmp, rename.  A kill before the   *)
(* rename is a kill of a serving server.                                   *)
(***************************************************************************)
Compact ==
    /\ Unlocked
    /\ faults.stops < MaxStops /\ Outages < MaxOutages
    /\ faults' = [faults EXCEPT !.stops = @ + 1]
    /\ mode' = "compacted"
    /\ snap' = db
    /\ UNCHANGED <<db, used, tick, queue, todo, clean, file, lock, agents, acked>>

\* truncate_journal, and the process ends: DirLock is dropped
Truncate ==
    /\ mode = "compacted"
    /\ file' = EmptyFile
    /\ lock' = FALSE
    /\ UNCHANGED <<clean, snap, faults>>
    /\ Gone

Next ==
    \/ \E job \in SUBSET Tasks : Submit(job)
    \/ \E n \in Nodes : Join(n) \/ Beat(n) \/ Miss(n) \/ HandOut(n)
    \/ \E t \in Tasks :
          \/ \E s \in Reported : Report(t, s)
          \/ RequeueOrphan(t) \/ SkipNext(t) \/ (\E n \in Nodes : PlaceNext(t, n))
    \/ Recount
    \/ AppendNext \/ AppendFails
    \/ (\E build \in Builds : Boot(build))
    \/ Kill \/ Compact \/ Truncate \/ RemoveLock

Spec == Init /\ [][Next]_vars

-----------------------------------------------------------------------------
(* Properties *)

TypeOK ==
    /\ mode \in {"serving", "compacted", "down", "refused", "panicked"}
    /\ db \in Stores /\ snap \in Stores
    /\ tick \in {"idle", "requeue", "place"}
    /\ queue \subseteq Tasks
    /\ tick # "idle" \/ queue # {} \/ todo # <<>> => mode = "serving"
    /\ todo \in Seq(Operations) /\ Len(todo) =< 2
    /\ file \in Files /\ Len(file.tail) =< 1
    /\ {clean, lock} \subseteq BOOLEAN
    /\ mode \in {"serving", "compacted"} => lock
    /\ {joined, known} \subseteq SUBSET Nodes
    /\ {handed, acked} \subseteq SUBSET Tasks
    /\ faults \in [lapses : Nat, failures : Nat, kills : Nat, stops : Nat]

(***************************************************************************)
(* As long as mutations are journaled once and as a whole, the journal,    *)
(* with what the mutation in progress has yet to append, replays to exactly*)
(* the store in memory, addresses, /24s and states included.               *)
(***************************************************************************)
ReplayExact ==
    mode = "serving" /\ clean => Replay(snap, file.lines \o todo) = Restored(db)

(***************************************************************************)
(* However often the server is killed, and wherever in a write, a release  *)
(* build boots: the only line that is no operation is the last, and is     *)
(* repaired.  So does a debug build, which asserts that replay hands out   *)
(* the addresses that were journaled, unless a kill left half a mutation,  *)
(* or a snapshot with the journal it was made from.                        *)
(***************************************************************************)
KilledServerBoots ==
    faults.failures = 0 =>
        /\ Readable(file) /\ mode # "refused"
        /\ mode = "panicked" => ~clean

(***************************************************************************)
(* A terminal report that was acknowledged is never forgotten, whatever is *)
(* killed, compacted and replayed after it.                                *)
(***************************************************************************)
AckedFinal ==
    mode = "serving" /\ faults.failures = 0 => \A t \in acked : IsTerminal(db, t)

(***************************************************************************)
(* SPEC.md:479: "On startup the server replays the journal in order and    *)
(* resumes exactly where it left off (tasks, nodes, IPAM, ...)": its live  *)
(* tasks still have different addresses.                                   *)
(***************************************************************************)
AddressesSurvive ==
    Serving => \A t, u \in Tasks :
        t # u /\ Addressed(db, t) /\ Addressed(db, u) => db.net[t].ip # db.net[u].ip
-----------------------------------------------------------------------------
(* What the properties rest on *)

\* Every task waiting to be placed is still pending
QueuePending == queue \subseteq Pending(db) /\ (tick # "place" => queue = {})

\* What a mutation in progress has yet to append: the last operation alone
\* changes a task, and a report that it acknowledges was already taken
TodoOK ==
    /\ Len(todo) = 2 => OfIpam(todo[1])
    /\ \A i \in 1 .. Len(todo) : Acknowledges(todo[i]) => IsTerminal(db, todo[i].task)

\* Without a failed append a boot finds operations only, and a server has
\* repaired the end of the file
FileOK ==
    faults.failures = 0 =>
        /\ Readable(file) /\ mode # "refused"
        /\ mode # "down" => file.tail = <<>>

Whole(s) == StoreOK(s) /\ Unplaced(s)

\* The store a boot would come up with now
OnDisk == Replay(snap, Repaired(file).lines)

(***************************************************************************)
(* ReplayExact, and what it takes for it to hold again after a kill: as    *)
(* long as the file does not end in half a mutation, what it replays to is *)
(* a store between two mutations.                                          *)
(***************************************************************************)
ExactOK ==
    clean =>
        /\ faults.failures = 0
        /\ mode = "serving" =>
              Whole(db) /\ Replay(snap, file.lines \o todo) = Restored(db)
        /\ mode = "compacted" => Whole(db) /\ snap = db
        /\ mode \in {"serving", "down"} =>
              EndsInHalf(Repaired(file)) \/ (Whole(OnDisk) /\ Restored(OnDisk) = OnDisk)

\* As long as mutations are journaled as a whole, every address is replayed as it
\* was journaled, up to the last operation of the mutation in progress
AgreeOK ==
    clean =>
        /\ mode # "panicked"
        /\ mode # "compacted" => Agrees(snap, Repaired(file).lines \o todo)

(***************************************************************************)
(* Half a mutation, or a journal replayed onto a snapshot that has it      *)
(* already, may get addresses wrong but no state that was acknowledged.    *)
(***************************************************************************)
StatesOK ==
    faults.failures = 0 =>
        /\ mode = "serving" => Replay(snap, file.lines \o todo).state = db.state
        /\ \A t \in acked :
              /\ IsTerminal(OnDisk, t)
              /\ mode = "serving" => IsTerminal(db, t)
              /\ mode = "compacted" => IsTerminal(snap, t)

IInv == TypeOK /\ QueuePending /\ TodoOK /\ FileOK /\ ExactOK /\ AgreeOK /\ StatesOK
=============================================================================
