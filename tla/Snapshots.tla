----------------------------- MODULE Snapshots -----------------------------
(***************************************************************************)
(* Snapshots of one task's microVM: the server's records (state.rs), the   *)
(* poll loop and its handlers, and the watcher that takes a snapshot when  *)
(* the guest signals its completion (agent lib.rs).                        *)
(*                                                                         *)
(* The rest of the cluster is an environment: the task is placed, requeued *)
(* and placed elsewhere while its first agent, partitioned, goes on.  An   *)
(* agent runs a task once: on a Firecracker node the supervisor never      *)
(* returns (run SuperviseVmm), so neither a terminal report nor the abort  *)
(* of the watcher follows there.  A restarted agent is a new node.         *)
(***************************************************************************)
EXTENDS Naturals

CONSTANTS
    Nodes,
    Ids,  \* snapshot ids
    None

ASSUME SnapshotsAssumption == None \notin Nodes

\* Who takes a snapshot on a node
Who == {"poll", "watcher"}
Jobs == Nodes \X Ids \X Who

VARIABLES
    firecracker, \* the agents that were started with the Firecracker runtime
    task,        \* the server's record of the task: its state and its node
    rec,         \* the server's snapshot records
    crashed,     \* the agents that are gone
    unreported,  \* nodes whose Running report is under way
    guest,       \* the task's VM or process on each node
    watch,       \* the watcher of each agent
    asked,       \* per node: the id in the answer to the watcher's request
    poll,        \* per node: the ids in the answer to the poll
    seen,        \* snapshots_seen
    job,         \* how far each handler is
    files,       \* the node has this snapshot's files
    calls,       \* history: calls of take_snapshot
    lost,        \* history: ids of which a final report was lost
    restored     \* the node a restore of the snapshot was pinned to

server == <<task, rec>>
agents == <<firecracker, crashed, unreported, guest>>
claims == <<watch, asked, poll, seen>>
history == <<calls, lost>>
vars == <<server, agents, claims, job, files, history, restored>>

NoRecord == [state |-> "absent", node |-> None]
Records ==
    {NoRecord} \cup
    [state : {"requested", "inprogress", "done", "failed"}, node : Nodes]

Init ==
    /\ firecracker \in SUBSET Nodes
    /\ task = [state |-> "pending", node |-> None]
    /\ rec = [id \in Ids |-> NoRecord]
    /\ crashed = {}
    /\ unreported = {}
    /\ guest = [n \in Nodes |-> "none"]
    /\ watch = [n \in Nodes |-> "none"]
    /\ asked = [n \in Nodes |-> {}]
    /\ poll = [n \in Nodes |-> {}]
    /\ seen = [n \in Nodes |-> {}]
    /\ job = [j \in Jobs |-> "none"]
    /\ files = {}
    /\ calls = [p \in Nodes \X Ids |-> 0]
    /\ lost = {}
    /\ restored = [id \in Ids |-> None]

-----------------------------------------------------------------------------
(* The records *)

\* request_snapshot
Snapshottable == task.state = "running" /\ task.node # None

Request(id) ==
    /\ Snapshottable
    /\ rec[id].state = "absent"
    /\ rec' = [rec EXCEPT ![id] = [state |-> "requested", node |-> task.node]]

\* Mutant: the requests for the task that n has, not those made to n
PendingForTaskOf(n) == {id \in Ids : rec[id].state = "requested" /\ task.node = n}

\* snapshot_requests_for_node
PendingFor(n) == {id \in Ids : rec[id] = [state |-> "requested", node |-> n]}

Legal ==
    ({"requested"} \X {"inprogress", "done", "failed"})
        \cup ({"inprogress"} \X {"done", "failed"})

\* Mutant: the record keeps the node of the request
ReportKeepingNode(id, n, state) ==
    IF <<rec[id].state, state>> \in Legal
    THEN [rec EXCEPT ![id].state = state]
    ELSE rec

\* Mutant: a later report overwrites an outcome
ReportOverwriting(id, n, state) ==
    IF rec[id].state # "absent"
    THEN [rec EXCEPT ![id] = [state |-> state, node |-> n]]
    ELSE rec

\* report_snapshot_result: the records after n's report; a refused one changes none
Report(id, n, state) ==
    IF <<rec[id].state, state>> \in Legal
    THEN [rec EXCEPT ![id] = [state |-> state, node |-> n]]
    ELSE rec

-----------------------------------------------------------------------------
(* The cluster around them *)

\* The task is placed on n, whose agent finds it in its next poll and boots it
Start(n) ==
    /\ task.state = "pending"
    /\ n \notin crashed /\ guest[n] = "none"
    /\ task' = [state |-> "assigned", node |-> n]
    /\ guest' = [guest EXCEPT ![n] = "up"]
    /\ unreported' = unreported \cup {n}
    /\ watch' = [watch EXCEPT
                     ![n] = IF n \in firecracker THEN "waiting" ELSE "over"]
    /\ UNCHANGED <<rec, firecracker, crashed, asked, poll, seen, job, files,
                   history, restored>>

\* Also for a task that has been requeued: it is running on no node then
Running(n) ==
    /\ n \in unreported
    /\ unreported' = unreported \ {n}
    /\ task' = IF task.state = "ended"
               THEN task ELSE [task EXCEPT !.state = "running"]
    /\ UNCHANGED <<rec, firecracker, crashed, guest, claims, job, files, history,
                   restored>>

GuestEnds(n) ==
    /\ guest[n] = "up"
    /\ guest' = [guest EXCEPT ![n] = "gone"]
    /\ UNCHANGED <<server, firecracker, crashed, unreported, claims, job, files,
                   history, restored>>

\* The terminal report, which follows that of Running
Ended(n) ==
    /\ guest[n] = "gone" /\ n \notin firecracker \cup crashed \cup unreported
    /\ task.state # "ended"
    /\ task' = [task EXCEPT !.state = "ended"]
    /\ UNCHANGED <<rec, agents, claims, job, files, history, restored>>

\* The task's node missed its heartbeats: requeue_dead_nodes
Requeue ==
    /\ task.state \in {"assigned", "running"} /\ task.node # None
    /\ task' = [state |-> "pending", node |-> None]
    /\ UNCHANGED <<rec, agents, claims, job, files, history, restored>>

\* With the agent end its handlers, its watcher and, by kill_on_drop, its VMs
Crash(n) ==
    /\ n \notin crashed
    /\ crashed' = crashed \cup {n}
    /\ guest' = [guest EXCEPT ![n] = IF @ = "none" THEN "none" ELSE "gone"]
    /\ watch' = [watch EXCEPT ![n] = "over"]
    /\ asked' = [asked EXCEPT ![n] = {}]
    /\ poll' = [poll EXCEPT ![n] = {}]
    /\ job' = [j \in Jobs |->
                  IF j[1] = n /\ job[j] # "none" THEN "over" ELSE job[j]]
    /\ UNCHANGED <<server, firecracker, unreported, seen, files, history,
                   restored>>

-----------------------------------------------------------------------------
(* The CLI *)

Create(id) ==
    /\ Request(id)
    /\ UNCHANGED <<task, agents, claims, job, files, history, restored>>

\* A job whose task is pinned to the record's node and boots from its files
Restore(id) ==
    /\ rec[id].state = "done"
    /\ restored[id] = None
    /\ restored' = [restored EXCEPT ![id] = rec[id].node]
    /\ UNCHANGED <<server, agents, claims, job, files, history>>

-----------------------------------------------------------------------------
(* The agent's poll loop *)

\* An answer without requests leaves no trace, nor does a poll that fails
PollServe(n) ==
    /\ n \notin crashed
    /\ poll[n] = {} /\ PendingFor(n) # {}
    /\ poll' = [poll EXCEPT ![n] = PendingFor(n)]
    /\ UNCHANGED <<server, agents, watch, asked, seen, job, files, history, restored>>

\* Mutant: every request of the answer gets a handler
PollHandleAll(n) ==
    /\ poll[n] # {}
    /\ job' = [j \in Jobs |->
                  IF j[1] = n /\ j[2] \in poll[n] /\ j[3] = "poll"
                  THEN "claimed" ELSE job[j]]
    /\ seen' = [seen EXCEPT ![n] = @ \cup poll[n]]
    /\ poll' = [poll EXCEPT ![n] = {}]
    /\ UNCHANGED <<server, agents, watch, asked, files, history, restored>>

\* Mutant: the claim is forgotten
PollHandleUnclaimed(n) ==
    /\ poll[n] # {}
    /\ job' = [j \in Jobs |->
                  IF j[1] = n /\ j[2] \in poll[n] \ seen[n] /\ j[3] = "poll"
                  THEN "claimed" ELSE job[j]]
    /\ poll' = [poll EXCEPT ![n] = {}]
    /\ UNCHANGED <<server, agents, watch, asked, seen, files, history, restored>>

\* No await between the claims of one answer: a handler for each fresh one
PollHandle(n) ==
    /\ poll[n] # {}
    /\ job' = [j \in Jobs |->
                  IF j[1] = n /\ j[2] \in poll[n] \ seen[n] /\ j[3] = "poll"
                  THEN "claimed" ELSE job[j]]
    /\ seen' = [seen EXCEPT ![n] = @ \cup poll[n]]
    /\ poll' = [poll EXCEPT ![n] = {}]
    /\ UNCHANGED <<server, agents, watch, asked, files, history, restored>>

-----------------------------------------------------------------------------
(* The watcher: snapshot_on_success *)

\* A Complete frame, or the end of the guest's stream
Signal(n) ==
    /\ watch[n] = "waiting"
    /\ watch' = [watch EXCEPT ![n] = "fired"]
    /\ UNCHANGED <<server, agents, asked, poll, seen, job, files, history, restored>>

WatcherRequest(n, id) ==
    /\ watch[n] = "fired" /\ asked[n] = {}
    /\ Request(id)
    /\ asked' = [asked EXCEPT ![n] = {id}]
    /\ UNCHANGED <<task, agents, watch, poll, seen, job, files, history, restored>>

\* The request is refused or lost, or its answer is lost: the record stays
WatcherGivesUp(n) ==
    /\ watch[n] = "fired"
    /\ watch' = [watch EXCEPT ![n] = "over"]
    /\ asked' = [asked EXCEPT ![n] = {}]
    /\ UNCHANGED <<server, agents, poll, seen, job, files, history, restored>>

\* The id is claimed once it is known, whether the poll loop has it or not
WatcherClaim(n) ==
    /\ watch[n] = "fired" /\ asked[n] # {}
    /\ job' = [j \in Jobs |->
                  IF j[1] = n /\ j[2] \in asked[n] /\ j[3] = "watcher"
                  THEN "claimed" ELSE job[j]]
    /\ seen' = [seen EXCEPT ![n] = @ \cup asked[n]]
    /\ watch' = [watch EXCEPT ![n] = "over"]
    /\ asked' = [asked EXCEPT ![n] = {}]
    /\ UNCHANGED <<server, agents, poll, files, history, restored>>

-----------------------------------------------------------------------------
(* A handler: the poll loop's, and the watcher's once it has claimed an id *)

\* A report: it reaches the server or is lost, and is not sent again
Delivered(n, id, state) == rec' = Report(id, n, state) /\ lost' = lost
Lost(id) == rec' = rec /\ lost' = lost \cup {id}

\* Another runtime cannot take a snapshot
Decline(n, id, who) ==
    /\ job[<<n, id, who>>] = "claimed"
    /\ n \notin firecracker
    /\ Delivered(n, id, "failed") \/ Lost(id)
    /\ job' = [job EXCEPT ![<<n, id, who>>] = "over"]
    /\ UNCHANGED <<task, agents, claims, files, calls, restored>>

\* The report of InProgress is answered, or lost, and take_snapshot is called
Begin(n, id, who) ==
    /\ job[<<n, id, who>>] = "claimed"
    /\ n \in firecracker
    /\ rec' \in {rec, Report(id, n, "inprogress")}
    /\ job' = [job EXCEPT ![<<n, id, who>>] = "taking"]
    /\ calls' = [calls EXCEPT ![<<n, id>>] = @ + 1]
    /\ UNCHANGED <<task, agents, claims, files, lost, restored>>

Take(n, id, who) ==
    /\ job[<<n, id, who>>] = "taking"
    /\ guest[n] = "up"
    /\ files' = files \cup {<<n, id>>}
    /\ job' = [job EXCEPT ![<<n, id, who>>] = "taken"]
    /\ UNCHANGED <<server, agents, claims, history, restored>>

\* Mutant: an error leaves the handler without a report
TakeFailsSilently(n, id, who) ==
    /\ job[<<n, id, who>>] = "taking"
    /\ job' = [job EXCEPT ![<<n, id, who>>] = "over"]
    /\ UNCHANGED <<server, agents, claims, files, history, restored>>

\* The VMM is gone, or refuses
TakeFails(n, id, who) ==
    /\ job[<<n, id, who>>] = "taking"
    /\ job' = [job EXCEPT ![<<n, id, who>>] = "untaken"]
    /\ UNCHANGED <<server, agents, claims, files, history, restored>>

Outcome == [taken |-> "done", untaken |-> "failed"]

Finish(n, id, who) ==
    /\ job[<<n, id, who>>] \in {"taken", "untaken"}
    /\ Delivered(n, id, Outcome[job[<<n, id, who>>]]) \/ Lost(id)
    /\ job' = [job EXCEPT ![<<n, id, who>>] = "over"]
    /\ UNCHANGED <<task, agents, claims, files, calls, restored>>

-----------------------------------------------------------------------------

Handle(n, id, who) ==
    \/ Decline(n, id, who)
    \/ Begin(n, id, who)
    \/ Take(n, id, who)
    \/ TakeFails(n, id, who)
    \/ Finish(n, id, who)

Next ==
    \/ Requeue
    \/ \E n \in Nodes :
          Start(n) \/ Running(n) \/ GuestEnds(n) \/ Ended(n) \/ Crash(n)
    \/ \E id \in Ids : Create(id) \/ Restore(id)
    \/ \E n \in Nodes : PollServe(n) \/ PollHandle(n)
    \/ \E n \in Nodes : Signal(n) \/ WatcherGivesUp(n) \/ WatcherClaim(n)
    \/ \E n \in Nodes, id \in Ids : WatcherRequest(n, id)
    \/ \E n \in Nodes, id \in Ids, who \in Who : Handle(n, id, who)

Spec == Init /\ [][Next]_vars

(***************************************************************************)
(* An agent that has not crashed polls for ever, and a spawned handler     *)
(* goes on: each of its requests is answered or fails, as is the VMM's.    *)
(***************************************************************************)
Fairness ==
    /\ \A n \in Nodes : WF_vars(PollServe(n)) /\ WF_vars(PollHandle(n))
    /\ \A n \in Nodes, id \in Ids, who \in Who : WF_vars(Handle(n, id, who))

FairSpec == Spec /\ Fairness

-----------------------------------------------------------------------------
(* Properties *)

\* Every variable has its type
TypeOK ==
    /\ task \in [state : {"pending", "assigned", "running", "ended"},
                 node : Nodes \cup {None}]
    /\ rec \in [Ids -> Records]
    /\ firecracker \subseteq Nodes /\ crashed \subseteq Nodes
    /\ unreported \subseteq Nodes
    /\ guest \in [Nodes -> {"none", "up", "gone"}]
    /\ watch \in [Nodes -> {"none", "waiting", "fired", "over"}]
    /\ asked \in [Nodes -> SUBSET Ids]
    /\ poll \in [Nodes -> SUBSET Ids]
    /\ seen \in [Nodes -> SUBSET Ids]
    /\ job \in [Jobs -> {"none", "claimed", "taking", "taken", "untaken", "over"}]
    /\ files \subseteq Nodes \X Ids
    /\ calls \in [Nodes \X Ids -> Nat]
    /\ lost \subseteq Ids
    /\ restored \in [Ids -> Nodes \cup {None}]

(***************************************************************************)
(* A restore boots from files that exist on the node it is pinned to, also *)
(* when the task was requeued and a partitioned agent's watcher, or two    *)
(* handlers on one agent, took the snapshot (restore_task_spec).           *)
(***************************************************************************)
RestoreFindsFiles ==
    \A id \in Ids : restored[id] # None => <<restored[id], id>> \in files

\* A handler on n has id and has yet to report its outcome
Active(n, id) ==
    \E who \in Who : job[<<n, id, who>>] \in {"claimed", "taking", "taken", "untaken"}

Open(id) == rec[id].state \in {"requested", "inprogress"}

\* What can keep a record from its end: a crash, or a final report that is lost
Excused(id) == rec[id].node \in crashed \/ id \in lost

(***************************************************************************)
(* No open record is stranded: its node has a handler for it, or its poll  *)
(* loop will find it and not take it for one it has, unless the agent      *)
(* crashed or a final report was lost.  Requeues, the answer to a          *)
(* watcher's request and lost InProgress reports strand nothing.           *)
(***************************************************************************)
NotStranded ==
    \A id \in Ids :
        Open(id) =>
            \/ Excused(id)
            \/ Active(rec[id].node, id)
            \/ rec[id].state = "requested" /\ id \notin seen[rec[id].node]

(***************************************************************************)
(* One agent takes one snapshot at most once for its poll loop, however    *)
(* often the answers repeat it, and at most once more for its watcher.     *)
(***************************************************************************)
OnceEach ==
    \A n \in Nodes, id \in Ids :
        calls[<<n, id>>] =< IF job[<<n, id, "watcher">>] = "none" THEN 1 ELSE 2

Begun(n, id, who) == IF job[<<n, id, who>>] \in {"none", "claimed"} THEN 0 ELSE 1

\* A handler's id is claimed, and a claimed, polled or answered id has a record
HandlersClaim ==
    \A n \in Nodes, id \in Ids, who \in Who :
        job[<<n, id, who>>] # "none" => id \in seen[n]

IdsRecorded ==
    \A n \in Nodes :
        \A id \in seen[n] \cup poll[n] \cup asked[n] : rec[id].state # "absent"

\* An agent starts one watcher, which claims one id and is over then
WatchersOnce ==
    \A n \in Nodes :
        /\ guest[n] = "none" /\ n \notin crashed => watch[n] = "none"
        /\ watch[n] # "over" => \A id \in Ids : job[<<n, id, "watcher">>] = "none"

\* A handler calls take_snapshot once
CallsCounted ==
    \A n \in Nodes, id \in Ids :
        calls[<<n, id>>] =< Begun(n, id, "poll") + Begun(n, id, "watcher")

\* Whoever says that a snapshot is done has its files
DoneHasFiles ==
    /\ \A n \in Nodes, id \in Ids, who \in Who :
          job[<<n, id, who>>] = "taken" => <<n, id>> \in files
    /\ \A id \in Ids : rec[id].state = "done" => <<rec[id].node, id>> \in files
    /\ RestoreFindsFiles

(***************************************************************************)
(* The invariant that is inductive.  NotStranded needs to know that an id  *)
(* that is claimed has a record already, and OnceEach that a handler is    *)
(* started once.                                                           *)
(***************************************************************************)
IInv ==
    /\ TypeOK
    /\ HandlersClaim
    /\ IdsRecorded
    /\ WatchersOnce
    /\ CallsCounted
    /\ DoneHasFiles
    /\ NotStranded

(***************************************************************************)
(* An outcome is final: whatever reports come late, from a second handler  *)
(* or from another node, it and the node of its files do not change        *)
(* (report_snapshot_result, SnapshotState::is_terminal).                   *)
(***************************************************************************)
OutcomeFinal ==
    [][\A id \in Ids :
          rec[id].state \in {"done", "failed"} => rec'[id] = rec[id]]_vars

(***************************************************************************)
(* Every requested snapshot ends, unless its agent crashes or a final      *)
(* report is lost.                                                         *)
(***************************************************************************)
RequestsEnd == \A id \in Ids : Open(id) ~> (~ Open(id) \/ Excused(id))

(***************************************************************************)
(* "One snapshot request is never taken twice (e.g. an OnSuccess watcher   *)
(* and the poll loop racing on the same record)" (agent lib.rs:152-154).   *)
(***************************************************************************)
TakenOnce == \A n \in Nodes, id \in Ids : calls[<<n, id>>] =< 1
=============================================================================
