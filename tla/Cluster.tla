------------------------------ MODULE Cluster ------------------------------
(***************************************************************************)
(* The server, its scheduler and the agents, joined by HTTP requests.      *)
(*                                                                         *)
(* The server's lock makes a handler one step and excludes every handler   *)
(* from a scheduling pass; the pass itself is cut into the rounds of its   *)
(* loops.  An agent is concurrent with everything: its poll loop is three  *)
(* steps, each task it runs is a tokio task of its own, and a report is a  *)
(* message in wire between being sent and being handled.                   *)
(*                                                                         *)
(* A node n is one run of run_agent: an agent that starts again, or whose  *)
(* registration was answered into the void, comes back as another node.    *)
(***************************************************************************)
EXTENDS ControlPlane

CONSTANTS
    MaxLapses,   \* how often a node that is up may miss its heartbeats
    MaxLost,     \* how many requests or answers may fail
    MaxCrashes,  \* how many agents may die
    Reporting    \* the nodes whose agents report the end of every task they run

ASSUME BudgetAssumption == {MaxLapses, MaxLost, MaxCrashes} \subseteq Nat

\* Not those with the Firecracker runtime, whose supervisors never return (Supervise)
ASSUME ReportingAssumption == Reporting \subseteq Nodes

\* However many: the accounting adds up what tasks need
ASSUME TasksAssumption == IsFiniteSet(Tasks)

VARIABLES
    db,      \* the server's store
    used,    \* its accounting of the nodes' resources
    tick,    \* where the scheduling pass is; "idle": nobody holds the lock
    queue,   \* place_pending's list: the tasks still to be gone through
    agent,   \* each node's run_agent
    poll,    \* each node's poll_loop: where it is, and the answer it has
    exec,    \* exec[n][t]: n's supervisor of t; "none": not in running
    wire,    \* task reports not handled yet
    starts,  \* history: how many supervisors were started for a task
    faults   \* history: the faults that happened

vars == <<db, used, tick, queue, agent, poll, exec, wire, starts, faults>>

NoPoll == [pc |-> "idle", tasks |-> {}]

(***************************************************************************)
(* A report: SetTaskStateRequest with its sender, which the request does   *)
(* not carry and Deliver must not look at.  awaited: the sender still      *)
(* waits for the answer.  try tells the reports of two runs apart.         *)
(***************************************************************************)
Report(n, t, s) ==
    [from |-> n, task |-> t, state |-> s, try |-> starts[t], awaited |-> TRUE]

Init ==
    /\ db = EmptyStore
    /\ used = [n \in Nodes |-> NoResources]
    /\ tick = "idle"
    /\ queue = {}
    /\ agent = [n \in Nodes |-> "new"]
    /\ poll = [n \in Nodes |-> NoPoll]
    /\ exec = [n \in Nodes |-> [t \in Tasks |-> "none"]]
    /\ wire = {}
    /\ starts = [t \in Tasks |-> 0]
    /\ faults = [lapses |-> 0, lost |-> 0, crashes |-> 0]

-----------------------------------------------------------------------------
(***************************************************************************)
(* The scheduling pass.  It has the write lock from its first round, which *)
(* may be its only one, to its last.                                       *)
(***************************************************************************)

\* requeue_dead_nodes: its orphans in any order
RequeueOrphan(t) ==
    /\ tick \in {"idle", "requeue"}
    /\ t \in Orphans(db)
    /\ db' = Requeue(db, t)
    /\ tick' = "requeue"
    /\ UNCHANGED <<used, queue, agent, poll, exec, wire, starts, faults>>

\* place_pending has the tasks of q before it
GoOnWith(q) == queue' = q /\ tick' = IF q = {} THEN "idle" ELSE "place"

Recount ==
    /\ tick \in {"idle", "requeue"}
    /\ Orphans(db) = {}
    /\ used' = RecountUsed(db)
    /\ GoOnWith(Pending(db))
    /\ UNCHANGED <<db, agent, poll, exec, wire, starts, faults>>

\* t is the first task of the list
NextInQueue(t) == tick = "place" /\ t \in queue /\ \A u \in queue : t =< u

PlaceNext(t, n) ==
    /\ NextInQueue(t)
    /\ Picks(db, used, t, n)
    /\ db' = Place(db, t, n)
    /\ used' = IF db'.state[t] = "assigned" THEN Commit(used, t, n) ELSE used
    /\ GoOnWith(queue \ {t})
    /\ UNCHANGED <<agent, poll, exec, wire, starts, faults>>

\* No node fits: the task stays pending
SkipNext(t) ==
    /\ NextInQueue(t)
    /\ Eligible(db, used, t) = {}
    /\ GoOnWith(queue \ {t})
    /\ UNCHANGED <<db, used, agent, poll, exec, wire, starts, faults>>

TickStep ==
    \/ \E t \in Tasks : RequeueOrphan(t)
    \/ Recount
    \/ \E t \in Tasks : SkipNext(t) \/ (\E n \in Nodes : PlaceNext(t, n))

-----------------------------------------------------------------------------
(* Jobs, registration, heartbeats *)

SubmitJob(job) ==
    /\ tick = "idle"
    /\ job # {}
    /\ \A t \in job : db.state[t] = "absent"
    /\ db' = CreateJob(db, job)
    /\ UNCHANGED <<used, tick, queue, agent, poll, exec, wire, starts, faults>>

\* The handler and its answer are one step: loops that have not begun yet
\* are loops that are slow, and an answer that is lost is a Crash.
Register(n) ==
    /\ tick = "idle"
    /\ agent[n] = "new"
    /\ db' = RegisterNode(db, n)
    /\ used' = [used EXCEPT ![n] = NoResources]
    /\ agent' = [agent EXCEPT ![n] = "up"]
    /\ UNCHANGED <<tick, queue, poll, exec, wire, starts, faults>>

\* Only the heartbeat that finds the node dead changes anything
HandleHeartbeat(n) ==
    /\ tick = "idle"
    /\ agent[n] = "up"
    /\ n \notin db.alive
    /\ db' = Heartbeat(db, n)
    /\ UNCHANGED <<used, tick, queue, agent, poll, exec, wire, starts, faults>>

(***************************************************************************)
(* 10 s pass without a heartbeat of n.  A pass has one notion of now, so   *)
(* this does not happen during a pass.  Of a node whose agent runs it is a *)
(* fault: a partition, or an agent that is starved.                        *)
(***************************************************************************)
MissHeartbeats(n) ==
    /\ tick = "idle"
    /\ n \in db.alive
    /\ IF agent[n] = "crashed"
       THEN faults' = faults
       ELSE /\ faults.lapses < MaxLapses
            /\ faults' = [faults EXCEPT !.lapses = @ + 1]
    /\ db' = Lapse(db, n)
    /\ UNCHANGED <<used, tick, queue, agent, poll, exec, wire, starts>>

-----------------------------------------------------------------------------
(* The agent's poll loop *)

\* running.retain(..), then the request is on its way
PollStart(n) ==
    /\ agent[n] = "up"
    /\ poll[n].pc = "idle"
    /\ exec' = [exec EXCEPT ![n] =
                   [t \in Tasks |-> IF @[t] = "finished" THEN "none" ELSE @[t]]]
    /\ poll' = [poll EXCEPT ![n].pc = "asked"]
    /\ UNCHANGED <<db, used, tick, queue, agent, wire, starts, faults>>

\* The assignments handler; the answer is on its way
PollServe(n) ==
    /\ tick = "idle"
    /\ poll[n].pc = "asked"
    /\ poll' = [poll EXCEPT ![n] = [pc |-> "answered", tasks |-> Assignments(db, n)]]
    /\ UNCHANGED <<db, used, tick, queue, agent, exec, wire, starts, faults>>

\* Mutant: running is not looked at
PollHandleAgain(n) ==
    /\ poll[n].pc = "answered"
    /\ exec' = [exec EXCEPT ![n] =
                   [t \in Tasks |-> IF t \in poll[n].tasks THEN "starting" ELSE @[t]]]
    /\ starts' = [t \in Tasks |-> IF t \in poll[n].tasks THEN starts[t] + 1 ELSE starts[t]]
    /\ poll' = [poll EXCEPT ![n] = NoPoll]
    /\ UNCHANGED <<db, used, tick, queue, agent, wire, faults>>

\* A supervisor is started for each task of the answer that has none
PollHandle(n) ==
    /\ poll[n].pc = "answered"
    /\ LET new == { t \in poll[n].tasks : exec[n][t] = "none" } IN
         /\ exec' = [exec EXCEPT ![n] =
                        [t \in Tasks |-> IF t \in new THEN "starting" ELSE @[t]]]
         /\ starts' = [t \in Tasks |-> IF t \in new THEN starts[t] + 1 ELSE starts[t]]
    /\ poll' = [poll EXCEPT ![n] = NoPoll]
    /\ UNCHANGED <<db, used, tick, queue, agent, wire, faults>>

\* The request or its answer is lost: the loop goes round
PollFail(n) ==
    /\ poll[n].pc # "idle"
    /\ faults.lost < MaxLost
    /\ faults' = [faults EXCEPT !.lost = @ + 1]
    /\ poll' = [poll EXCEPT ![n] = NoPoll]
    /\ UNCHANGED <<db, used, tick, queue, agent, exec, wire, starts>>

-----------------------------------------------------------------------------
(* execute_task: spawn, report Running, supervise, report the outcome *)

\* The supervisor goes on to pc and its report of s is on its way
SendReport(n, t, pc, s) ==
    /\ exec' = [exec EXCEPT ![n][t] = pc]
    /\ wire' = wire \cup {Report(n, t, s)}
    /\ UNCHANGED <<db, used, tick, queue, agent, poll, starts, faults>>

Boot(n, t) == exec[n][t] = "starting" /\ SendReport(n, t, "booted", "running")

BootFails(n, t) == exec[n][t] = "starting" /\ SendReport(n, t, "ended", "failed")

Exit(n, t, s) ==
    /\ exec[n][t] = "supervising"
    /\ s \in Terminal
    /\ SendReport(n, t, "ended", s)

\* What the supervisor does once its report was answered, or failed
Resume(m) ==
    exec' = IF m.awaited
            THEN [exec EXCEPT ![m.from][m.task] =
                     IF @ = "booted" THEN "supervising" ELSE "finished"]
            ELSE exec

\* The set_task_state handler.  Refused or not, the sender goes on.
Deliver(m) ==
    /\ tick = "idle"
    /\ m \in wire
    /\ db' = SetTaskState(db, m.task, m.state)
    /\ wire' = wire \ {m}
    /\ Resume(m)
    /\ UNCHANGED <<used, tick, queue, agent, poll, starts, faults>>

(***************************************************************************)
(* report_state fails, which is logged and not retried: the report is lost,*)
(* or it is still under way and the server will handle it later.           *)
(***************************************************************************)
GiveUp(m) ==
    /\ m \in wire
    /\ m.awaited
    /\ faults.lost < MaxLost
    /\ faults' = [faults EXCEPT !.lost = @ + 1]
    /\ \/ wire' = wire \ {m}
       \/ wire' = (wire \ {m}) \cup {[m EXCEPT !.awaited = FALSE]}
    /\ Resume(m)
    /\ UNCHANGED <<db, used, tick, queue, agent, poll, starts>>

(***************************************************************************)
(* The agent dies, or gave up on the answer to its registration.  What it  *)
(* sent may still arrive.                                                  *)
(***************************************************************************)
Crash(n) ==
    /\ agent[n] = "up"
    /\ faults.crashes < MaxCrashes
    /\ faults' = [faults EXCEPT !.crashes = @ + 1]
    /\ agent' = [agent EXCEPT ![n] = "crashed"]
    /\ poll' = [poll EXCEPT ![n] = NoPoll]
    /\ exec' = [exec EXCEPT ![n] = [t \in Tasks |-> "none"]]
    /\ wire' = { IF m.from = n THEN [m EXCEPT !.awaited = FALSE] ELSE m : m \in wire }
    /\ UNCHANGED <<db, used, tick, queue, starts>>

-----------------------------------------------------------------------------

End(n, t) == \E s \in Terminal : Exit(n, t, s)

Supervise(n, t) == Boot(n, t) \/ BootFails(n, t) \/ End(n, t)

Next ==
    \/ TickStep
    \/ \E job \in SUBSET Tasks : SubmitJob(job)
    \/ \E n \in Nodes :
          \/ Register(n) \/ HandleHeartbeat(n) \/ MissHeartbeats(n)
          \/ PollStart(n) \/ PollServe(n) \/ PollHandle(n) \/ PollFail(n)
          \/ Crash(n)
          \/ \E t \in Tasks : Supervise(n, t)
    \/ \E m \in wire : Deliver(m) \/ GiveUp(m)

Spec == Init /\ [][Next]_vars

(***************************************************************************)
(* Fairness.  Every agent is started; the ticker fires and a pass ends; an *)
(* agent's loops run; the clock runs on for a dead agent.  On a node that  *)
(* reports its ends a workload ends, and leaves nobody with its pipes.     *)
(* A step that needs the lock is strongly fair: passes take the lock away  *)
(* again and again, and tokio's RwLock is granted in the order of the      *)
(* requests.  Of the actions joined in one condition only the outcomes of  *)
(* a supervisor are enabled together: the workload chooses.                *)
(***************************************************************************)
Fairness ==
    /\ WF_vars(TickStep)
    /\ SF_vars(\E m \in wire : Deliver(m))
    /\ \A n \in Nodes :
          /\ SF_vars(Register(n) \/ PollServe(n))
          /\ SF_vars(HandleHeartbeat(n) \/ (agent[n] = "crashed" /\ MissHeartbeats(n)))
          /\ WF_vars(PollStart(n) \/ PollHandle(n))
          /\ \A t \in Tasks :
                WF_vars(Supervise(n, t) /\ (End(n, t) => n \in Reporting))

FairSpec == Spec /\ Fairness

-----------------------------------------------------------------------------
(* Properties *)

Reports == [ from : Nodes, task : Tasks, state : {"running"} \cup Terminal,
             try : Nat, awaited : BOOLEAN ]

\* The type invariant.  The type of used, whose values are sums, is in AccountOK.
TypeOK ==
    /\ db \in Stores
    /\ tick \in {"idle", "requeue", "place"}
    /\ queue \subseteq Tasks
    /\ agent \in [Nodes -> {"new", "up", "crashed"}]
    /\ poll \in [Nodes -> [pc : {"idle", "asked", "answered"}, tasks : SUBSET Tasks]]
    /\ exec \in [Nodes -> [Tasks -> {"none", "starting", "booted", "supervising",
                                     "ended", "finished"}]]
    /\ wire \subseteq Reports
    /\ starts \in [Tasks -> Nat]
    /\ faults \in [lapses : Nat, lost : Nat, crashes : Nat]

(***************************************************************************)
(* Two tasks that are assigned or running never have the same address,     *)
(* through requeues, late reports and the reuse of released addresses.     *)
(***************************************************************************)
LiveAddressesDistinct ==
    \A t, u \in Tasks :
        t # u /\ Addressed(db, t) /\ Addressed(db, u) => db.net[t].ip # db.net[u].ip

(***************************************************************************)
(* A live task's address and gateway are in the /24 of the node the store  *)
(* says it is on: a requeue that kept the old address, or a late report    *)
(* that moved a task, would break it.                                      *)
(***************************************************************************)
AddressOnNode == OnItsNode(db)

(***************************************************************************)
(* The IPAM's table and the tasks agree: an address is held exactly by the *)
(* live tasks that show it, so none leaks and none is free while in use.   *)
(***************************************************************************)
AddressesAccounted == Accounted(db)

(***************************************************************************)
(* Two nodes never share a /24.                                            *)
(***************************************************************************)
SubnetsDistinct == OctetsDistinct(db.ipam)

(***************************************************************************)
(* A service lists no address that was given back, or given to another     *)
(* task: what it lists for a task, the IPAM holds for that task.           *)
(***************************************************************************)
EndpointsHeld ==
    \A s \in Services : \A e \in ServiceEndpoints(db, s) : db.ipam.ip[e[1]] = e[2]

(***************************************************************************)
(* The tasks the store has live on a node fit into it together.  The       *)
(* accounting is only repaired once per pass, and reports end tasks and    *)
(* bring some to life in between: it may overstate what a node holds,      *)
(* never understate it, and never exceeds what the node offers.            *)
(***************************************************************************)
NoOvercommit ==
    \A n \in Nodes : /\ FitsIn(Held(TasksOn(db, n)), used[n], NoResources)
                     /\ FitsIn(used[n], Total[n], NoResources)

(***************************************************************************)
(* The list place_pending goes through is never stale: nothing but the     *)
(* pass itself changes a task on it before its turn comes.                 *)
(***************************************************************************)
QueueFresh ==
    /\ tick = "place" => queue \subseteq Pending(db)
    /\ tick # "place" => queue = {}

(***************************************************************************)
(* A terminal task never changes state again, whatever reports are late    *)
(* and whatever a pass does (types.rs: "no further transitions").          *)
(***************************************************************************)
TerminalFinal ==
    [][\A t \in Tasks : IsTerminal(db, t) => db'.state[t] = db.state[t]]_vars

(***************************************************************************)
(* A task is started a second time only when a fault paid for it: with no  *)
(* fault, a task is executed at most once, however its polls, its end and  *)
(* the scheduler interleave.                                               *)
(***************************************************************************)
RerunsNeedFaults ==
    \A t \in Tasks :
        starts[t] =< 1 + faults.lapses + faults.lost + faults.crashes

Executing(n, t) == exec[n][t] \in {"booted", "supervising", "ended"}

(***************************************************************************)
(* While every node that is up keeps its heartbeats, no task is executed   *)
(* by two agents at once, crashes and lost messages included.              *)
(***************************************************************************)
OneExecutor ==
    faults.lapses = 0 =>
        \A t \in Tasks : \A n, m \in Nodes :
            Executing(n, t) /\ Executing(m, t) => n = m

-----------------------------------------------------------------------------
(* The inductive invariant *)

\* An agent that does not run has nothing, and the store knows those that ever ran
AgentsOK ==
    \A n \in Nodes :
        /\ n \in db.nodes <=> agent[n] # "new"
        /\ agent[n] # "up" => poll[n] = NoPoll /\ \A t \in Tasks : exec[n][t] = "none"
        /\ poll[n].pc # "answered" => poll[n].tasks = {}

\* A report that is awaited is the one its sender waits for
AwaitedOK ==
    \A m \in wire : m.awaited =>
        /\ exec[m.from][m.task] \in {"booted", "ended"}
        /\ \A k \in wire : k.awaited /\ k.from = m.from /\ k.task = m.task => k = m

\* n runs t, or was told to
Has(n, t) == exec[n][t] # "none" \/ t \in poll[n].tasks

(***************************************************************************)
(* While no agent that runs is declared dead, the store has every task on  *)
(* the node whose agent has it: this is why one executor is all there is.  *)
(***************************************************************************)
HostsOK ==
    faults.lapses = 0 =>
        \A n \in Nodes :
            /\ agent[n] = "up" => n \in db.alive
            /\ \A t \in Tasks : Has(n, t) => db.node[t] = n

(***************************************************************************)
(* The starts of a task that are still to come and are paid for: a task    *)
(* that waits, one that is on a dead or dying node, one that its node      *)
(* would start if it polled now, and the answers under way that would      *)
(* start it although the store has changed its mind.                       *)
(***************************************************************************)
Waits(t) == IF db.state[t] \in {"absent", "pending"} THEN 1 ELSE 0

Dying(t) == IF /\ IsLive(db, t)
               /\ db.node[t] \in db.nodes
               /\ db.node[t] \notin db.alive \/ agent[db.node[t]] = "crashed"
            THEN 1 ELSE 0

Due(t) == IF /\ db.state[t] = "assigned" /\ db.node[t] \in db.nodes
             /\ agent[db.node[t]] = "up"
             /\ exec[db.node[t]][t] \in {"none", "finished"}
          THEN 1 ELSE 0

Stale(t) == { n \in Nodes : /\ t \in poll[n].tasks
                            /\ exec[n][t] = "none"
                            /\ ~ (db.state[t] = "assigned" /\ db.node[t] = n) }

Spent(t) == starts[t] + Waits(t) + Dying(t) + Due(t)
Paid == faults.lapses + faults.lost + faults.crashes

CreditOK == \A t \in Tasks : /\ IsFiniteSet(Stale(t))
                             /\ Spent(t) + Cardinality(Stale(t)) =< 1 + Paid

AccountOK == used \in [Nodes -> Resources] /\ NoOvercommit

IInv ==
    /\ TypeOK /\ QueueFresh /\ StoreOK(db) /\ Unplaced(db)
    /\ AgentsOK /\ AwaitedOK /\ HostsOK /\ CreditOK /\ AccountOK

-----------------------------------------------------------------------------
(* What becomes of a task *)

\* The store has t running, but no agent runs it or reports on it any more
Abandoned(t) ==
    /\ db.state[t] = "running"
    /\ \A n \in Nodes : exec[n][t] = "none"
    /\ \A m \in wire : m.task # t

\* t is for ever: it was abandoned, or its agent may never report its end
Endless(t) ==
    \/ Abandoned(t)
    \/ \E n \in Nodes \ Reporting : exec[n][t] = "supervising"

\* t waits, and every node that t may go to has a task that is for ever
Blocked(t) ==
    /\ db.state[t] = "pending"
    /\ \A n \in db.alive : Pinned[t] \in {None, n} =>
           \E u \in Tasks : Endless(u) /\ db.node[u] = n

(***************************************************************************)
(* Every submitted task ends, although it may be requeued while it runs,   *)
(* its reports and its agent may be lost, and it has to wait for what      *)
(* others hold.  Only a task that is for ever can keep it from that: it is *)
(* one itself, or wherever it may go there is one.                         *)
(***************************************************************************)
EventuallyTerminal ==
    []<>(\A t \in Tasks :
             db.state[t] # "absent" => IsTerminal(db, t) \/ Endless(t) \/ Blocked(t))

(***************************************************************************)
(* SPEC.md:510: "Agent crash: heartbeats stop -> node dies after 10 s ->   *)
(* tasks requeue."  A task that the store has running and that no agent    *)
(* runs or reports on any more does not stay so.                           *)
(***************************************************************************)
AbandonedTasksRequeue == \A t \in Tasks : Abandoned(t) ~> ~Abandoned(t)

-----------------------------------------------------------------------------
(***************************************************************************)
(* The abstract specification of the addresses.  What a live task shows is *)
(* its lease; the IPAM's table, the nodes' /24s, the passes and the late   *)
(* reports are how the server keeps AddressPool's promise.                 *)
(***************************************************************************)
Lease == [t \in Tasks |-> IF Addressed(db, t) THEN db.net[t].ip ELSE None]

Pool == INSTANCE AddressPool WITH lease <- Lease

(***************************************************************************)
(* The addresses that live tasks show are leased: each step gives one task *)
(* one address that nobody has, takes one task's address back, or changes  *)
(* none, also when reports are late and passes interleave with them.       *)
(***************************************************************************)
AddressesAreLeased == Pool!Spec
=============================================================================
