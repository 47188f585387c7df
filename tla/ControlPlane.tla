---------------------------- MODULE ControlPlane ----------------------------
(***************************************************************************)
(* The server's store and every operation on it that tasks and nodes go    *)
(* through: state.rs (create_job, register_node, heartbeat, set_task_state,*)
(* service_endpoints), scheduler.rs (one step of each loop of tick) and    *)
(* the assignments handler of api.rs.  An operation is an operator from a  *)
(* store to a store; who calls it, and when, is left to the modules that   *)
(* extend this one.                                                        *)
(*                                                                         *)
(* A task's spec never changes, so it is a set of constants.  Left out:    *)
(* the job table, names, logs, exit codes, the discovery environment and   *)
(* snapshots.                                                              *)
(***************************************************************************)
EXTENDS Ipam, Placement, FiniteSets, FiniteSetsExt

CONSTANTS
    Need,       \* the resources each task asks for
    Total,      \* the resources each node offers
    Pinned,     \* the node a task's node_affinity names, or None
    Networked,  \* the tasks with network.enabled
    Services,   \* service names
    Service     \* the service a task belongs to, or None

ASSUME SpecAssumption ==
    /\ Need \in [Tasks -> Resources]
    /\ Total \in [Nodes -> Resources]
    /\ Pinned \in [Tasks -> Nodes \cup {None}]
    /\ Networked \subseteq Tasks
    /\ Service \in [Tasks -> Services \cup {None}]
    /\ None \notin Services

Live == {"assigned", "running"}
Terminal == {"succeeded", "failed"}
TaskStates == {"absent", "pending"} \cup Live \cup Terminal

(***************************************************************************)
(* NetworkAssignment: address and gateway.  The netmask is a constant.     *)
(***************************************************************************)
Networks == [ip : Addresses, gateway : Octets \X {1}]

ASSUME NoNetworkAssumption == None \notin Networks

(***************************************************************************)
(* StateInner.  state, node and net are a task's state, assigned_node and  *)
(* network; "absent" is a task nobody has submitted.  nodes are the        *)
(* registered nodes and alive those whose last heartbeat is at most 10 s   *)
(* old.  The nodes' accounting, NodeInfo.used, is kept apart: a function   *)
(* used in [Nodes -> Resources].                                           *)
(***************************************************************************)
Stores == [ state : [Tasks -> TaskStates],
            node  : [Tasks -> Nodes \cup {None}],
            net   : [Tasks -> Networks \cup {None}],
            nodes : SUBSET Nodes,
            alive : SUBSET Nodes,
            ipam  : Ipams ]

EmptyStore == [ state |-> [t \in Tasks |-> "absent"],
                node  |-> [t \in Tasks |-> None],
                net   |-> [t \in Tasks |-> None],
                nodes |-> {},
                alive |-> {},
                ipam  |-> EmptyIpam ]

IsLive(db, t) == db.state[t] \in Live
IsTerminal(db, t) == db.state[t] \in Terminal

-----------------------------------------------------------------------------
(* state.rs *)

\* create_job: the job's tasks, all new, become pending
CreateJob(db, job) ==
    [db EXCEPT !.state = [t \in Tasks |-> IF t \in job THEN "pending" ELSE @[t]]]

\* register_node: a new id with nothing on it, whose heartbeat is now
RegisterNode(db, n) ==
    [db EXCEPT !.nodes = @ \cup {n}, !.alive = @ \cup {n}]

\* heartbeat: NotFound, and no change, for an id the store does not have
Heartbeat(db, n) ==
    IF n \in db.nodes THEN [db EXCEPT !.alive = @ \cup {n}] ELSE db

\* The clock: n's last heartbeat is now more than 10 s old
Lapse(db, n) == [db EXCEPT !.alive = @ \ {n}]

\* set_task_state is refused: NotFound or Conflict
Refused(db, t) == db.state[t] = "absent" \/ IsTerminal(db, t)

\* Mutant: a terminal task keeps its address
SetTaskStateLeaking(db, t, s) == IF Refused(db, t) THEN db ELSE [db EXCEPT !.state[t] = s]

\* Mutant: a terminal task may be reported again
SetTaskStateAlways(db, t, s) ==
    [db EXCEPT !.state[t] = s,
               !.ipam = IF s \in Terminal THEN Release(@, t) ELSE @]

(***************************************************************************)
(* set_task_state.  Only the target task's state is looked at: neither the *)
(* node that sends the report nor the state the task is in, as long as it  *)
(* is not terminal.  node and net are left alone, also in a terminal state.*)
(***************************************************************************)
SetTaskState(db, t, s) ==
    IF Refused(db, t) THEN db
    ELSE [db EXCEPT !.state[t] = s,
                    !.ipam = IF s \in Terminal THEN Release(@, t) ELSE @]

\* Mutant: a task that has ended is still listed
ServiceEndpointsEver(db, s) ==
    { <<t, db.net[t].ip>> : t \in { u \in Tasks : Service[u] = s /\ db.net[u] # None } }

\* service_endpoints: the <<task, address>> pairs listed for service s
ServiceEndpoints(db, s) ==
    { <<t, db.net[t].ip>> : t \in { u \in Tasks : /\ Service[u] = s
                                                  /\ db.state[u] = "running"
                                                  /\ db.net[u] # None } }

\* Mutant: the handler does not look at node_id
AssignmentsOfAll(db, n) == { t \in Tasks : db.state[t] = "assigned" }

\* The assignments handler: what node n is asked to start
Assignments(db, n) == { t \in Tasks : db.state[t] = "assigned" /\ db.node[t] = n }

-----------------------------------------------------------------------------
(* scheduler.rs *)

\* The orphans requeue_dead_nodes collects
Orphans(db) ==
    { t \in Tasks : IsLive(db, t) /\ db.node[t] \in db.nodes \ db.alive }

\* Mutant: the task keeps showing its address
RequeueAddressed(db, t) ==
    [db EXCEPT !.state[t] = "pending", !.node[t] = None, !.ipam = Release(@, t)]

\* Mutant: the task stays assigned, to no node
RequeueNowhere(db, t) ==
    [db EXCEPT !.node[t] = None, !.net[t] = None, !.ipam = Release(@, t)]

\* One round of requeue_dead_nodes's loop
Requeue(db, t) ==
    [db EXCEPT !.state[t] = "pending", !.node[t] = None, !.net[t] = None,
               !.ipam = Release(@, t)]

\* The resources held by a set of tasks
Held(ts) == [cpu |-> MapThenSumSet(LAMBDA t : Need[t].cpu, ts),
             mem |-> MapThenSumSet(LAMBDA t : Need[t].mem, ts)]

\* The live tasks placed on n
TasksOn(db, n) == { t \in Tasks : IsLive(db, t) /\ db.node[t] = n }

\* recount_used
RecountUsed(db) == [n \in Nodes |-> Held(TasksOn(db, n))]

\* The tasks place_pending goes through, in the order of their ids
Pending(db) == { t \in Tasks : db.state[t] = "pending" }

\* The nodes pick_node's filter lets through
Eligible(db, used, t) ==
    { n \in db.alive : /\ FitsIn(Need[t], Total[n], used[n])
                       /\ Pinned[t] \in {None, n} }

Load(used, n) == [used |-> used[n], total |-> Total[n]]

\* pick_node returns n for t
Picks(db, used, t, n) ==
    /\ n \in Eligible(db, used, t)
    /\ \A m \in Eligible(db, used, t) \ {n} : Ahead(n, Load(used, n), m, Load(used, m))

Assign(db, t, n, network) ==
    [db EXCEPT !.state[t] = "assigned", !.node[t] = n, !.net[t] = network]

(***************************************************************************)
(* One round of place_pending's loop, for the node pick_node returned.  A  *)
(* networked task stays pending when its node has no address to give.  The *)
(* third case is the rollback for a node without a gateway.                *)
(***************************************************************************)
Place(db, t, n) ==
    LET ipam == Allocate(db.ipam, n, t)
        with == [db EXCEPT !.ipam = ipam]
    IN  CASE t \notin Networked -> Assign(db, t, n, None)
          [] t \in Networked /\ ipam.ip[t] = None -> with
          [] t \in Networked /\ ipam.ip[t] # None /\ GatewayFor(ipam, n) = None ->
               [with EXCEPT !.ipam = Release(ipam, t)]
          [] OTHER -> Assign(with, t, n, [ip |-> ipam.ip[t],
                                          gateway |-> GatewayFor(ipam, n)])

\* Mutant: what a pass places is counted by the next pass only
CommitLater(used, t, n) == used

\* The accounting that goes with it
Commit(used, t, n) == [used EXCEPT ![n] = Plus(@, Need[t])]

-----------------------------------------------------------------------------
(* What a store satisfies between two operations *)

Addressed(db, t) == IsLive(db, t) /\ db.net[t] # None

\* The IPAM holds, for each task, the address the task shows while it is live
Accounted(db) ==
    \A t \in Tasks : db.ipam.ip[t] = IF Addressed(db, t) THEN db.net[t].ip ELSE None

\* An addressed task is on a known node, in that node's /24
OnItsNode(db) ==
    \A t \in Tasks : Addressed(db, t) =>
        /\ db.node[t] \in db.nodes
        /\ db.net[t].ip[1] = db.ipam.subnet[db.node[t]]
        /\ db.net[t].gateway = GatewayFor(db.ipam, db.node[t])

\* A task that was not placed shows no address
UnplacedBare(db) ==
    \A t \in Tasks : db.state[t] \in {"absent", "pending"} => db.net[t] = None

\* A task that waits is on no node, and no task is on a node unknown to the store
Unplaced(db) ==
    \A t \in Tasks :
        /\ db.state[t] \in {"absent", "pending"} => db.node[t] = None
        /\ db.node[t] # None => db.node[t] \in db.nodes

StoreOK(db) ==
    /\ db \in Stores
    /\ db.alive \subseteq db.nodes
    /\ OctetsDistinct(db.ipam)
    /\ HeldDistinct(db.ipam)
    /\ UnplacedBare(db)
    /\ Accounted(db)
    /\ OnItsNode(db)
=============================================================================
