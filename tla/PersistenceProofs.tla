-------------------------- MODULE PersistenceProofs --------------------------
(***************************************************************************)
(* What the data directory promises, for any number of tasks, nodes,       *)
(* addresses, kills, stops and failed appends: replay is exact, and gives  *)
(* the addresses that were journaled, while mutations are journaled as a   *)
(* whole; a killed server boots; and what was acknowledged is final.       *)
(*                                                                         *)
(* The argument: each mutation's operations, replayed, do what the mutation*)
(* did (Journaled), so that the journal with the operations still to be    *)
(* appended always replays to the store in memory; and what a kill leaves  *)
(* of an append is, once repaired, that append or nothing.                 *)
(***************************************************************************)
EXTENDS Persistence, ControlPlaneProofs, SequenceTheorems

-----------------------------------------------------------------------------
(* Replay is a run over the journal: apply_ops *)

\* f goes through the first k operations
RunsTo(f, base, ops, k) ==
    f = [i \in 0 .. k |-> IF i = 0 THEN Restored(base) ELSE ApplyOne(f[i - 1], ops[i])]

\* There is such a run for every k: a least k without one would be one step
\* beyond a k that has one
LEMMA RunExists ==
    ASSUME NEW base, NEW ops
    PROVE  \A k \in Nat : \E f : RunsTo(f, base, ops, k)
<1> DEFINE F == { k \in Nat : ~ \E f : RunsTo(f, base, ops, k) }
<1> SUFFICES ASSUME F # {} PROVE FALSE
  OBVIOUS
<1>1. F \in SUBSET Nat
  OBVIOUS
<1>2. PICK k \in F : \A j \in F : k =< j
  BY <1>1, LeastInSet
<1>3. CASE k = 0
  <2> DEFINE g == [i \in 0 .. 0 |-> Restored(base)]
  <2>1. RunsTo(g, base, ops, 0)
    BY DEF RunsTo
  <2> QED
    BY <1>2, <1>3, <2>1
<1>4. CASE k # 0
  <2>1. k \in Nat /\ k - 1 \in Nat /\ k - 1 \notin F
    BY <1>1, <1>2, <1>4
  <2>2. PICK f : RunsTo(f, base, ops, k - 1)
    BY <2>1
  <2> DEFINE g == [i \in 0 .. k |-> IF i = k THEN ApplyOne(f[k - 1], ops[k]) ELSE f[i]]
  <2>3. RunsTo(g, base, ops, k)
    <3>1. \A i \in 0 .. (k - 1) : f[i] = IF i = 0 THEN Restored(base)
                                         ELSE ApplyOne(f[i - 1], ops[i])
      BY <2>2 DEF RunsTo
    <3>2. \A i \in 0 .. k : g[i] = IF i = 0 THEN Restored(base)
                                   ELSE ApplyOne(g[i - 1], ops[i])
      BY <1>4, <2>1, <3>1
    <3> QED
      BY <2>1, <3>2 DEF RunsTo
  <2> QED
    BY <1>2, <2>3
<1> QED
  BY <1>3, <1>4

\* Runs over operations that agree up to k agree up to k
LEMMA RunUnique ==
    ASSUME NEW base, NEW ops, NEW more, NEW k \in Nat, NEW m \in Nat, k =< m,
           \A i \in 1 .. k : more[i] = ops[i],
           NEW f, RunsTo(f, base, ops, k), NEW g, RunsTo(g, base, more, m)
    PROVE  \A i \in 0 .. k : f[i] = g[i]
<1> DEFINE F == { i \in 0 .. k : f[i] # g[i] }
<1> SUFFICES ASSUME F # {} PROVE FALSE
  OBVIOUS
<1>1. F \in SUBSET Nat
  OBVIOUS
<1>2. PICK i \in F : \A j \in F : i =< j
  BY <1>1, LeastInSet
<1>3. /\ f[i] = IF i = 0 THEN Restored(base) ELSE ApplyOne(f[i - 1], ops[i])
      /\ g[i] = IF i = 0 THEN Restored(base) ELSE ApplyOne(g[i - 1], more[i])
  BY <1>2 DEF RunsTo
<1>4. CASE i = 0
  BY <1>2, <1>3, <1>4
<1>5. CASE i # 0
  <2>1. i - 1 \in 0 .. k /\ i - 1 \notin F
    BY <1>2, <1>5
  <2>2. f[i - 1] = g[i - 1] /\ more[i] = ops[i]
    BY <1>2, <1>5, <2>1
  <2> QED
    BY <1>2, <1>3, <1>5, <2>2
<1> QED
  BY <1>4, <1>5

\* Replay is where the run over all operations ends
LEMMA ReplayIsRun ==
    ASSUME NEW base, NEW X, NEW ops \in Seq(X)
    PROVE  \E f : RunsTo(f, base, ops, Len(ops)) /\ Replay(base, ops) = f[Len(ops)]
<1> DEFINE after == CHOOSE f : RunsTo(f, base, ops, Len(ops))
<1>1. Len(ops) \in Nat
  OBVIOUS
<1>2. RunsTo(after, base, ops, Len(ops))
  BY <1>1, RunExists
<1>3. Replay(base, ops) = after[Len(ops)]
  BY Zenon DEF Replay, RunsTo
<1> QED
  BY <1>2, <1>3

\* An empty journal replays to the snapshot, with all nodes heard of
LEMMA ReplayNothing ==
    ASSUME NEW base
    PROVE  Replay(base, <<>>) = Restored(base)
<1>1. PICK f : RunsTo(f, base, <<>>, Len(<<>>)) /\ Replay(base, <<>>) = f[Len(<<>>)]
  <2>1. <<>> \in Seq({})
    OBVIOUS
  <2> QED
    BY <2>1, ReplayIsRun
<1>2. Len(<<>>) = 0 /\ \A i \in 0 .. 0 : i = 0
  OBVIOUS
<1>3. f = [i \in 0 .. 0 |-> IF i = 0 THEN Restored(base) ELSE ApplyOne(f[i - 1], <<>>[i])]
  BY <1>1, <1>2 DEF RunsTo
<1>4. f[0] = Restored(base)
  BY <1>3
<1> QED
  BY <1>1, <1>2, <1>4

\* An operation that is appended is applied last
LEMMA ReplayOneMore ==
    ASSUME NEW base, NEW X, NEW ops \in Seq(X), NEW op \in X
    PROVE  Replay(base, Append(ops, op)) = ApplyOne(Replay(base, ops), op)
<1> DEFINE more == Append(ops, op)
           n == Len(ops)
<1>1. /\ more \in Seq(X) /\ n \in Nat /\ Len(more) = n + 1 /\ more[n + 1] = op
      /\ \A i \in 1 .. n : more[i] = ops[i]
  OBVIOUS
<1> HIDE DEF more
<1>2. PICK f : RunsTo(f, base, ops, n) /\ Replay(base, ops) = f[n]
  BY ReplayIsRun
<1>3. PICK g : RunsTo(g, base, more, n + 1) /\ Replay(base, more) = g[n + 1]
  BY <1>1, ReplayIsRun
<1>4. f[n] = g[n]
  <2>1. n + 1 \in Nat /\ n =< n + 1 /\ n \in 0 .. n
    BY <1>1
  <2> HIDE DEF n
  <2>2. \A i \in 0 .. n : f[i] = g[i]
    BY <1>1, <1>2, <1>3, <2>1, RunUnique
  <2> QED
    BY <2>1, <2>2
<1>5. g[n + 1] = ApplyOne(g[n], more[n + 1])
  BY <1>1, <1>3 DEF RunsTo
<1> QED
  BY <1>1, <1>2, <1>3, <1>4, <1>5 DEF more

-----------------------------------------------------------------------------
(* JournalOp and apply_one *)

\* What an operation does to the state st of task t, wherever it is replayed
Effect(st, op, t) ==
    CASE op.op = "create_job" -> IF t \in op.tasks THEN "pending" ELSE st
      [] op.op = "set_task_state" ->
           IF t = op.task /\ st # "absent" /\ st \notin Terminal THEN op.state ELSE st
      [] op.op = "task_assigned" -> IF t = op.task /\ st # "absent" THEN "assigned" ELSE st
      [] op.op = "task_requeued" -> IF t = op.task /\ st # "absent" THEN "pending" ELSE st
      [] OTHER -> st

\* The operations are those of JournalOp
LEMMA OperationKinds ==
    ASSUME NEW op \in Operations
    PROVE  \/ \E job \in SUBSET Tasks : op = OpCreateJob(job)
           \/ \E t \in Tasks : \E s \in {"running"} \cup Terminal : op = OpSetTaskState(t, s)
           \/ \E t \in Tasks : \E n \in Nodes : \E network \in Networks \cup {None} :
                  op = OpTaskAssigned(t, n, network)
           \/ \E t \in Tasks : op = OpTaskRequeued(t)
           \/ \E n \in Nodes : op = OpRegisterNode(n)
           \/ \E n \in Nodes : \E t \in Tasks : \E ip \in Addresses :
                  op = OpIpamAllocate(n, t, ip)
           \/ \E t \in Tasks : op = OpIpamRelease(t)
<1>1. CASE op \in [op : {"create_job"}, tasks : SUBSET Tasks]
  BY <1>1 DEF OpCreateJob
<1>2. CASE op \in [op : {"set_task_state"}, task : Tasks, state : {"running"} \cup Terminal]
  BY <1>2 DEF OpSetTaskState
<1>3. CASE op \in [op : {"task_assigned"}, task : Tasks, node : Nodes,
                   network : Networks \cup {None}]
  BY <1>3 DEF OpTaskAssigned
<1>4. CASE op \in [op : {"task_requeued"}, task : Tasks]
  BY <1>4 DEF OpTaskRequeued
<1>5. CASE op \in [op : {"register_node"}, node : Nodes]
  BY <1>5 DEF OpRegisterNode
<1>6. CASE op \in [op : {"ipam_allocate"}, node : Nodes, task : Tasks, ip : Addresses]
  BY <1>6 DEF OpIpamAllocate
<1>7. CASE op \in [op : {"ipam_release"}, task : Tasks]
  BY <1>7 DEF OpIpamRelease
<1> QED
  BY <1>1, <1>2, <1>3, <1>4, <1>5, <1>6, <1>7 DEF Operations

\* They are operations, and no fragments
LEMMA OperationTypes ==
    /\ \A job \in SUBSET Tasks : OpCreateJob(job) \in Operations
    /\ \A t \in Tasks : \A s \in {"running"} \cup Terminal : OpSetTaskState(t, s) \in Operations
    /\ \A t \in Tasks : \A n \in Nodes : \A network \in Networks \cup {None} :
           OpTaskAssigned(t, n, network) \in Operations
    /\ \A t \in Tasks : OpTaskRequeued(t) \in Operations
    /\ \A n \in Nodes : OpRegisterNode(n) \in Operations
    /\ \A n \in Nodes : \A t \in Tasks : \A ip \in Addresses :
           OpIpamAllocate(n, t, ip) \in Operations
    /\ \A t \in Tasks : OpIpamRelease(t) \in Operations
<1>1. \A job \in SUBSET Tasks : OpCreateJob(job) \in Operations
  BY DEF OpCreateJob, Operations
<1>2. \A t \in Tasks : \A s \in {"running"} \cup Terminal : OpSetTaskState(t, s) \in Operations
  BY DEF OpSetTaskState, Operations
<1>3. \A t \in Tasks : \A n \in Nodes : \A network \in Networks \cup {None} :
           OpTaskAssigned(t, n, network) \in Operations
  BY DEF OpTaskAssigned, Operations
<1>4. \A t \in Tasks : OpTaskRequeued(t) \in Operations
  BY DEF OpTaskRequeued, Operations
<1>5. \A n \in Nodes : OpRegisterNode(n) \in Operations
  BY DEF OpRegisterNode, Operations
<1>6. \A n \in Nodes : \A t \in Tasks : \A ip \in Addresses :
           OpIpamAllocate(n, t, ip) \in Operations
  BY DEF OpIpamAllocate, Operations
<1>7. \A t \in Tasks : OpIpamRelease(t) \in Operations
  BY DEF OpIpamRelease, Operations
<1> QED
  BY <1>1, <1>2, <1>3, <1>4, <1>5, <1>6, <1>7

\* What is left of an interrupted write is no operation
LEMMA NoFragment == Fragment \notin Operations
  BY DEF Fragment, Operations

\* ipam.rs allocate, wherever it is replayed, keeps an IPAM an IPAM
LEMMA AllocateType ==
    ASSUME NEW ipam \in Ipams, NEW n \in Nodes, NEW t \in Tasks
    PROVE  Allocate(ipam, n, t) \in Ipams
<1> DEFINE with == SubnetOctet(ipam, n)
           z    == with.subnet[n]
<1>1. with \in Ipams
  <2>1. FreeOctets(ipam) \in SUBSET Octets /\ Octets \in SUBSET Nat
    BY OctetAssumption DEF FreeOctets, Octets
  <2>2. CASE ipam.subnet[n] = None /\ FreeOctets(ipam) # {}
    <3>1. Least(FreeOctets(ipam)) \in Octets
      BY <2>1, <2>2, LeastInSet
    <3> QED
      BY <2>2, <3>1 DEF SubnetOctet, Ipams
  <2> QED
    BY <2>2 DEF SubnetOctet
<1>2. z \in Octets \cup {None}
  BY <1>1 DEF Ipams
<1>3. CASE z # None /\ FreeHosts(with, z) # {} /\ ipam.ip[t] = None
  <2>1. FreeHosts(with, z) \in SUBSET HostOctets /\ HostOctets \in SUBSET Nat
    BY OctetAssumption DEF FreeHosts, HostOctets, FirstHost
  <2>2. Least(FreeHosts(with, z)) \in HostOctets
    BY <1>3, <2>1, LeastInSet
  <2>3. <<z, Least(FreeHosts(with, z))>> \in Addresses
    BY <1>2, <1>3, <2>2 DEF Addresses
  <2>4. Allocate(ipam, n, t) = [with EXCEPT !.ip[t] = <<z, Least(FreeHosts(with, z))>>]
    BY <1>3 DEF Allocate
  <2> HIDE DEF with, z
  <2> QED
    BY <1>1, <2>3, <2>4 DEF Ipams
<1>4. CASE ~ (z # None /\ FreeHosts(with, z) # {} /\ ipam.ip[t] = None)
  BY <1>1, <1>4 DEF Allocate
<1> QED
  BY <1>3, <1>4

\* ipam.rs release is idempotent, and does nothing where nothing is held
LEMMA ReleaseType ==
    ASSUME NEW ipam \in Ipams, NEW t \in Tasks
    PROVE  /\ Release(ipam, t) \in Ipams
           /\ Release(Release(ipam, t), t) = Release(ipam, t)
           /\ ipam.ip[t] = None => Release(ipam, t) = ipam
  BY DEF Release, Ipams

\* restore only changes who was heard of
LEMMA RestoredType ==
    ASSUME NEW s \in Stores
    PROVE  Restored(s) \in Stores /\ Restored(s).state = s.state
           /\ Restored(s).node = s.node /\ Restored(s).net = s.net
           /\ Restored(s).nodes = s.nodes /\ Restored(s).alive = s.alive \cup s.nodes
           /\ Restored(s).ipam = s.ipam
  BY DEF Restored, Stores

\* state.rs set_task_state keeps the store a store, in any state of it
LEMMA SetTaskStateType ==
    ASSUME NEW s \in Stores, NEW t \in Tasks, NEW st \in TaskStates
    PROVE  SetTaskState(s, t, st) \in Stores
<1> DEFINE ipam == IF st \in Terminal THEN Release(s.ipam, t) ELSE s.ipam
           state == [s.state EXCEPT ![t] = st]
<1>1. ipam \in Ipams /\ state \in [Tasks -> TaskStates]
  BY ReleaseType DEF Stores
<1>2. ~Refused(s, t) => SetTaskState(s, t, st) = [s EXCEPT !.state = state, !.ipam = ipam]
  BY DEF SetTaskState, Stores
<1> HIDE DEF ipam, state
<1>3. CASE ~Refused(s, t)
  BY <1>1, <1>2, <1>3 DEF Stores
<1>4. CASE Refused(s, t)
  BY <1>4 DEF SetTaskState
<1> QED
  BY <1>3, <1>4

\* scheduler.rs requeue_dead_nodes does
LEMMA RequeueType ==
    ASSUME NEW s \in Stores, NEW t \in Tasks
    PROVE  Requeue(s, t) \in Stores
<1> DEFINE ipam == Release(s.ipam, t)
           state == [s.state EXCEPT ![t] = "pending"]
           node == [s.node EXCEPT ![t] = None]
           net == [s.net EXCEPT ![t] = None]
<1>1. /\ ipam \in Ipams /\ state \in [Tasks -> TaskStates]
      /\ node \in [Tasks -> Nodes \cup {None}] /\ net \in [Tasks -> Networks \cup {None}]
  BY ReleaseType DEF Stores, TaskStates
<1>2. Requeue(s, t) = [s EXCEPT !.state = state, !.node = node, !.net = net, !.ipam = ipam]
  BY DEF Requeue, Stores
<1> HIDE DEF ipam, state, node, net
<1> QED
  BY <1>1, <1>2 DEF Stores

\* state.rs create_job does
LEMMA CreateJobType ==
    ASSUME NEW s \in Stores, NEW job \in SUBSET Tasks
    PROVE  CreateJob(s, job) \in Stores
  BY DEF CreateJob, Stores, TaskStates

\* scheduler.rs place_pending does
LEMMA PlaceType ==
    ASSUME NEW s \in Stores, NEW t \in Tasks, NEW n \in Nodes
    PROVE  Place(s, t, n) \in Stores
<1> DEFINE ipam == Allocate(s.ipam, n, t)
           with == [s EXCEPT !.ipam = ipam]
           gateway == GatewayFor(ipam, n)
           network == [ip |-> ipam.ip[t], gateway |-> gateway]
           freed == Release(ipam, t)
<1>1. ipam \in Ipams /\ freed \in Ipams
  BY AllocateType, ReleaseType DEF Stores
<1>2. with \in Stores
  BY <1>1 DEF Stores
<1>3. ipam.ip[t] # None /\ gateway # None => network \in Networks
  BY <1>1 DEF Networks, Ipams, GatewayFor
<1>4. \/ Place(s, t, n) = Assign(s, t, n, None)
      \/ Place(s, t, n) = with
      \/ Place(s, t, n) = [with EXCEPT !.ipam = freed]
      \/ /\ Place(s, t, n) = Assign(with, t, n, network)
         /\ ipam.ip[t] # None /\ gateway # None
  BY DEF Place
<1> HIDE DEF ipam, with, gateway, network, freed
<1>5. [with EXCEPT !.ipam = freed] \in Stores
  BY <1>1, <1>2 DEF Stores
<1> QED
  BY <1>2, <1>3, <1>4, <1>5, AssignSpec

\* Each operation by itself: where it leads, and what it does to the states
LEMMA ApplyCreateJob ==
    ASSUME NEW s \in Stores, NEW job \in SUBSET Tasks
    PROVE  LET after == ApplyOne(s, OpCreateJob(job)) IN
             /\ after \in Stores
             /\ after.state = [t \in Tasks |-> IF t \in job THEN "pending" ELSE s.state[t]]
             /\ after.node = [t \in Tasks |-> IF t \in job THEN None ELSE s.node[t]]
             /\ after.net = [t \in Tasks |-> IF t \in job THEN None ELSE s.net[t]]
             /\ after.nodes = s.nodes /\ after.alive = s.alive /\ after.ipam = s.ipam
<1> DEFINE after == ApplyOne(s, OpCreateJob(job))
           state == [t \in Tasks |-> IF t \in job THEN "pending" ELSE s.state[t]]
           node == [t \in Tasks |-> IF t \in job THEN None ELSE s.node[t]]
           net == [t \in Tasks |-> IF t \in job THEN None ELSE s.net[t]]
<1>1. after = [s EXCEPT !.state = state, !.node = node, !.net = net]
  BY DEF ApplyOne, OpCreateJob
<1>2. /\ state \in [Tasks -> TaskStates] /\ node \in [Tasks -> Nodes \cup {None}]
      /\ net \in [Tasks -> Networks \cup {None}]
  BY DEF Stores, TaskStates
<1>3. /\ after \in Stores /\ after.state = state /\ after.node = node /\ after.net = net
      /\ after.nodes = s.nodes /\ after.alive = s.alive /\ after.ipam = s.ipam
  <2> HIDE DEF state, node, net, after
  <2> QED
    BY <1>1, <1>2 DEF Stores
<1> QED
  BY <1>3

\* apply_one is the handler for set_task_state
LEMMA ApplySetTaskState ==
    ASSUME NEW s, NEW t, NEW st
    PROVE  ApplyOne(s, OpSetTaskState(t, st)) = SetTaskState(s, t, st)
  BY DEF ApplyOne, OpSetTaskState

\* apply_one overwrites what task_assigned names
LEMMA ApplyTaskAssigned ==
    ASSUME NEW s, NEW t, NEW n, NEW network
    PROVE  ApplyOne(s, OpTaskAssigned(t, n, network)) =
               IF Known(s, t) THEN Assign(s, t, n, network) ELSE s
  BY DEF ApplyOne, OpTaskAssigned

\* apply_one puts back what task_requeued names, whatever its state
LEMMA ApplyTaskRequeued ==
    ASSUME NEW s, NEW t
    PROVE  ApplyOne(s, OpTaskRequeued(t)) =
               IF Known(s, t)
               THEN [s EXCEPT !.state[t] = "pending", !.node[t] = None, !.net[t] = None]
               ELSE s
  BY DEF ApplyOne, OpTaskRequeued

\* apply_one is the handler for register_node
LEMMA ApplyRegisterNode ==
    ASSUME NEW s, NEW n
    PROVE  ApplyOne(s, OpRegisterNode(n)) = RegisterNode(s, n)
  BY DEF ApplyOne, OpRegisterNode

\* apply_one allocates afresh for ipam_allocate, and ignores the address
LEMMA ApplyIpamAllocate ==
    ASSUME NEW s, NEW n, NEW t, NEW ip
    PROVE  ApplyOne(s, OpIpamAllocate(n, t, ip)) =
               [s EXCEPT !.ipam = Allocate(s.ipam, n, t)]
  BY DEF ApplyOne, OpIpamAllocate

\* apply_one releases for ipam_release
LEMMA ApplyIpamRelease ==
    ASSUME NEW s, NEW t
    PROVE  ApplyOne(s, OpIpamRelease(t)) = [s EXCEPT !.ipam = Release(s.ipam, t)]
  BY DEF ApplyOne, OpIpamRelease

\* apply_one on any store gives a store, and changes states as Effect says
LEMMA ApplyOneType ==
    ASSUME NEW s \in Stores, NEW op \in Operations
    PROVE  /\ ApplyOne(s, op) \in Stores
           /\ \A t \in Tasks : ApplyOne(s, op).state[t] = Effect(s.state[t], op, t)
<1> DEFINE after == ApplyOne(s, op)
<1>1. ASSUME NEW job \in SUBSET Tasks, op = OpCreateJob(job)
      PROVE  /\ after \in Stores
             /\ \A t \in Tasks : after.state[t] = Effect(s.state[t], op, t)
  <2>1. after \in Stores /\ after.state = [t \in Tasks |-> IF t \in job THEN "pending"
                                                         ELSE s.state[t]]
    BY <1>1, ApplyCreateJob
  <2> HIDE DEF after
  <2> QED
    BY <1>1, <2>1 DEF Effect, OpCreateJob
<1>2. ASSUME NEW u \in Tasks, NEW st \in {"running"} \cup Terminal, op = OpSetTaskState(u, st)
      PROVE  /\ after \in Stores
             /\ \A t \in Tasks : after.state[t] = Effect(s.state[t], op, t)
  <2>1. st \in TaskStates
    BY DEF TaskStates, Live, Terminal
  <2>2. after = SetTaskState(s, u, st)
    BY <1>2, ApplySetTaskState
  <2>3. after \in Stores
    BY <2>1, <2>2, SetTaskStateType
  <2>4. \A t \in Tasks : after.state[t] = IF t = u /\ ~Refused(s, u) THEN st ELSE s.state[t]
    BY <2>2, SetTaskStateShape
  <2> HIDE DEF after
  <2>5. /\ op.op = "set_task_state" /\ op.task = u /\ op.state = st
    BY <1>2 DEF OpSetTaskState
  <2> QED
    BY <2>3, <2>4, <2>5 DEF Effect, Refused, IsTerminal
<1>3. ASSUME NEW u \in Tasks, NEW n \in Nodes, NEW network \in Networks \cup {None},
             op = OpTaskAssigned(u, n, network)
      PROVE  /\ after \in Stores
             /\ \A t \in Tasks : after.state[t] = Effect(s.state[t], op, t)
  <2>1. after = IF Known(s, u) THEN Assign(s, u, n, network) ELSE s
    BY <1>3, ApplyTaskAssigned
  <2>2. /\ after \in Stores
        /\ \A t \in Tasks : after.state[t] = IF t = u /\ Known(s, u) THEN "assigned"
                                             ELSE s.state[t]
    BY <2>1, AssignSpec
  <2>3. op.op = "task_assigned" /\ op.task = u
    BY <1>3 DEF OpTaskAssigned
  <2> HIDE DEF after
  <2> QED
    BY <2>2, <2>3 DEF Effect, Known
<1>4. ASSUME NEW u \in Tasks, op = OpTaskRequeued(u)
      PROVE  /\ after \in Stores
             /\ \A t \in Tasks : after.state[t] = Effect(s.state[t], op, t)
  <2> DEFINE state == [s.state EXCEPT ![u] = "pending"]
             node == [s.node EXCEPT ![u] = None]
             net == [s.net EXCEPT ![u] = None]
  <2>1. after = IF Known(s, u) THEN [s EXCEPT !.state = state, !.node = node, !.net = net] ELSE s
    BY <1>4, ApplyTaskRequeued DEF Stores
  <2>2. /\ state \in [Tasks -> TaskStates] /\ node \in [Tasks -> Nodes \cup {None}]
        /\ net \in [Tasks -> Networks \cup {None}]
        /\ \A t \in Tasks : state[t] = IF t = u THEN "pending" ELSE s.state[t]
    BY DEF Stores, TaskStates
  <2>3. op.op = "task_requeued" /\ op.task = u
    BY <1>4 DEF OpTaskRequeued
  <2> HIDE DEF after, state, node, net
  <2>4. /\ after \in Stores
        /\ after.state = IF Known(s, u) THEN state ELSE s.state
    BY <2>1, <2>2 DEF Stores
  <2> QED
    BY <2>2, <2>3, <2>4 DEF Effect, Known
<1>5. ASSUME NEW n \in Nodes, op = OpRegisterNode(n)
      PROVE  /\ after \in Stores
             /\ \A t \in Tasks : after.state[t] = Effect(s.state[t], op, t)
  <2>1. after \in Stores /\ after.state = s.state
    <3>1. after = RegisterNode(s, n)
      BY <1>5, ApplyRegisterNode
    <3> QED
      BY <3>1 DEF RegisterNode, Stores
  <2> HIDE DEF after
  <2>2. op.op = "register_node"
    BY <1>5 DEF OpRegisterNode
  <2> QED
    BY <2>1, <2>2 DEF Effect
<1>6. ASSUME NEW n \in Nodes, NEW u \in Tasks, NEW ip \in Addresses,
             op = OpIpamAllocate(n, u, ip)
      PROVE  /\ after \in Stores
             /\ \A t \in Tasks : after.state[t] = Effect(s.state[t], op, t)
  <2>1. Allocate(s.ipam, n, u) \in Ipams
    BY AllocateType DEF Stores
  <2>2. after \in Stores /\ after.state = s.state
    BY <1>6, <2>1, ApplyIpamAllocate DEF Stores
  <2> HIDE DEF after
  <2>3. op.op = "ipam_allocate"
    BY <1>6 DEF OpIpamAllocate
  <2> QED
    BY <2>2, <2>3 DEF Effect
<1>7. ASSUME NEW u \in Tasks, op = OpIpamRelease(u)
      PROVE  /\ after \in Stores
             /\ \A t \in Tasks : after.state[t] = Effect(s.state[t], op, t)
  <2>1. Release(s.ipam, u) \in Ipams
    BY ReleaseType DEF Stores
  <2>2. after \in Stores /\ after.state = s.state
    BY <1>7, <2>1, ApplyIpamRelease DEF Stores
  <2> HIDE DEF after
  <2>3. op.op = "ipam_release"
    BY <1>7 DEF OpIpamRelease
  <2> QED
    BY <2>2, <2>3 DEF Effect
<1> QED
  BY <1>1, <1>2, <1>3, <1>4, <1>5, <1>6, <1>7, OperationKinds

\* Replay leads to a store
LEMMA ReplayType ==
    ASSUME NEW base \in Stores, NEW ops \in Seq(Operations)
    PROVE  Replay(base, ops) \in Stores
<1>1. PICK f : RunsTo(f, base, ops, Len(ops)) /\ Replay(base, ops) = f[Len(ops)]
  BY ReplayIsRun
<1> DEFINE F == { i \in 0 .. Len(ops) : f[i] \notin Stores }
<1>2. SUFFICES ASSUME F # {} PROVE FALSE
  <2>1. Len(ops) \in 0 .. Len(ops)
    OBVIOUS
  <2> QED
    BY <1>1, <2>1
<1>3. F \in SUBSET Nat
  OBVIOUS
<1>4. PICK i \in F : \A j \in F : i =< j
  BY <1>2, <1>3, LeastInSet
<1>5. f[i] = IF i = 0 THEN Restored(base) ELSE ApplyOne(f[i - 1], ops[i])
  BY <1>1, <1>4 DEF RunsTo
<1>6. CASE i = 0
  BY <1>4, <1>5, <1>6, RestoredType
<1>7. CASE i # 0
  <2>1. i - 1 \in 0 .. Len(ops) /\ i - 1 \notin F /\ ops[i] \in Operations
    BY <1>4, <1>7
  <2>2. f[i - 1] \in Stores
    BY <2>1
  <2>3. ApplyOne(f[i - 1], ops[i]) \in Stores
    BY <2>1, <2>2, ApplyOneType
  <2> QED
    BY <1>4, <1>5, <1>7, <2>3
<1> QED
  BY <1>6, <1>7

(***************************************************************************)
(* A task that a journal leaves in a terminal state is in one also when    *)
(* the journal is replayed onto a store in which it is in one already.     *)
(***************************************************************************)
LEMMA TerminalTwice ==
    ASSUME NEW base \in Stores, NEW other \in Stores, NEW ops \in Seq(Operations),
           NEW t \in Tasks, IsTerminal(Replay(base, ops), t), IsTerminal(other, t)
    PROVE  IsTerminal(Replay(other, ops), t)
<1>1. PICK f : RunsTo(f, base, ops, Len(ops)) /\ Replay(base, ops) = f[Len(ops)]
  BY ReplayIsRun
<1>2. PICK g : RunsTo(g, other, ops, Len(ops)) /\ Replay(other, ops) = g[Len(ops)]
  BY ReplayIsRun
<1> DEFINE Alike(i) == /\ f[i] \in Stores /\ g[i] \in Stores
                       /\ \/ g[i].state[t] = f[i].state[t]
                          \/ f[i].state[t] = "absent"
                          \/ g[i].state[t] \in Terminal
           F == { i \in 0 .. Len(ops) : ~Alike(i) }
<1>3. SUFFICES ASSUME F # {} PROVE FALSE
  <2>1. Len(ops) \in 0 .. Len(ops)
    OBVIOUS
  <2>2. F = {} => Alike(Len(ops))
    BY <2>1
  <2>3. f[Len(ops)].state[t] \in Terminal
    BY <1>1 DEF IsTerminal
  <2>4. F = {} => g[Len(ops)].state[t] \in Terminal
    BY <2>2, <2>3 DEF Terminal
  <2> QED
    BY <1>2, <2>4 DEF IsTerminal
<1>4. F \in SUBSET Nat
  OBVIOUS
<1>5. PICK i \in F : \A j \in F : i =< j
  BY <1>3, <1>4, LeastInSet
<1>6. /\ f[i] = IF i = 0 THEN Restored(base) ELSE ApplyOne(f[i - 1], ops[i])
      /\ g[i] = IF i = 0 THEN Restored(other) ELSE ApplyOne(g[i - 1], ops[i])
  BY <1>1, <1>2, <1>5 DEF RunsTo
<1>7. CASE i = 0
  <2>1. Alike(0)
    BY <1>6, <1>7, RestoredType DEF IsTerminal
  <2> QED
    BY <1>5, <1>7, <2>1
<1>8. CASE i # 0
  <2>1. i - 1 \in 0 .. Len(ops) /\ i - 1 \notin F /\ ops[i] \in Operations
    BY <1>5, <1>8
  <2>2. Alike(i - 1)
    BY <2>1
  <2>3. /\ f[i] \in Stores /\ f[i].state[t] = Effect(f[i - 1].state[t], ops[i], t)
        /\ g[i] \in Stores /\ g[i].state[t] = Effect(g[i - 1].state[t], ops[i], t)
    <3>1. f[i - 1] \in Stores /\ g[i - 1] \in Stores
      BY <2>2
    <3>2. /\ ApplyOne(f[i - 1], ops[i]) \in Stores
          /\ ApplyOne(f[i - 1], ops[i]).state[t] = Effect(f[i - 1].state[t], ops[i], t)
          /\ ApplyOne(g[i - 1], ops[i]) \in Stores
          /\ ApplyOne(g[i - 1], ops[i]).state[t] = Effect(g[i - 1].state[t], ops[i], t)
      BY <2>1, <3>1, ApplyOneType
    <3> QED
      BY <1>6, <1>8, <3>2
  <2> DEFINE a == f[i - 1].state[t]
             b == g[i - 1].state[t]
             op == ops[i]
  <2>4. b = a \/ a = "absent" \/ b \in Terminal
    BY <2>2
  <2> HIDE DEF a, b, op
  <2>5. \/ Effect(b, op, t) = Effect(a, op, t)
        \/ Effect(a, op, t) = "absent"
        \/ Effect(b, op, t) \in Terminal
    BY <2>4 DEF Effect, Terminal
  <2>6. Alike(i)
    BY <2>3, <2>5 DEF a, b, op
  <2> QED
    BY <1>5, <2>6
<1> QED
  BY <1>7, <1>8

-----------------------------------------------------------------------------
(* Stores *)

\* Stores are equal when their six parts are
LEMMA StoresEqual ==
    ASSUME NEW r \in Stores, NEW s \in Stores,
           r.state = s.state, r.node = s.node, r.net = s.net,
           r.nodes = s.nodes, r.alive = s.alive, r.ipam = s.ipam
    PROVE  r = s
  BY DEF Stores

\* An assignment does not look at who was heard of
LEMMA AssignRestored ==
    ASSUME NEW s \in Stores, NEW t \in Tasks, NEW n \in Nodes,
           NEW network \in Networks \cup {None}
    PROVE  Assign(Restored(s), t, n, network) = Restored(Assign(s, t, n, network))
  BY DEF Assign, Restored, Stores

\* Neither does a report, which may also be taken after its release was replayed
LEMMA SetTaskStateRestored ==
    ASSUME NEW s \in Stores, NEW t \in Tasks, NEW st \in TaskStates
    PROVE  /\ SetTaskState(Restored(s), t, st) = Restored(SetTaskState(s, t, st))
           /\ st \in Terminal =>
                SetTaskState([Restored(s) EXCEPT !.ipam = Release(s.ipam, t)], t, st)
                  = IF Refused(s, t) THEN [Restored(s) EXCEPT !.ipam = Release(s.ipam, t)]
                    ELSE Restored(SetTaskState(s, t, st))
<1>1. Release(Release(s.ipam, t), t) = Release(s.ipam, t)
  BY ReleaseType DEF Stores
<1>2. SetTaskState(Restored(s), t, st) = Restored(SetTaskState(s, t, st))
  BY DEF SetTaskState, Restored, Refused, IsTerminal, Stores
<1> DEFINE r == [Restored(s) EXCEPT !.ipam = Release(s.ipam, t)]
<1>3. ASSUME st \in Terminal
      PROVE  SetTaskState(r, t, st) = IF Refused(s, t) THEN r ELSE Restored(SetTaskState(s, t, st))
  <2>1. Refused(r, t) <=> Refused(s, t)
    BY DEF Restored, Refused, IsTerminal, Stores
  <2>2. CASE Refused(s, t)
    BY <2>1, <2>2 DEF SetTaskState
  <2>3. CASE ~Refused(s, t)
    <3>1. SetTaskState(r, t, st) = [r EXCEPT !.state[t] = st, !.ipam = Release(r.ipam, t)]
      BY <1>3, <2>1, <2>3 DEF SetTaskState
    <3>2. r.ipam = Release(s.ipam, t)
      BY DEF Restored, Stores
    <3>3. SetTaskState(r, t, st) = [r EXCEPT !.state[t] = st, !.ipam = Release(s.ipam, t)]
      BY <1>1, <3>1, <3>2
    <3>4. SetTaskState(s, t, st) = [s EXCEPT !.state[t] = st, !.ipam = Release(s.ipam, t)]
      BY <1>3, <2>3 DEF SetTaskState
    <3> QED
      BY <2>3, <3>3, <3>4 DEF Restored, Stores
  <2> QED
    BY <2>2, <2>3
<1> QED
  BY <1>2, <1>3

\* When allocate finds no address it leaves the IPAM as it was: an octet that is
\* given to a node comes with free addresses
LEMMA AllocateAllOrNothing ==
    ASSUME NEW s, StoreOK(s), NEW n \in Nodes, NEW t \in Tasks, s.ipam.ip[t] = None,
           Allocate(s.ipam, n, t).ip[t] = None
    PROVE  Allocate(s.ipam, n, t) = s.ipam
<1> DEFINE ipam == s.ipam
           with == SubnetOctet(ipam, n)
           z    == with.subnet[n]
<1>1. /\ ipam \in Ipams /\ OctetsDistinct(ipam) /\ s \in Stores
  BY DEF StoreOK, Stores
<1>2. with \in Ipams /\ with.ip = ipam.ip
  BY <1>1, SubnetOctetSpec
<1>3. CASE ipam.subnet[n] = None /\ FreeOctets(ipam) # {}
  <2>1. FreeOctets(ipam) \in SUBSET Octets /\ Octets \in SUBSET Nat
    BY OctetAssumption DEF FreeOctets, Octets
  <2> DEFINE o == Least(FreeOctets(ipam))
  <2>2. o \in FreeOctets(ipam)
    BY <1>3, <2>1, LeastInSet
  <2> HIDE DEF o
  <2>3. with = [ipam EXCEPT !.subnet[n] = o]
    BY <1>3 DEF SubnetOctet, o
  <2>4. z = o
    BY <1>1, <2>3 DEF Ipams
  <2>5. o \in Octets /\ o # None /\ \A m \in Nodes : ipam.subnet[m] # o
    BY <2>1, <2>2, NoneAssumption DEF FreeOctets
  <2>6. \A u \in Tasks : ipam.ip[u] # <<o, FirstHost>>
    <3> SUFFICES ASSUME NEW u \in Tasks, ipam.ip[u] = <<o, FirstHost>>
                 PROVE  FALSE
      OBVIOUS
    <3>1. ipam.ip[u] # None
      BY <2>1, <2>5, NoneAssumption DEF FirstHost
    <3>2. Addressed(s, u) /\ s.net[u].ip = ipam.ip[u]
      BY <3>1 DEF StoreOK, Accounted
    <3>3. s.node[u] \in Nodes /\ s.net[u].ip[1] = ipam.subnet[s.node[u]]
      BY <1>1, <3>2 DEF StoreOK, OnItsNode, Stores
    <3> QED
      BY <2>5, <3>2, <3>3
  <2>7. FirstHost \in FreeHosts(with, z)
    BY <1>2, <2>4, <2>6, PersistenceAssumption, OctetAssumption
       DEF FreeHosts, HostOctets, FirstHost
  <2>8. Allocate(ipam, n, t) = [with EXCEPT !.ip[t] = <<z, Least(FreeHosts(with, z))>>]
    BY <2>4, <2>5, <2>7 DEF Allocate
  <2> DEFINE a == <<z, Least(FreeHosts(with, z))>>
  <2>9. a # None
    <3>1. FreeHosts(with, z) \in SUBSET HostOctets /\ HostOctets \in SUBSET Nat
      BY OctetAssumption DEF FreeHosts, HostOctets, FirstHost
    <3>2. Least(FreeHosts(with, z)) \in Nat
      BY <2>7, <3>1, LeastInSet
    <3> QED
      BY <2>1, <2>4, <2>5, <3>2, NoneAssumption
  <2> HIDE DEF a, with, z
  <2>10. Allocate(ipam, n, t).ip[t] = a
    BY <1>2, <2>8 DEF Ipams, a
  <2> QED
    BY <2>9, <2>10
<1>4. CASE ~ (ipam.subnet[n] = None /\ FreeOctets(ipam) # {})
  <2>1. with = ipam
    BY <1>4 DEF SubnetOctet
  <2>2. CASE z = None \/ FreeHosts(with, z) = {}
    BY <2>1, <2>2 DEF Allocate
  <2>3. CASE z # None /\ FreeHosts(with, z) # {}
    <3> DEFINE a == <<z, Least(FreeHosts(with, z))>>
    <3>1. FreeHosts(with, z) \in SUBSET HostOctets /\ HostOctets \in SUBSET Nat
      BY OctetAssumption DEF FreeHosts, HostOctets, FirstHost
    <3>2. Least(FreeHosts(with, z)) \in Nat
      BY <2>3, <3>1, LeastInSet
    <3>3. z \in Nat
      BY <1>2, <2>3, OctetAssumption DEF Ipams, Octets
    <3>4. a # None
      BY <3>2, <3>3, NoneAssumption
    <3>5. Allocate(ipam, n, t) = [with EXCEPT !.ip[t] = a]
      BY <2>3 DEF Allocate
    <3> HIDE DEF a, with, z
    <3>6. Allocate(ipam, n, t).ip[t] = a
      BY <1>2, <3>5 DEF Ipams
    <3> QED
      BY <3>4, <3>6
  <2> QED
    BY <2>2, <2>3
<1> QED
  BY <1>3, <1>4

-----------------------------------------------------------------------------
(* What each mutation journals: state.rs, scheduler.rs *)

\* The store after up to two operations
Through(r, ops) ==
    CASE Len(ops) = 0 -> r
      [] Len(ops) = 1 -> ApplyOne(r, ops[1])
      [] OTHER -> ApplyOne(ApplyOne(r, ops[1]), ops[2])

\* What a mutation from s to after journals
Journaled(s, after, ops) ==
    /\ after \in Stores
    /\ ops \in Seq(Operations) /\ Len(ops) =< 2
    /\ Len(ops) = 2 => OfIpam(ops[1])
    /\ \A r \in Stores : r.state = s.state => Through(r, ops).state = after.state
    /\ Whole(s) => Whole(after) /\ Through(Restored(s), ops) = Restored(after)
    /\ \A i \in 1 .. Len(ops) : Acknowledges(ops[i]) => IsTerminal(after, ops[i].task)
    /\ \A t \in Tasks : IsTerminal(s, t) => IsTerminal(after, t)
    /\ \A i \in 1 .. Len(ops) : ops[i].op = "ipam_allocate" =>
           i = 1 /\ (Whole(s) => ~Disagrees(Restored(s), ops[1]))

\* After no operation
LEMMA ThroughNone == \A r : Through(r, <<>>) = r
  BY DEF Through

\* After one
LEMMA ThroughOne ==
    ASSUME NEW r, NEW op
    PROVE  Through(r, <<op>>) = ApplyOne(r, op)
  BY DEF Through

\* After two
LEMMA ThroughTwo ==
    ASSUME NEW r, NEW op, NEW last
    PROVE  Through(r, <<op, last>>) = ApplyOne(ApplyOne(r, op), last)
  BY DEF Through

\* States are equal when they are for each task
LEMMA StatesEqual ==
    ASSUME NEW r \in Stores, NEW s \in Stores, \A t \in Tasks : r.state[t] = s.state[t]
    PROVE  r.state = s.state
  BY DEF Stores

\* create_job journals what it does
LEMMA SubmitJournaled ==
    ASSUME NEW s \in Stores, NEW job \in SUBSET Tasks, \A t \in job : s.state[t] = "absent"
    PROVE  Journaled(s, CreateJob(s, job), <<OpCreateJob(job)>>)
<1> DEFINE after == CreateJob(s, job)
           op == OpCreateJob(job)
           ops == <<op>>
<1>1. after \in Stores /\ op \in Operations
  BY CreateJobType, OperationTypes
<1>2. ops \in Seq(Operations) /\ Len(ops) = 1 /\ ops[1] = op
  BY <1>1
<1>3. \A t \in Tasks : after.state[t] = IF t \in job THEN "pending" ELSE s.state[t]
  BY CreateJobShape
<1>4. ASSUME NEW r \in Stores, r.state = s.state
      PROVE  Through(r, ops).state = after.state
  <2>1. Through(r, ops) = ApplyOne(r, op)
    BY ThroughOne
  <2>2. /\ ApplyOne(r, op) \in Stores
        /\ ApplyOne(r, op).state = [t \in Tasks |-> IF t \in job THEN "pending" ELSE r.state[t]]
    BY ApplyCreateJob
  <2> QED
    BY <1>1, <1>3, <1>4, <2>1, <2>2, StatesEqual
<1>5. ASSUME Whole(s)
      PROVE  Whole(after) /\ Through(Restored(s), ops) = Restored(after)
  <2>1. StoreOK(after)
    BY <1>5, CreateJobSound DEF Whole, Sound
  <2>2. Unplaced(after)
    BY <1>5, CreateJobShape DEF Whole, Unplaced
  <2> DEFINE r == Restored(s)
             x == ApplyOne(r, op)
  <2>3. /\ r \in Stores /\ r.state = s.state /\ r.node = s.node /\ r.net = s.net
        /\ r.nodes = s.nodes /\ r.alive = s.alive \cup s.nodes /\ r.ipam = s.ipam
    BY RestoredType
  <2> HIDE DEF r
  <2>4. /\ x \in Stores
        /\ x.state = [t \in Tasks |-> IF t \in job THEN "pending" ELSE r.state[t]]
        /\ x.node = [t \in Tasks |-> IF t \in job THEN None ELSE r.node[t]]
        /\ x.net = [t \in Tasks |-> IF t \in job THEN None ELSE r.net[t]]
        /\ x.nodes = r.nodes /\ x.alive = r.alive /\ x.ipam = r.ipam
    BY <2>3, ApplyCreateJob
  <2>5. \A t \in job : s.node[t] = None /\ s.net[t] = None
    BY <1>5 DEF Whole, Unplaced, StoreOK, UnplacedBare
  <2>6. /\ Restored(after) \in Stores /\ Restored(after).state = after.state
        /\ Restored(after).node = s.node /\ Restored(after).net = s.net
        /\ Restored(after).nodes = s.nodes /\ Restored(after).alive = s.alive \cup s.nodes
        /\ Restored(after).ipam = s.ipam
    <3>1. /\ after.node = s.node /\ after.net = s.net /\ after.nodes = s.nodes
          /\ after.alive = s.alive /\ after.ipam = s.ipam
      BY DEF CreateJob, Stores
    <3> QED
      BY <1>1, <3>1, RestoredType
  <2> HIDE DEF x, op, after
  <2>7. x.node = s.node /\ x.net = s.net
    BY <2>3, <2>4, <2>5 DEF Stores
  <2>8. x.state = after.state
    BY <1>1, <1>3, <2>3, <2>4 DEF Stores
  <2> DEFINE y == Restored(after)
  <2>9. /\ y \in Stores /\ x.state = y.state /\ x.node = y.node /\ x.net = y.net
        /\ x.nodes = y.nodes /\ x.alive = y.alive /\ x.ipam = y.ipam
    BY <2>3, <2>4, <2>6, <2>7, <2>8
  <2> HIDE DEF y
  <2>10. x = y
    BY <2>4, <2>9, StoresEqual
  <2>11. Through(r, ops) = x
    BY ThroughOne DEF x
  <2> QED
    BY <2>1, <2>2, <2>10, <2>11 DEF r, y, Whole
<1>6. ~Acknowledges(op) /\ op.op # "ipam_allocate"
  BY DEF Acknowledges, OpCreateJob
<1>7. \A t \in Tasks : IsTerminal(s, t) => IsTerminal(after, t)
  BY <1>3 DEF IsTerminal, Terminal
<1> HIDE DEF after, op
<1>8. \A i \in 1 .. Len(ops) : ops[i] = op
  BY <1>2
<1>9. Journaled(s, after, ops)
  BY <1>1, <1>2, <1>4, <1>5, <1>6, <1>7, <1>8 DEF Journaled
<1> QED
  BY <1>9 DEF after, op

\* register_node journals what it does
LEMMA JoinJournaled ==
    ASSUME NEW s \in Stores, NEW n \in Nodes
    PROVE  Journaled(s, RegisterNode(s, n), <<OpRegisterNode(n)>>)
<1> DEFINE after == RegisterNode(s, n)
           op == OpRegisterNode(n)
           ops == <<op>>
<1>1. after \in Stores /\ op \in Operations /\ after.state = s.state
  BY OperationTypes DEF RegisterNode, Stores
<1>2. ops \in Seq(Operations) /\ Len(ops) = 1 /\ ops[1] = op
  BY <1>1
<1>3. \A r : Through(r, ops) = RegisterNode(r, n)
  BY ThroughOne, ApplyRegisterNode
<1>4. ASSUME NEW r \in Stores, r.state = s.state
      PROVE  Through(r, ops).state = after.state
  BY <1>1, <1>3, <1>4 DEF RegisterNode, Stores
<1>5. ASSUME Whole(s)
      PROVE  Whole(after) /\ Through(Restored(s), ops) = Restored(after)
  <2>1. StoreOK(after)
    BY <1>5, RegisterNodeSound DEF Whole, Sound
  <2>2. Unplaced(after)
    BY <1>5, RegisterNodeShape DEF Whole, Unplaced
  <2>3. RegisterNode(Restored(s), n) = Restored(after)
    BY DEF RegisterNode, Restored, Stores
  <2>4. Through(Restored(s), ops) = Restored(after)
    BY <1>3, <2>3, Zenon
  <2> QED
    BY <2>1, <2>2, <2>4 DEF Whole
<1>6. ~Acknowledges(op) /\ op.op # "ipam_allocate"
  BY DEF Acknowledges, OpRegisterNode
<1>7. \A t \in Tasks : IsTerminal(s, t) => IsTerminal(after, t)
  BY <1>1 DEF IsTerminal
<1> HIDE DEF after, op
<1>8. \A i \in 1 .. Len(ops) : ops[i] = op
  BY <1>2
<1>9. Journaled(s, after, ops)
  BY <1>1, <1>2, <1>4, <1>5, <1>6, <1>7, <1>8 DEF Journaled
<1> QED
  BY <1>9 DEF after, op

\* Two sequences of one operation make one of two
LEMMA OneAndOne ==
    ASSUME NEW X, NEW x \in X, NEW y \in X
    PROVE  <<x>> \o <<y>> = <<x, y>>
<1> DEFINE c == <<x>> \o <<y>>
           d == <<x, y>>
<1>1. c \in Seq(X) /\ d \in Seq(X)
  OBVIOUS
<1>2. Len(c) = 2 /\ Len(d) = 2
  OBVIOUS
<1>3. c[1] = x /\ c[2] = y
  OBVIOUS
<1>4. d[1] = x /\ d[2] = y
  OBVIOUS
<1> HIDE DEF c, d
<1>5. c = [i \in 1 .. 2 |-> c[i]] /\ d = [i \in 1 .. 2 |-> d[i]]
  BY <1>1, <1>2
<1>6. \A i \in 1 .. 2 : c[i] = d[i]
  BY <1>3, <1>4
<1>7. c = d
  BY <1>5, <1>6
<1> QED
  BY <1>7 DEF c, d

\* A release, if there is one to journal, and then op
LEMMA ReleaseFirst ==
    ASSUME NEW s \in Stores, NEW t \in Tasks, NEW op \in Operations
    PROVE  \/ ReleaseOps(s, t) \o <<op>> = <<op>> /\ s.ipam.ip[t] = None
           \/ ReleaseOps(s, t) \o <<op>> = <<OpIpamRelease(t), op>>
<1>1. OpIpamRelease(t) \in Operations
  BY OperationTypes
<1>2. <<>> \o <<op>> = <<op>>
  OBVIOUS
<1>3. \A x, y \in Operations : <<x>> \o <<y>> = <<x, y>>
  BY OneAndOne
<1> QED
  BY <1>1, <1>2, <1>3 DEF ReleaseOps

\* Two operations that are a release and a last one
LEMMA TwoOps ==
    ASSUME NEW s \in Stores, NEW after \in Stores,
           NEW first \in Operations, NEW op \in Operations, OfIpam(first),
           \A r \in Stores : r.state = s.state =>
               ApplyOne(ApplyOne(r, first), op).state = after.state,
           Whole(s) => /\ Whole(after)
                       /\ ApplyOne(ApplyOne(Restored(s), first), op) = Restored(after),
           Acknowledges(op) => IsTerminal(after, op.task),
           \A t \in Tasks : IsTerminal(s, t) => IsTerminal(after, t),
           op.op # "ipam_allocate", Whole(s) => ~Disagrees(Restored(s), first)
    PROVE  Journaled(s, after, <<first, op>>)
<1> DEFINE ops == <<first, op>>
<1>1. /\ ops \in Seq(Operations) /\ Len(ops) = 2 /\ ops[1] = first /\ ops[2] = op
  OBVIOUS
<1>2. \A r : Through(r, ops) = ApplyOne(ApplyOne(r, first), op)
  BY ThroughTwo
<1> HIDE DEF ops
<1>3. ~Acknowledges(first)
  BY DEF Acknowledges, OfIpam
<1>4. \A i \in 1 .. Len(ops) : (ops[i] = first /\ i = 1) \/ ops[i] = op
  BY <1>1
<1>5. Journaled(s, after, ops)
  BY <1>1, <1>2, <1>3, <1>4 DEF Journaled
<1> QED
  BY <1>5 DEF ops

\* One operation that does what the mutation did
LEMMA OneOp ==
    ASSUME NEW s \in Stores, NEW after \in Stores, NEW op \in Operations,
           \A r \in Stores : r.state = s.state => ApplyOne(r, op).state = after.state,
           Whole(s) => Whole(after) /\ ApplyOne(Restored(s), op) = Restored(after),
           Acknowledges(op) => IsTerminal(after, op.task),
           \A t \in Tasks : IsTerminal(s, t) => IsTerminal(after, t),
           op.op # "ipam_allocate"
    PROVE  Journaled(s, after, <<op>>)
<1> DEFINE ops == <<op>>
<1>1. /\ ops \in Seq(Operations) /\ Len(ops) = 1 /\ ops[1] = op
  OBVIOUS
<1>2. \A r : Through(r, ops) = ApplyOne(r, op)
  BY ThroughOne
<1> HIDE DEF ops
<1>4. \A i \in 1 .. Len(ops) : ops[i] = op
  BY <1>1
<1>5. Journaled(s, after, ops)
  BY <1>1, <1>2, <1>4 DEF Journaled
<1> QED
  BY <1>5 DEF ops

\* set_task_state journals what it does, the release of the address first
LEMMA ReportJournaled ==
    ASSUME NEW s \in Stores, NEW t \in Tasks, NEW st \in {"running"} \cup Terminal,
           ~Refused(s, t)
    PROVE  Journaled(s, SetTaskState(s, t, st), SetTaskStateOps(s, t, st))
<1> DEFINE after == SetTaskState(s, t, st)
           op == OpSetTaskState(t, st)
           rel == OpIpamRelease(t)
<1>1. st \in TaskStates
  BY DEF TaskStates, Live, Terminal
<1>2. after \in Stores /\ op \in Operations /\ rel \in Operations /\ OfIpam(rel)
  BY <1>1, SetTaskStateType, OperationTypes DEF OfIpam, OpIpamRelease
<1>3. \A u \in Tasks : after.state[u] = IF u = t THEN st ELSE s.state[u]
  BY SetTaskStateShape
<1>4. \A r : ApplyOne(r, op) = SetTaskState(r, t, st)
  BY ApplySetTaskState
<1>5. ASSUME NEW r \in Stores, r.state = s.state
      PROVE  SetTaskState(r, t, st).state = after.state
  <2>1. SetTaskState(r, t, st) \in Stores
    BY <1>1, SetTaskStateType
  <2>2. Refused(r, t) <=> Refused(s, t)
    BY <1>5 DEF Refused, IsTerminal
  <2>3. \A u \in Tasks : SetTaskState(r, t, st).state[u] = IF u = t THEN st ELSE r.state[u]
    BY <2>2, SetTaskStateShape
  <2> HIDE DEF after
  <2> QED
    BY <1>2, <1>3, <1>5, <2>1, <2>3, StatesEqual
<1>6. Whole(s) => Whole(after)
  <2> SUFFICES ASSUME Whole(s) PROVE Whole(after)
    OBVIOUS
  <2>1. StoreOK(after)
    BY SetTaskStateSound DEF Whole, Sound
  <2>2. after.node = s.node /\ after.nodes = s.nodes
    BY SetTaskStateShape
  <2>3. Unplaced(after)
    <3> HIDE DEF after
    <3> QED
      BY <1>3, <2>2 DEF Whole, Unplaced, Terminal
  <2> QED
    BY <2>1, <2>3 DEF Whole
<1>7. IsTerminal(after, t) <=> st \in Terminal
  BY <1>3 DEF IsTerminal
<1>8. /\ Acknowledges(op) => IsTerminal(after, op.task)
      /\ op.op # "ipam_allocate" /\ ~Disagrees(Restored(s), rel)
  BY <1>7 DEF Acknowledges, OpSetTaskState, OpIpamRelease, Disagrees
<1>9. \A u \in Tasks : IsTerminal(s, u) => IsTerminal(after, u)
  BY <1>3 DEF IsTerminal, Refused
<1>10. SetTaskState(Restored(s), t, st) = Restored(after)
  BY <1>1, SetTaskStateRestored
<1>11. Journaled(s, after, <<op>>)
  <2> HIDE DEF after, op
  <2>1. \A r \in Stores : r.state = s.state => ApplyOne(r, op).state = after.state
    BY <1>4, <1>5, Zenon
  <2>2. ApplyOne(Restored(s), op) = Restored(after)
    BY <1>4, <1>10, Zenon
  <2> QED
    BY <1>2, <1>6, <1>8, <1>9, <2>1, <2>2, OneOp
<1>12. ASSUME st \in Terminal
       PROVE  Journaled(s, after, <<rel, op>>)
  <2>1. \A r : ApplyOne(r, rel) = [r EXCEPT !.ipam = Release(r.ipam, t)]
    BY ApplyIpamRelease
  <2>2. ASSUME NEW r \in Stores, r.state = s.state
        PROVE  ApplyOne(ApplyOne(r, rel), op).state = after.state
    <3>1. ApplyOne(r, rel) \in Stores
      BY <1>2, ApplyOneType
    <3>2. ApplyOne(r, rel).state = s.state
      BY <2>1, <2>2 DEF Stores
    <3>3. SetTaskState(ApplyOne(r, rel), t, st).state = after.state
      <4> HIDE DEF rel, after
      <4> QED
        BY <1>5, <3>1, <3>2
    <3> QED
      BY <1>4, <3>3, Zenon
  <2>3. ApplyOne(ApplyOne(Restored(s), rel), op) = Restored(after)
    <3>1. Restored(s).ipam = s.ipam
      BY RestoredType
    <3>2. ApplyOne(Restored(s), rel) = [Restored(s) EXCEPT !.ipam = Release(s.ipam, t)]
      BY <2>1, <3>1
    <3>3. SetTaskState([Restored(s) EXCEPT !.ipam = Release(s.ipam, t)], t, st) = Restored(after)
      BY <1>1, <1>12, SetTaskStateRestored
    <3> QED
      BY <1>4, <3>2, <3>3, Zenon
  <2> HIDE DEF after, op, rel
  <2> QED
    BY <1>2, <1>6, <1>8, <1>9, <2>2, <2>3, TwoOps
<1>13. SetTaskStateOps(s, t, st) =
          (IF st \in Terminal THEN ReleaseOps(s, t) ELSE <<>>) \o <<op>>
  BY DEF SetTaskStateOps
<1>14. <<>> \o <<op>> = <<op>>
  BY <1>2
<1> HIDE DEF after, op, rel
<1>15. CASE st \in Terminal
  <2>1. SetTaskStateOps(s, t, st) = ReleaseOps(s, t) \o <<op>>
    BY <1>13, <1>15
  <2>2. SetTaskStateOps(s, t, st) = <<op>> \/ SetTaskStateOps(s, t, st) = <<rel, op>>
    BY <1>2, <2>1, ReleaseFirst DEF rel
  <2> QED
    BY <1>11, <1>12, <1>15, <2>2 DEF after
<1>16. CASE st \notin Terminal
  BY <1>11, <1>13, <1>14, <1>16 DEF after
<1> QED
  BY <1>15, <1>16

\* requeue_dead_nodes journals what it does, the release of the address first
LEMMA RequeueJournaled ==
    ASSUME NEW s \in Stores, NEW t \in Orphans(s)
    PROVE  Journaled(s, Requeue(s, t), RequeueOps(s, t))
<1> DEFINE after == Requeue(s, t)
           op == OpTaskRequeued(t)
           rel == OpIpamRelease(t)
<1>1. t \in Tasks /\ IsLive(s, t) /\ s.state[t] # "absent" /\ ~IsTerminal(s, t)
  BY DEF Orphans, IsLive, IsTerminal, Live, Terminal
<1>2. after \in Stores /\ op \in Operations /\ rel \in Operations /\ OfIpam(rel)
  BY <1>1, RequeueType, OperationTypes DEF OfIpam, OpIpamRelease
<1>3. \A u \in Tasks : after.state[u] = IF u = t THEN "pending" ELSE s.state[u]
  BY <1>1, RequeueShape
<1>4. \A r : ApplyOne(r, op) =
               IF Known(r, t)
               THEN [r EXCEPT !.state[t] = "pending", !.node[t] = None, !.net[t] = None]
               ELSE r
  BY ApplyTaskRequeued
<1>5. ASSUME NEW r \in Stores, r.state = s.state
      PROVE  ApplyOne(r, op) \in Stores /\ ApplyOne(r, op).state = after.state
  <2>1. ApplyOne(r, op) \in Stores
    BY <1>2, ApplyOneType
  <2>2. Known(r, t)
    BY <1>1, <1>5 DEF Known
  <2>3. ApplyOne(r, op).state = [r.state EXCEPT ![t] = "pending"]
    BY <1>4, <2>2 DEF Stores
  <2>4. \A u \in Tasks : ApplyOne(r, op).state[u] = after.state[u]
    <3> HIDE DEF after, op
    <3> QED
      BY <1>1, <1>3, <1>5, <2>3 DEF Stores
  <2> HIDE DEF after, op
  <2> QED
    BY <1>2, <2>1, <2>4, StatesEqual
<1>6. Whole(s) => Whole(after)
  <2> SUFFICES ASSUME Whole(s) PROVE Whole(after)
    OBVIOUS
  <2>1. StoreOK(after)
    BY <1>1, RequeueSound DEF Whole, Sound
  <2>2. /\ after.nodes = s.nodes
        /\ \A u \in Tasks : after.node[u] = IF u = t THEN None ELSE s.node[u]
    BY <1>1, RequeueShape
  <2>3. Unplaced(after)
    <3> HIDE DEF after
    <3> QED
      BY <1>3, <2>2 DEF Whole, Unplaced
  <2> QED
    BY <2>1, <2>3 DEF Whole
<1>7. ~Acknowledges(op) /\ op.op # "ipam_allocate" /\ ~Disagrees(Restored(s), rel)
  BY DEF Acknowledges, OpTaskRequeued, OpIpamRelease, Disagrees
<1>8. \A u \in Tasks : IsTerminal(s, u) => IsTerminal(after, u)
  BY <1>1, <1>3 DEF IsTerminal
\* What is left of a requeue once the address is released
<1> DEFINE bare(r) == [r EXCEPT !.state[t] = "pending", !.node[t] = None, !.net[t] = None]
<1>9. bare([Restored(s) EXCEPT !.ipam = Release(s.ipam, t)]) = Restored(after)
  BY DEF Requeue, Restored, Stores
<1>10. \A ipam : Known([Restored(s) EXCEPT !.ipam = ipam], t)
  BY <1>1 DEF Known, Restored, Stores
<1>11. s.ipam.ip[t] = None => Restored(s) = [Restored(s) EXCEPT !.ipam = Release(s.ipam, t)]
  <2>1. s.ipam \in Ipams
    BY DEF Stores
  <2>2. s.ipam.ip[t] = None => Release(s.ipam, t) = s.ipam
    BY <1>1, <2>1, ReleaseType
  <2> QED
    BY <2>2, RestoredType DEF Stores
<1>12. s.ipam.ip[t] = None => Journaled(s, after, <<op>>)
  <2> SUFFICES ASSUME s.ipam.ip[t] = None PROVE Journaled(s, after, <<op>>)
    OBVIOUS
  <2>1. ApplyOne(Restored(s), op) = bare(Restored(s))
    BY <1>4, <1>10, <1>11
  <2>2. ApplyOne(Restored(s), op) = Restored(after)
    BY <1>9, <1>11, <2>1
  <2> HIDE DEF after, op, bare
  <2>3. \A r \in Stores : r.state = s.state => ApplyOne(r, op).state = after.state
    BY <1>5
  <2> QED
    BY <1>2, <1>6, <1>7, <1>8, <2>2, <2>3, OneOp
<1>13. Journaled(s, after, <<rel, op>>)
  <2>1. \A r : ApplyOne(r, rel) = [r EXCEPT !.ipam = Release(r.ipam, t)]
    BY ApplyIpamRelease
  <2>2. ASSUME NEW r \in Stores, r.state = s.state
        PROVE  ApplyOne(ApplyOne(r, rel), op).state = after.state
    <3>1. ApplyOne(r, rel) \in Stores
      BY <1>2, ApplyOneType
    <3>2. ApplyOne(r, rel).state = s.state
      BY <2>1, <2>2 DEF Stores
    <3> HIDE DEF rel, op, after
    <3> QED
      BY <1>5, <3>1, <3>2
  <2>3. ApplyOne(ApplyOne(Restored(s), rel), op) = Restored(after)
    <3>1. Restored(s).ipam = s.ipam
      BY RestoredType
    <3> DEFINE r == [Restored(s) EXCEPT !.ipam = Release(s.ipam, t)]
    <3>2. ApplyOne(Restored(s), rel) = r
      BY <2>1, <3>1
    <3>3. Known(r, t)
      BY <1>10
    <3>4. ApplyOne(r, op) = bare(r)
      BY <1>4, <3>3
    <3> HIDE DEF r, bare, op, after
    <3>5. bare(r) = Restored(after)
      BY <1>9 DEF r
    <3> QED
      BY <3>2, <3>4, <3>5
  <2> HIDE DEF after, op, rel
  <2>4. \A r \in Stores : r.state = s.state => ApplyOne(ApplyOne(r, rel), op).state = after.state
    BY <2>2
  <2> QED
    BY <1>2, <1>6, <1>7, <1>8, <2>3, <2>4, TwoOps
<1>14. \/ RequeueOps(s, t) = <<op>> /\ s.ipam.ip[t] = None
       \/ RequeueOps(s, t) = <<rel, op>>
  BY <1>1, <1>2, ReleaseFirst DEF RequeueOps
<1> HIDE DEF after, op, rel
<1> QED
  BY <1>12, <1>13, <1>14 DEF after

\* place_pending leaves the store as it is when it does not place t
LEMMA PlaceJournaled ==
    ASSUME NEW s \in Stores, NEW t \in Tasks, s.state[t] = "pending",
           NEW n \in Nodes, n \in s.alive
    PROVE  Journaled(s, Place(s, t, n), PlaceOps(Place(s, t, n), t, n))
<1> DEFINE after == Place(s, t, n)
           ipam == Allocate(s.ipam, n, t)
           with == [s EXCEPT !.ipam = ipam]
           network == [ip |-> ipam.ip[t], gateway |-> GatewayFor(ipam, n)]
<1>1. after \in Stores /\ ipam \in Ipams /\ with \in Stores
  <2>1. s.ipam \in Ipams
    BY DEF Stores
  <2>2. ipam \in Ipams
    BY <2>1, AllocateType
  <2> HIDE DEF ipam
  <2>3. with \in Stores
    BY <2>2 DEF Stores
  <2> QED
    BY <2>2, <2>3, PlaceType DEF ipam
<1>2. /\ with.state = s.state /\ with.node = s.node /\ with.net = s.net
      /\ with.nodes = s.nodes /\ with.alive = s.alive /\ with.ipam = ipam
  BY DEF Stores
<1>3. Whole(s) => Whole(after)
  <2> SUFFICES ASSUME Whole(s) PROVE Whole(after)
    OBVIOUS
  <2>1. StoreOK(after)
    BY PlaceSound DEF Whole, Sound
  <2>2. Unplaced(after)
    <3>1. /\ after.nodes = s.nodes
          /\ \/ after.state = s.state /\ after.node = s.node
             \/ \A u \in Tasks :
                  /\ after.state[u] = IF u = t THEN "assigned" ELSE s.state[u]
                  /\ after.node[u] = IF u = t THEN n ELSE s.node[u]
      BY PlaceShape
    <3>2. n \in s.nodes
      BY DEF Whole, StoreOK
    <3> HIDE DEF after
    <3> QED
      BY <3>1, <3>2 DEF Whole, Unplaced
  <2> QED
    BY <2>1, <2>2 DEF Whole
<1>4. CASE t \notin Networked
  <2> DEFINE op == OpTaskAssigned(t, n, None)
  <2>1. after = Assign(s, t, n, None)
    BY <1>4 DEF Place
  <2>2. after.state[t] = "assigned" /\ after.net[t] = None
    BY <2>1, AssignSpec
  <2>3. op \in Operations
    BY OperationTypes
  <2>4. PlaceOps(after, t, n) = <<op>>
    <3>1. <<>> \o <<op>> = <<op>>
      BY <2>3
    <3> HIDE DEF op, after
    <3> QED
      BY <2>2, <3>1 DEF PlaceOps, op
  <2>5. \A r : ApplyOne(r, op) = IF Known(r, t) THEN Assign(r, t, n, None) ELSE r
    BY ApplyTaskAssigned
  <2>6. ASSUME NEW r \in Stores, r.state = s.state
        PROVE  ApplyOne(r, op) = Assign(r, t, n, None)
    BY <2>5, <2>6 DEF Known
  <2>7. ASSUME NEW r \in Stores, r.state = s.state
        PROVE  ApplyOne(r, op).state = after.state
    <3>1. Assign(r, t, n, None).state = Assign(s, t, n, None).state
      BY <2>7 DEF Assign, Stores
    <3> QED
      BY <2>1, <2>6, <2>7, <3>1, Zenon
  <2>8. ApplyOne(Restored(s), op) = Restored(after)
    <3>1. Restored(s) \in Stores /\ Restored(s).state = s.state
      BY RestoredType
    <3>2. Assign(Restored(s), t, n, None) = Restored(Assign(s, t, n, None))
      BY AssignRestored
    <3> QED
      BY <2>1, <2>6, <3>1, <3>2, Zenon
  <2>9. ~Acknowledges(op) /\ op.op # "ipam_allocate"
    BY DEF Acknowledges, OpTaskAssigned
  <2>10. \A u \in Tasks : after.state[u] = IF u = t THEN "assigned" ELSE s.state[u]
    BY <2>1, AssignSpec
  <2>11. \A u \in Tasks : IsTerminal(s, u) => IsTerminal(after, u)
    BY <2>10 DEF IsTerminal, Terminal
  <2> HIDE DEF op, after
  <2>12. Journaled(s, after, <<op>>)
    BY <1>1, <1>3, <2>3, <2>7, <2>8, <2>9, <2>11, OneOp
  <2> QED
    BY <2>4, <2>12 DEF after
<1>5. CASE t \in Networked /\ ipam.ip[t] # None /\ GatewayFor(ipam, n) # None
  <2> DEFINE first == OpIpamAllocate(n, t, ipam.ip[t])
             op == OpTaskAssigned(t, n, network)
  <2>1. ipam.ip[t] \in Addresses /\ network \in Networks
    BY <1>1, <1>5 DEF Ipams, Networks, GatewayFor
  <2> HIDE DEF network
  <2>2. after = Assign(with, t, n, network)
    BY <1>5 DEF Place, network
  <2> HIDE DEF ipam, with
  <2>3. /\ after.net[t] = network
        /\ \A u \in Tasks : after.state[u] = IF u = t THEN "assigned" ELSE s.state[u]
    BY <1>1, <1>2, <2>1, <2>2, AssignSpec
  <2>4. first \in Operations /\ op \in Operations /\ OfIpam(first)
    BY <2>1, OperationTypes DEF OfIpam, OpIpamAllocate
  <2>5. PlaceOps(after, t, n) = <<first, op>>
    <3>1. network # None /\ network.ip = ipam.ip[t]
      BY <2>1, NoNetworkAssumption DEF network
    <3>2. \A x, y \in Operations : <<x>> \o <<y>> = <<x, y>>
      BY OneAndOne
    <3>3. PlaceOps(after, t, n) = <<first>> \o <<op>>
      <4> HIDE DEF after
      <4> QED
        BY <2>3, <3>1 DEF PlaceOps
    <3> HIDE DEF first, op, after
    <3> QED
      BY <2>4, <3>2, <3>3
  <2>6. \A r : ApplyOne(r, first) = [r EXCEPT !.ipam = Allocate(r.ipam, n, t)]
    BY ApplyIpamAllocate
  <2>7. \A r : ApplyOne(r, op) = IF Known(r, t) THEN Assign(r, t, n, network) ELSE r
    BY ApplyTaskAssigned
  <2>8. ASSUME NEW r \in Stores, r.state = s.state
        PROVE  ApplyOne(ApplyOne(r, first), op).state = after.state
    <3> DEFINE x == ApplyOne(r, first)
    <3>1. x \in Stores
      BY <2>4, ApplyOneType
    <3>2. x.state = s.state
      <4>1. \A i : [r EXCEPT !.ipam = i].state = r.state
        BY DEF Stores
      <4>2. x = [r EXCEPT !.ipam = Allocate(r.ipam, n, t)]
        BY <2>6
      <4> HIDE DEF x
      <4> QED
        BY <2>8, <4>1, <4>2
    <3> HIDE DEF x
    <3>3. ApplyOne(x, op) = Assign(x, t, n, network)
      BY <2>7, <3>2 DEF Known
    <3>4. Assign(x, t, n, network).state = Assign(with, t, n, network).state
      BY <1>1, <1>2, <3>1, <3>2 DEF Assign, Stores
    <3> QED
      BY <2>2, <3>3, <3>4, Zenon DEF x
  <2>9. ApplyOne(ApplyOne(Restored(s), first), op) = Restored(after)
    <3>1. ApplyOne(Restored(s), first) = Restored(with)
      <4>1. Restored(s).ipam = s.ipam
        BY RestoredType
      <4>2. ApplyOne(Restored(s), first) = [Restored(s) EXCEPT !.ipam = ipam]
        BY <2>6, <4>1 DEF ipam
      <4>3. [Restored(s) EXCEPT !.ipam = ipam] = Restored(with)
        BY DEF Restored, Stores, with
      <4> QED
        BY <4>2, <4>3
    <3>2. Restored(with).state = s.state
      BY <1>1, <1>2, RestoredType
    <3>3. ApplyOne(Restored(with), op) = Assign(Restored(with), t, n, network)
      BY <2>7, <3>2 DEF Known
    <3>4. Assign(Restored(with), t, n, network) = Restored(Assign(with, t, n, network))
      BY <1>1, <2>1, AssignRestored
    <3> QED
      BY <2>2, <3>1, <3>3, <3>4, Zenon
  <2>10. ~Acknowledges(op) /\ op.op # "ipam_allocate"
    BY DEF Acknowledges, OpTaskAssigned
  <2>11. \A u \in Tasks : IsTerminal(s, u) => IsTerminal(after, u)
    BY <2>3 DEF IsTerminal, Terminal
  <2>12. ~Disagrees(Restored(s), first)
    <3>1. Restored(s).ipam = s.ipam /\ Restored(s) \in Stores
      BY RestoredType
    <3>2. ApplyOne(Restored(s), first) = [Restored(s) EXCEPT !.ipam = ipam]
      BY <2>6, <3>1 DEF ipam
    <3>3. ApplyOne(Restored(s), first).ipam = ipam
      BY <3>1, <3>2 DEF Stores
    <3>4. first.task = t /\ first.ip = ipam.ip[t]
      BY DEF OpIpamAllocate
    <3> HIDE DEF first
    <3> QED
      BY <3>3, <3>4 DEF Disagrees
  <2> HIDE DEF op, first, after
  <2>13. Journaled(s, after, <<first, op>>)
    BY <1>1, <1>3, <2>4, <2>8, <2>9, <2>10, <2>11, <2>12, TwoOps
  <2> QED
    BY <2>5, <2>13 DEF after
<1>6. CASE t \in Networked /\ (ipam.ip[t] = None \/ GatewayFor(ipam, n) = None)
  <2>1. after = with \/ after = [with EXCEPT !.ipam = Release(ipam, t)]
    BY <1>6 DEF Place
  <2>2. after.state = s.state
    <3> HIDE DEF after, ipam
    <3> QED
      BY <1>2, <2>1 DEF Stores
  <2>3. PlaceOps(after, t, n) = <<>>
    <3> HIDE DEF after
    <3> QED
      BY <2>2 DEF PlaceOps
  <2>4. Whole(s) => after = s
    <3> SUFFICES ASSUME Whole(s) PROVE after = s
      OBVIOUS
    <3>1. /\ s.ipam \in Ipams /\ OctetsDistinct(s.ipam) /\ HeldDistinct(s.ipam)
          /\ s.ipam.ip[t] = None
      BY DEF Whole, StoreOK, Stores, Accounted, Addressed, IsLive, Live
    <3>2. ipam.ip[t] # None => GatewayFor(ipam, n) # None
      <4>1. ipam.ip[t] # None => ipam.subnet[n] # None
        BY <3>1, AllocateSpec
      <4> HIDE DEF ipam
      <4>2. ipam.subnet[n] # None => GatewayFor(ipam, n) # None
        BY <1>1, OctetAssumption, NoneAssumption DEF GatewayFor, Ipams, Octets
      <4> QED
        BY <4>1, <4>2
    <3>3. ipam.ip[t] = None
      BY <1>6, <3>2
    <3>4. ipam = s.ipam
      BY <3>1, <3>3, AllocateAllOrNothing DEF Whole
    <3>5. after = with
      BY <1>6, <3>3 DEF Place
    <3> HIDE DEF after, ipam
    <3> QED
      BY <3>4, <3>5 DEF Stores
  <2>5. <<>> \in Seq(Operations) /\ Len(<<>>) = 0 /\ 1 .. Len(<<>>) = {}
    OBVIOUS
  <2>6. \A u \in Tasks : IsTerminal(s, u) => IsTerminal(after, u)
    BY <2>2 DEF IsTerminal
  <2>7. \A r : Through(r, <<>>) = r
    BY ThroughNone
  <2> HIDE DEF after
  <2>8. Journaled(s, after, <<>>)
    BY <1>1, <1>3, <2>2, <2>4, <2>5, <2>6, <2>7 DEF Journaled
  <2> QED
    BY <2>3, <2>8 DEF after
<1> QED
  BY <1>4, <1>5, <1>6

-----------------------------------------------------------------------------
(* Sequences of operations *)

\* The next operation is the first of those that are left
LEMMA AppendAhead ==
    ASSUME NEW ops \in Seq(Operations), NEW more \in Seq(Operations), more # <<>>
    PROVE  /\ Head(more) \in Operations /\ Tail(more) \in Seq(Operations)
           /\ Len(more) >= 1 /\ Len(Tail(more)) = Len(more) - 1 /\ Head(more) = more[1]
           /\ \A i \in 1 .. Len(Tail(more)) : Tail(more)[i] = more[i + 1]
           /\ Append(ops, Head(more)) \in Seq(Operations)
           /\ Append(ops, Head(more)) \o Tail(more) = ops \o more
<1>1. /\ Head(more) \in Operations /\ Tail(more) \in Seq(Operations)
      /\ Len(more) >= 1 /\ Len(Tail(more)) = Len(more) - 1 /\ Head(more) = more[1]
      /\ \A i \in 1 .. Len(Tail(more)) : Tail(more)[i] = more[i + 1]
  OBVIOUS
<1> DEFINE h == Head(more)
           tl == Tail(more)
<1>2. <<h>> \in Seq(Operations) /\ Append(ops, h) \in Seq(Operations)
  BY <1>1
<1>3. Len(<<h>>) = 1 /\ <<h>>[1] = h
  OBVIOUS
<1> HIDE DEF h, tl
<1>4. <<h>> \o tl = more
  <2>1. <<h>> \o tl \in Seq(Operations) /\ Len(<<h>> \o tl) = 1 + Len(tl)
    BY <1>1, <1>2, <1>3, ConcatProperties DEF h, tl
  <2>2. ASSUME NEW i \in 1 .. 1 + Len(tl)
        PROVE  (<<h>> \o tl)[i] = more[i]
    <3>1. (<<h>> \o tl)[i] = IF i =< 1 THEN <<h>>[i] ELSE tl[i - 1]
      BY <1>1, <1>2, <1>3, ConcatProperties DEF h, tl
    <3>2. CASE i = 1
      BY <1>1, <1>3, <3>1, <3>2 DEF h
    <3>3. CASE i # 1
      <4>1. i - 1 \in 1 .. Len(tl) /\ (i - 1) + 1 = i /\ ~(i =< 1)
        BY <1>1, <3>3 DEF tl
      <4>2. tl[i - 1] = more[(i - 1) + 1]
        BY <1>1, <4>1 DEF tl
      <4> QED
        BY <3>1, <4>1, <4>2
    <3> QED
      BY <3>2, <3>3
  <2>3. Len(more) = 1 + Len(tl)
    BY <1>1 DEF tl
  <2> QED
    BY <2>1, <2>2, <2>3, SeqEqual
<1>5. Append(ops, h) = ops \o <<h>>
  BY <1>1, AppendIsConcat DEF h
<1>6. (ops \o <<h>>) \o tl = ops \o (<<h>> \o tl)
  BY <1>1, <1>2, ConcatAssociative DEF tl
<1>7. Append(ops, h) \o tl = ops \o more
  BY <1>4, <1>5, <1>6
<1> QED
  BY <1>1, <1>2, <1>7 DEF h, tl

\* Replay with the next operation appended
LEMMA ReplayAhead ==
    ASSUME NEW base, NEW ops \in Seq(Operations),
           NEW more \in Seq(Operations), more # <<>>
    PROVE  Replay(base, Append(ops, Head(more))) = ApplyOne(Replay(base, ops), Head(more))
<1>1. Head(more) \in Operations
  OBVIOUS
<1> QED
  BY <1>1, ReplayOneMore

\* A mutation's operations, one after the other
LEMMA ReplayThrough ==
    ASSUME NEW base, NEW ops \in Seq(Operations),
           NEW more \in Seq(Operations), Len(more) =< 2
    PROVE  Replay(base, ops \o more) = Through(Replay(base, ops), more)
<1>0. \A q \in Seq(Operations) : Len(q) \in Nat /\ (Len(q) = 0 <=> q = <<>>)
  BY EmptySeq
<1>1. Len(more) \in Nat /\ (Len(more) = 0 <=> more = <<>>)
  BY <1>0
<1>2. CASE Len(more) = 0
  <2>1. ops \o more = ops
    BY <1>1, <1>2, ConcatEmptySeq
  <2> QED
    BY <1>2, <2>1 DEF Through
<1>3. CASE Len(more) # 0
  <2> DEFINE x == Head(more)
             rest == Tail(more)
             a == Append(ops, x)
             r == Replay(base, ops)
  <2>1. /\ x \in Operations /\ rest \in Seq(Operations) /\ a \in Seq(Operations)
        /\ x = more[1] /\ Len(rest) = Len(more) - 1
        /\ \A i \in 1 .. Len(rest) : rest[i] = more[i + 1]
        /\ a \o rest = ops \o more
    BY <1>1, <1>3, AppendAhead
  <2>2. Replay(base, a) = ApplyOne(r, x)
    BY <1>1, <1>3, ReplayAhead
  <2> HIDE DEF x, rest, a, r
  <2>3. CASE Len(more) = 1
    <3>1. rest = <<>>
      BY <1>0, <2>1, <2>3
    <3>2. a \o <<>> = a
      BY <2>1, ConcatEmptySeq
    <3>3. Replay(base, ops \o more) = ApplyOne(r, more[1])
      BY <2>1, <2>2, <3>1, <3>2
    <3> QED
      BY <2>3, <3>3 DEF Through, r
  <2>4. CASE Len(more) = 2
    <3>1. Len(rest) = 1 /\ rest # <<>> /\ rest[1] = more[2]
      <4>1. Len(rest) = 1 /\ 1 \in 1 .. Len(rest)
        BY <2>1, <2>4
      <4>2. rest[1] = more[1 + 1]
        BY <2>1, <4>1
      <4>3. rest # <<>>
        BY <1>0, <2>1, <4>1
      <4>4. more[1 + 1] = more[2]
        OBVIOUS
      <4> QED
        BY <4>1, <4>2, <4>3, <4>4
    <3> DEFINE y == Head(rest)
               b == Append(a, y)
    <3>2. /\ y = more[2] /\ b \in Seq(Operations) /\ Tail(rest) \in Seq(Operations)
          /\ Len(Tail(rest)) = 0 /\ b \o Tail(rest) = a \o rest
      BY <2>1, <3>1, AppendAhead
    <3>3. Replay(base, b) = ApplyOne(Replay(base, a), y)
      BY <2>1, <3>1, ReplayAhead
    <3> HIDE DEF y, b
    <3>4. Tail(rest) = <<>> /\ b \o <<>> = b
      BY <1>0, <3>2, ConcatEmptySeq
    <3>5. Replay(base, ops \o more) = ApplyOne(ApplyOne(r, more[1]), more[2])
      BY <2>1, <2>2, <3>2, <3>3, <3>4
    <3> QED
      BY <2>4, <3>5 DEF Through, r
  <2>5. \A k \in Nat : k =< 2 /\ k # 0 => k = 1 \/ k = 2
    OBVIOUS
  <2>6. Len(more) = 1 \/ Len(more) = 2
    BY <1>1, <1>3, <2>5
  <2> QED
    BY <2>3, <2>4, <2>6
<1> QED
  BY <1>1, <1>2, <1>3

-----------------------------------------------------------------------------
(* The assertion of apply_one *)

\* What is replayed before an operation does not depend on what comes after it
LEMMA SamePrefix ==
    ASSUME NEW X, NEW ops \in Seq(X), NEW more \in Seq(X), Len(ops) =< Len(more),
           \A j \in 1 .. Len(ops) : more[j] = ops[j],
           NEW k \in 0 .. Len(ops)
    PROVE  SubSeq(more, 1, k) = SubSeq(ops, 1, k)
<1> DEFINE a == SubSeq(ops, 1, k)
           b == SubSeq(more, 1, k)
<1>1. /\ Len(ops) \in Nat /\ Len(more) \in Nat
      /\ \A j \in 1 .. k : ops[j] \in X /\ more[j] \in X /\ more[j] = ops[j]
  OBVIOUS
<1>2. a \in Seq(X) /\ Len(a) = k /\ \A j \in 1 .. k : a[j] = ops[j]
  <2>1. /\ a \in Seq(X) /\ Len(a) = IF 1 <= k THEN k - 1 + 1 ELSE 0
        /\ \A j \in 1 .. (k - 1) + 1 : a[j] = ops[1 + j - 1]
    BY <1>1, SubSeqProperties
  <2> HIDE DEF a
  <2> QED
    BY <2>1
<1>3. b \in Seq(X) /\ Len(b) = k /\ \A j \in 1 .. k : b[j] = more[j]
  <2>1. /\ b \in Seq(X) /\ Len(b) = IF 1 <= k THEN k - 1 + 1 ELSE 0
        /\ \A j \in 1 .. (k - 1) + 1 : b[j] = more[1 + j - 1]
    BY <1>1, SubSeqProperties
  <2> HIDE DEF b
  <2> QED
    BY <2>1
<1> HIDE DEF a, b
<1>4. b = a
  BY <1>1, <1>2, <1>3, SeqEqual
<1> QED
  BY <1>4 DEF a, b

\* Nothing disagrees with an empty journal
LEMMA AgreesNothing ==
    ASSUME NEW base
    PROVE  Agrees(base, <<>>)
  BY DEF Agrees

\* What is replayed without a failed assertion is so up to any operation
LEMMA AgreesBefore ==
    ASSUME NEW base, NEW X, NEW ops \in Seq(X), NEW more \in Seq(X),
           Len(ops) =< Len(more), \A j \in 1 .. Len(ops) : more[j] = ops[j],
           Agrees(base, more)
    PROVE  Agrees(base, ops)
<1> SUFFICES ASSUME NEW i \in 1 .. Len(ops)
             PROVE  ~Disagrees(Replay(base, SubSeq(ops, 1, i - 1)), ops[i])
  BY DEF Agrees
<1>1. i \in 1 .. Len(more) /\ i - 1 \in 0 .. Len(ops) /\ more[i] = ops[i]
  OBVIOUS
<1>2. SubSeq(more, 1, i - 1) = SubSeq(ops, 1, i - 1)
  BY <1>1, SamePrefix
<1>3. ~Disagrees(Replay(base, SubSeq(more, 1, i - 1)), more[i])
  BY <1>1 DEF Agrees
<1> QED
  BY <1>1, <1>2, <1>3

\* An operation is compared with what was replayed before it
LEMMA AgreesOneMore ==
    ASSUME NEW base, NEW X, NEW ops \in Seq(X), NEW op \in X,
           Agrees(base, ops), ~Disagrees(Replay(base, ops), op)
    PROVE  Agrees(base, Append(ops, op))
<1> DEFINE more == Append(ops, op)
           n == Len(ops)
<1>1. /\ more \in Seq(X) /\ n \in Nat /\ Len(more) = n + 1 /\ more[n + 1] = op
      /\ \A j \in 1 .. n : more[j] = ops[j]
  OBVIOUS
<1> HIDE DEF more
<1>2. \A k \in 0 .. n : SubSeq(more, 1, k) = SubSeq(ops, 1, k)
  BY <1>1, SamePrefix
<1>3. ASSUME NEW i \in 1 .. n + 1
      PROVE  ~Disagrees(Replay(base, SubSeq(more, 1, i - 1)), more[i])
  <2>1. i - 1 \in 0 .. n /\ SubSeq(more, 1, i - 1) = SubSeq(ops, 1, i - 1)
    BY <1>1, <1>2
  <2>2. CASE i = n + 1
    <3>1. SubSeq(more, 1, i - 1) = ops
      BY <1>1, <2>1, <2>2, SubSeqFull
    <3> QED
      BY <1>1, <2>2, <3>1
  <2>3. CASE i # n + 1
    <3>1. i \in DOMAIN ops /\ more[i] = ops[i]
      BY <1>1, <2>3
    <3> QED
      BY <2>1, <3>1 DEF Agrees
  <2> QED
    BY <2>2, <2>3
<1>4. DOMAIN more = 1 .. n + 1
  BY <1>1
<1>5. Agrees(base, more)
  BY <1>3, <1>4 DEF Agrees
<1> QED
  BY <1>5 DEF more

\* A mutation whose first operation only is an allocation, and agrees
LEMMA AgreesThrough ==
    ASSUME NEW base, NEW ops \in Seq(Operations),
           NEW more \in Seq(Operations), Len(more) =< 2, Agrees(base, ops),
           \A i \in 1 .. Len(more) : more[i].op = "ipam_allocate" =>
               i = 1 /\ ~Disagrees(Replay(base, ops), more[1])
    PROVE  Agrees(base, ops \o more)
<1>0. \A q \in Seq(Operations) : Len(q) \in Nat /\ (Len(q) = 0 <=> q = <<>>)
  BY EmptySeq
<1>1. CASE more = <<>>
  BY <1>1, ConcatEmptySeq
<1>2. CASE more # <<>>
  <2> DEFINE x == Head(more)
             rest == Tail(more)
             a == Append(ops, x)
  <2>1. /\ x \in Operations /\ rest \in Seq(Operations) /\ a \in Seq(Operations)
        /\ Len(more) >= 1 /\ x = more[1] /\ Len(rest) = Len(more) - 1
        /\ \A i \in 1 .. Len(rest) : rest[i] = more[i + 1]
        /\ a \o rest = ops \o more
    BY <1>2, AppendAhead
  <2>2. ~Disagrees(Replay(base, ops), x)
    <3>1. 1 \in 1 .. Len(more)
      BY <1>0, <2>1
    <3> HIDE DEF x
    <3> QED
      BY <2>1, <3>1 DEF Disagrees
  <2>3. Agrees(base, a)
    <3> HIDE DEF x
    <3> QED
      BY <2>1, <2>2, AgreesOneMore
  <2> HIDE DEF x, rest, a
  <2>4. CASE rest = <<>>
    BY <2>1, <2>3, <2>4, ConcatEmptySeq
  <2>5. CASE rest # <<>>
    <3> DEFINE y == Head(rest)
               b == Append(a, y)
    <3>1. /\ y \in Operations /\ y = rest[1] /\ b \in Seq(Operations)
          /\ Tail(rest) \in Seq(Operations) /\ Len(rest) >= 1
          /\ Len(Tail(rest)) = Len(rest) - 1 /\ b \o Tail(rest) = a \o rest
      BY <2>1, <2>5, AppendAhead
    <3>2. Len(rest) = 1 /\ Len(more) = 2
      BY <1>0, <2>1, <3>1
    <3>3. y = more[2] /\ 2 \in 1 .. Len(more)
      <4>1. 1 \in 1 .. Len(rest) /\ 1 + 1 = 2
        BY <3>2
      <4> HIDE DEF y
      <4> QED
        BY <2>1, <3>1, <3>2, <4>1
    <3>4. y.op # "ipam_allocate"
      <4> HIDE DEF y
      <4>1. more[2].op = "ipam_allocate" => 2 = 1
        BY <3>3
      <4> QED
        BY <3>3, <4>1
    <3>5. Agrees(base, b)
      <4>1. ~Disagrees(Replay(base, a), y)
        BY <3>4 DEF Disagrees
      <4> HIDE DEF y
      <4> QED
        BY <2>1, <2>3, <3>1, <4>1, AgreesOneMore
    <3> HIDE DEF y, b
    <3>6. b \o Tail(rest) = b
      <4>1. Len(Tail(rest)) = 0
        BY <3>1, <3>2
      <4>2. Tail(rest) = <<>>
        BY <1>0, <3>1, <4>1
      <4> QED
        BY <3>1, <4>2, ConcatEmptySeq
    <3> QED
      BY <2>1, <3>1, <3>5, <3>6
  <2> QED
    BY <2>4, <2>5
<1> QED
  BY <1>1, <1>2

-----------------------------------------------------------------------------
(* journal.jsonl *)

\* A file with another tail
LEMMA FileFields ==
    ASSUME NEW f \in Files, NEW tail \in Seq(Operations \cup {Fragment})
    PROVE  LET g == [f EXCEPT !.tail = tail] IN
             g \in Files /\ g.tail = tail /\ g.lines = f.lines
  BY DEF Files

\* A whole file of operations
Clean(f) == f \in Files /\ f.tail = <<>> /\ Readable(f)

\* The lines of a readable file are operations
LEMMA CleanLines ==
    ASSUME NEW f \in Files, Readable(f)
    PROVE  f.lines \in Seq(Operations)
<1>1. f.lines \in Seq(Operations \cup {Fragment})
  BY DEF Files
<1>2. \A i \in 1 .. Len(f.lines) : f.lines[i] \in Operations
  BY <1>1 DEF Readable
<1> QED
  BY <1>1, <1>2

\* journal.rs append leaves a file without a tail
LEMMA AppendedType ==
    ASSUME NEW f \in Files, NEW op \in Operations
    PROVE  /\ Appended(f, op) \in Files /\ Appended(f, op).tail = <<>>
           /\ Line(f, op) \in Operations \cup {Fragment}
           /\ f.tail = <<>> => Appended(f, op).lines = Append(f.lines, op) /\ Line(f, op) = op
  BY DEF Appended, Line, Files

\* journal.rs append on a whole file adds the operation
LEMMA AppendedClean ==
    ASSUME NEW f, Clean(f), NEW op \in Operations
    PROVE  Clean(Appended(f, op)) /\ Appended(f, op).lines = Append(f.lines, op)
<1>1. /\ Appended(f, op) \in Files /\ Appended(f, op).tail = <<>>
      /\ Appended(f, op).lines = Append(f.lines, op)
  BY AppendedType DEF Clean
<1>2. f.lines \in Seq(Operations)
  BY CleanLines DEF Clean
<1>3. Append(f.lines, op) \in Seq(Operations)
  BY <1>2
<1>4. \A i \in DOMAIN Append(f.lines, op) : Append(f.lines, op)[i] \in Operations
  BY <1>3
<1>5. Readable(Appended(f, op))
  BY <1>1, <1>4, NoFragment DEF Readable
<1> QED
  BY <1>1, <1>5 DEF Clean

\* An append that was cut short leaves a file with a tail of at most one piece
LEMMA InterruptedType ==
    ASSUME NEW f \in Files, Len(f.tail) =< 1, NEW op \in Operations, NEW g \in Interrupted(f, op)
    PROVE  g \in Files /\ Len(g.tail) =< 1
<1>1. \A x \in Operations \cup {Fragment} :
         /\ [f EXCEPT !.tail = <<x>>] \in Files /\ [f EXCEPT !.tail = <<x>>].tail = <<x>>
  <2>1. \A x \in Operations \cup {Fragment} : <<x>> \in Seq(Operations \cup {Fragment})
    OBVIOUS
  <2> QED
    BY <2>1, FileFields
<1>2. \A x : Len(<<x>>) = 1
  OBVIOUS
<1>3. Len(<<>>) = 0
  OBVIOUS
<1>4. Line(f, op) \in Operations \cup {Fragment}
  BY AppendedType
<1>5. Appended(f, op) \in Files /\ Appended(f, op).tail = <<>>
  BY AppendedType
<1>6. CASE g = f
  BY <1>6
<1>7. ASSUME NEW x \in Operations \cup {Fragment}, g = [f EXCEPT !.tail = <<x>>]
      PROVE  g \in Files /\ Len(g.tail) =< 1
  <2>1. g \in Files /\ g.tail = <<x>>
    BY <1>1, <1>7
  <2>2. Len(g.tail) = 1
    BY <2>1
  <2> QED
    BY <2>1, <2>2
<1>8. g \in {[f EXCEPT !.tail = <<Fragment>>], [f EXCEPT !.tail = <<Line(f, op)>>]} =>
          g \in Files /\ Len(g.tail) =< 1
  BY <1>4, <1>7
<1>9. CASE g = Appended(f, op)
  BY <1>3, <1>5, <1>9
<1> QED
  BY <1>6, <1>8, <1>9 DEF Interrupted

\* The repair of load_journal_ops leaves a whole file, and a whole file as it is
LEMMA RepairedType ==
    ASSUME NEW f \in Files, Len(f.tail) =< 1
    PROVE  /\ Repaired(f) \in Files /\ Repaired(f).tail = <<>>
           /\ f.tail = <<>> => Repaired(f) = f
           /\ Readable(f) => Clean(Repaired(f))
<1> DEFINE g == [f EXCEPT !.tail = <<>>]
<1>1. g \in Files /\ g.tail = <<>> /\ g.lines = f.lines
  <2>1. <<>> \in Seq(Operations \cup {Fragment})
    OBVIOUS
  <2> QED
    BY <2>1, FileFields
<1>2. f.tail = <<>> => g = f
  BY DEF Files
<1> HIDE DEF g
<1>3. Readable(f) => Clean(g)
  BY <1>1 DEF Clean, Readable
<1>4. CASE f.tail \in {<<>>, <<Fragment>>}
  BY <1>1, <1>2, <1>3, <1>4 DEF Repaired, g
<1>5. CASE f.tail \notin {<<>>, <<Fragment>>}
  <2>1. f.tail \in Seq(Operations \cup {Fragment}) /\ Len(f.tail) = 1
    <3>1. f.tail \in Seq(Operations \cup {Fragment}) /\ f.tail # <<>>
      BY <1>5 DEF Files
    <3>2. Len(f.tail) \in Nat \ {0}
      BY <3>1, EmptySeq
    <3>3. \A k \in Nat \ {0} : k =< 1 => k = 1
      OBVIOUS
    <3>4. Len(f.tail) = 1
      BY <3>2, <3>3
    <3> QED
      BY <3>1, <3>4
  <2>2. f.tail[1] \in Operations
    <3>1. f.tail[1] \in Operations \cup {Fragment}
      BY <2>1
    <3>2. f.tail = <<f.tail[1]>>
      BY <2>1
    <3> QED
      BY <1>5, <3>1, <3>2
  <2>3. Repaired(f) = Appended(g, f.tail[1])
    BY <1>5 DEF Repaired, g
  <2> QED
    BY <1>1, <1>3, <1>5, <2>2, <2>3, AppendedType, AppendedClean
<1> QED
  BY <1>4, <1>5

\* Repaired, an append that was cut short was made, or was not
LEMMA InterruptedRepaired ==
    ASSUME NEW f, Clean(f), NEW op \in Operations, NEW g \in Interrupted(f, op)
    PROVE  /\ g \in Files /\ Len(g.tail) =< 1 /\ Readable(g)
           /\ Repaired(g) = f \/ Repaired(g) = Appended(f, op)
<1>1. f \in Files /\ f.tail = <<>> /\ Len(f.tail) =< 1 /\ Readable(f)
  BY DEF Clean
<1>2. g \in Files /\ Len(g.tail) =< 1
  BY <1>1, InterruptedType
<1>3. Line(f, op) = op /\ op # Fragment
  BY <1>1, NoFragment DEF Line
<1>4. ASSUME NEW x, g = [f EXCEPT !.tail = <<x>>]
      PROVE  g.tail = <<x>> /\ Readable(g) /\ [g EXCEPT !.tail = <<>>] = f
  BY <1>1, <1>4 DEF Files, Readable
<1>5. CASE g = f
  BY <1>1, <1>2, <1>5 , RepairedType
<1>6. CASE g = [f EXCEPT !.tail = <<Fragment>>]
  BY <1>2, <1>4, <1>6 DEF Repaired
<1>7. CASE g = [f EXCEPT !.tail = <<op>>]
  <2>1. g.tail = <<op>> /\ Readable(g) /\ [g EXCEPT !.tail = <<>>] = f
    BY <1>4, <1>7
  <2>2. <<op>> # <<>> /\ <<op>> # <<Fragment>> /\ <<op>>[1] = op
    <3>1. <<op>>[1] = op /\ <<Fragment>>[1] = Fragment /\ <<op>> # <<>>
      OBVIOUS
    <3> QED
      BY <1>3, <3>1
  <2> QED
    BY <1>2, <2>1, <2>2 DEF Repaired
<1>8. CASE g = Appended(f, op)
  <2>1. Clean(g)
    BY <1>8, AppendedClean
  <2> QED
    BY <1>2, <1>8, <2>1, RepairedType DEF Clean
<1> QED
  BY <1>3, <1>5, <1>6, <1>7, <1>8 DEF Interrupted

-----------------------------------------------------------------------------
(* The inductive invariant, step by step *)

\* What the steps below need of TypeOK
LEMMA TypeFacts ==
    ASSUME TypeOK
    PROVE  /\ db \in Stores /\ snap \in Stores /\ file \in Files /\ Len(file.tail) =< 1
           /\ todo \in Seq(Operations) /\ Len(todo) =< 2 /\ acked \subseteq Tasks
           /\ todo # <<>> => mode = "serving"
           /\ clean \in BOOLEAN /\ faults.failures \in Nat
  BY DEF TypeOK

\* truncate_journal leaves a whole file without lines
LEMMA EmptyFileClean == Clean(EmptyFile) /\ EmptyFile.lines = <<>>
<1>1. <<>> \in Seq(Operations \cup {Fragment}) /\ DOMAIN <<>> = {}
  OBVIOUS
<1>2. EmptyFile.lines = <<>> /\ EmptyFile.tail = <<>> /\ EmptyFile \in Files
  BY <1>1 DEF EmptyFile, Files
<1> QED
  BY <1>1, <1>2 DEF Clean, Readable

\* A store that was restored is not changed by being restored again
LEMMA RestoredOnce ==
    ASSUME NEW s \in Stores
    PROVE  /\ Restored(Restored(s)) = Restored(s)
           /\ Whole(s) => Whole(Restored(s))
<1> DEFINE r == Restored(s)
<1>1. /\ r \in Stores /\ r.state = s.state /\ r.node = s.node /\ r.net = s.net
      /\ r.nodes = s.nodes /\ r.alive = s.alive \cup s.nodes /\ r.ipam = s.ipam
  BY RestoredType
<1>2. Restored(r) = r
  BY DEF Restored, Stores
<1> HIDE DEF r
<1>3. Whole(s) => Whole(r)
  <2>1. StoreOK(s) => StoreOK(r)
    BY <1>1 DEF StoreOK, UnplacedBare, Accounted, OnItsNode, Addressed, IsLive
  <2>2. Unplaced(s) => Unplaced(r)
    BY <1>1 DEF Unplaced
  <2> QED
    BY <2>1, <2>2 DEF Whole
<1> QED
  BY <1>2, <1>3 DEF r

\* A server's file needs no repair
LEMMA ServingFile ==
    ASSUME IInv, mode # "down", faults.failures = 0
    PROVE  /\ Clean(file) /\ file.lines \in Seq(Operations)
           /\ Repaired(file) = file /\ OnDisk = Replay(snap, file.lines)
           /\ todo = <<>> => file.lines \o todo = file.lines
<1>1. file \in Files /\ Len(file.tail) =< 1 /\ file.tail = <<>> /\ Readable(file)
  BY TypeFacts DEF IInv, FileOK
<1>2. Repaired(file) = file
  BY <1>1, RepairedType
<1>3. file.lines \in Seq(Operations)
  BY <1>1, CleanLines
<1>4. todo = <<>> => file.lines \o todo = file.lines
  BY <1>3, ConcatEmptySeq
<1> QED
  BY <1>1, <1>2, <1>3, <1>4 DEF Clean, OnDisk

\* What any boot reads is operations
LEMMA DiskTyped ==
    ASSUME IInv, faults.failures = 0
    PROVE  /\ Clean(Repaired(file)) /\ Repaired(file).lines \in Seq(Operations)
           /\ OnDisk \in Stores
<1>1. file \in Files /\ Len(file.tail) =< 1 /\ Readable(file) /\ snap \in Stores
  BY TypeFacts DEF IInv, FileOK
<1>2. Clean(Repaired(file))
  BY <1>1, RepairedType
<1>3. Repaired(file).lines \in Seq(Operations)
  BY <1>2, CleanLines DEF Clean
<1> QED
  BY <1>1, <1>2, <1>3, ReplayType DEF OnDisk

\* A mutation, in memory, with its operations still to be appended
LEMMA MutationStep ==
    ASSUME IInv, Serving, NEW store, NEW ops, Journaled(db, store, ops), Mutate(store, ops),
           UNCHANGED <<mode, clean, file, snap, acked, faults>>
    PROVE  TodoOK' /\ FileOK' /\ ExactOK' /\ AgreeOK' /\ StatesOK'
<1>1. db' = store /\ todo' = ops /\ mode = "serving" /\ todo = <<>>
  BY DEF Mutate, Serving
<1>2. TodoOK'
  BY <1>1 DEF TodoOK, Journaled
<1>3. FileOK'
  BY DEF IInv, FileOK
<1>4. OnDisk' = OnDisk /\ Repaired(file)' = Repaired(file)
  BY DEF OnDisk
<1>5. ASSUME faults.failures = 0
      PROVE  LET r == Replay(snap, file.lines) IN
               /\ r \in Stores /\ r = Replay(snap, file.lines \o todo)
               /\ Replay(snap, file.lines \o ops) = Through(r, ops)
  <2>1. file.lines \in Seq(Operations) /\ file.lines \o todo = file.lines
    BY <1>1, <1>5, ServingFile
  <2>2. ops \in Seq(Operations) /\ Len(ops) =< 2 /\ snap \in Stores
    BY TypeFacts DEF Journaled, IInv
  <2> QED
    BY <2>1, <2>2, ReplayType, ReplayThrough
<1>6. ExactOK'
  <2> SUFFICES ASSUME clean PROVE ExactOK'
    BY DEF ExactOK
  <2>1. /\ faults.failures = 0 /\ Whole(db)
        /\ Replay(snap, file.lines \o todo) = Restored(db)
        /\ EndsInHalf(Repaired(file)) \/ (Whole(OnDisk) /\ Restored(OnDisk) = OnDisk)
    BY <1>1 DEF IInv, ExactOK
  <2>2. Whole(store) /\ Through(Restored(db), ops) = Restored(store)
    BY <2>1 DEF Journaled
  <2>3. Replay(snap, file.lines \o ops) = Restored(store)
    BY <1>5, <2>1, <2>2
  <2>4. Whole(db)' /\ Replay(snap, file.lines \o todo)' = Restored(db)'
    BY <1>1, <2>2, <2>3
  <2> QED
    BY <1>1, <1>4, <2>1, <2>4 DEF ExactOK
<1>7. StatesOK'
  <2> SUFFICES ASSUME faults.failures = 0 PROVE StatesOK'
    BY DEF StatesOK
  <2>1. /\ Replay(snap, file.lines \o todo).state = db.state
        /\ \A t \in acked : IsTerminal(OnDisk, t) /\ IsTerminal(db, t)
    BY <1>1 DEF IInv, StatesOK
  <2>2. Replay(snap, file.lines \o ops).state = store.state
    BY <1>5, <2>1 DEF Journaled
  <2>3. \A t \in acked : IsTerminal(store, t)
    BY <2>1, TypeFacts DEF Journaled, IInv
  <2>4. \A t \in acked : IsTerminal(OnDisk, t)' /\ IsTerminal(db, t)'
    BY <1>1, <1>4, <2>1, <2>3
  <2>5. Replay(snap, file.lines \o todo)' = Replay(snap, file.lines \o ops)
    BY <1>1
  <2> QED
    BY <1>1, <2>2, <2>4, <2>5 DEF StatesOK
<1>8. AgreeOK'
  <2> SUFFICES ASSUME clean PROVE AgreeOK'
    BY DEF AgreeOK
  <2>1. /\ faults.failures = 0 /\ Whole(db)
        /\ Replay(snap, file.lines \o todo) = Restored(db)
    BY <1>1 DEF IInv, ExactOK
  <2>2. /\ file.lines \in Seq(Operations) /\ Repaired(file) = file
        /\ file.lines \o todo = file.lines
    BY <1>1, <2>1, ServingFile
  <2>3. Agrees(snap, file.lines) /\ Replay(snap, file.lines) = Restored(db)
    BY <1>1, <2>1, <2>2 DEF IInv, AgreeOK
  <2>4. Agrees(snap, file.lines \o ops)
    <3>1. /\ ops \in Seq(Operations) /\ Len(ops) =< 2
          /\ \A i \in 1 .. Len(ops) : ops[i].op = "ipam_allocate" =>
                 i = 1 /\ ~Disagrees(Restored(db), ops[1])
      BY <2>1 DEF Journaled
    <3> QED
      BY <2>2, <2>3, <3>1, AgreesThrough
  <2>5. Agrees(snap, Repaired(file).lines \o todo)'
    BY <1>1, <2>2, <2>4
  <2> QED
    BY <1>1, <2>5 DEF AgreeOK
<1> QED
  BY <1>2, <1>3, <1>6, <1>7, <1>8

\* What the next append writes
LEMMA Written ==
    ASSUME IInv, todo # <<>>, faults.failures = 0
    PROVE  LET op == Head(todo)
               f == Appended(file, op)
               d == Replay(snap, f.lines)
           IN  /\ op \in Operations /\ Clean(file) /\ Clean(f)
               /\ f.lines \o Tail(todo) = file.lines \o todo
               /\ clean => EndsInHalf(f) \/ (Whole(d) /\ Restored(d) = d)
               /\ \A t \in acked : IsTerminal(d, t)
               /\ Acknowledges(op) => IsTerminal(d, op.task) /\ IsTerminal(db, op.task)
<1> DEFINE op == Head(todo)
           f == Appended(file, op)
           d == Replay(snap, f.lines)
<1>1. /\ mode = "serving" /\ todo \in Seq(Operations) /\ Len(todo) =< 2 /\ snap \in Stores
      /\ db \in Stores /\ acked \subseteq Tasks
  BY TypeFacts DEF IInv
<1>2. Clean(file) /\ file.lines \in Seq(Operations) /\ OnDisk = Replay(snap, file.lines)
  BY <1>1, ServingFile
<1>3. /\ op \in Operations /\ Tail(todo) \in Seq(Operations)
      /\ Len(todo) >= 1 /\ Len(Tail(todo)) = Len(todo) - 1 /\ op = todo[1]
      /\ Append(file.lines, op) \in Seq(Operations)
      /\ Append(file.lines, op) \o Tail(todo) = file.lines \o todo
  BY <1>1, <1>2, AppendAhead
<1>4. Clean(f) /\ f.lines = Append(file.lines, op)
  BY <1>2, <1>3, AppendedClean
<1>5. d = ApplyOne(OnDisk, op)
  <2> HIDE DEF op, f
  <2>1. Replay(snap, Append(file.lines, op)) = ApplyOne(Replay(snap, file.lines), op)
    BY <1>2, <1>3, ReplayOneMore
  <2> QED
    BY <1>2, <1>4, <2>1
<1>6. d \in Stores /\ OnDisk \in Stores
  BY <1>1, <1>2, <1>3, <1>4, ReplayType
<1>7. /\ clean => Whole(db) /\ Replay(snap, file.lines \o todo) = Restored(db)
      /\ Replay(snap, file.lines \o todo).state = db.state
      /\ \A t \in acked : IsTerminal(OnDisk, t) /\ IsTerminal(db, t)
      /\ Len(todo) = 2 => OfIpam(op)
      /\ Acknowledges(op) => IsTerminal(db, op.task)
  <2>1. clean => Whole(db) /\ Replay(snap, file.lines \o todo) = Restored(db)
    BY <1>1 DEF IInv, ExactOK
  <2>2. /\ Replay(snap, file.lines \o todo).state = db.state
        /\ \A t \in acked : IsTerminal(OnDisk, t) /\ IsTerminal(db, t)
    BY <1>1 DEF IInv, StatesOK
  <2>3. 1 \in 1 .. Len(todo)
    BY <1>1, <1>3
  <2>4. Len(todo) = 2 => OfIpam(op)
    BY <1>3 DEF IInv, TodoOK
  <2>5. Acknowledges(op) => IsTerminal(db, op.task)
    BY <1>3, <2>3 DEF IInv, TodoOK
  <2> QED
    BY <2>1, <2>2, <2>4, <2>5
<1> HIDE DEF op, f, d
<1>8. CASE Len(todo) = 1
  <2>1. Tail(todo) = <<>>
    <3>1. \A q \in Seq(Operations) : Len(q) = 0 => q = <<>>
      BY EmptySeq
    <3>2. Len(Tail(todo)) = 0
      BY <1>3, <1>8
    <3> QED
      BY <1>3, <3>1, <3>2
  <2>2. d = Replay(snap, file.lines \o todo)
    <3>1. Append(file.lines, op) \o <<>> = Append(file.lines, op)
      BY <1>3, ConcatEmptySeq
    <3> QED
      BY <1>3, <1>4, <2>1, <3>1 DEF d
  <2>3. clean => Whole(d) /\ Restored(d) = d
    BY <1>1, <1>7, <2>2, RestoredOnce
  <2>4. \A t : IsTerminal(db, t) => IsTerminal(d, t)
    BY <1>7, <2>2 DEF IsTerminal
  <2> QED
    BY <1>2, <1>3, <1>4, <1>7, <2>3, <2>4 DEF op, f, d
<1>9. CASE Len(todo) # 1
  <2>1. OfIpam(op)
    <3>1. \A k \in Nat : k =< 2 /\ k >= 1 /\ k # 1 => k = 2
      OBVIOUS
    <3> QED
      BY <1>1, <1>3, <1>7, <1>9, <3>1
  <2>2. EndsInHalf(f)
    <3>1. f.lines # <<>> /\ Last(f.lines) = op
      BY <1>2, <1>3, <1>4, AppendProperties DEF Last
    <3> QED
      BY <2>1, <3>1 DEF EndsInHalf
  <2>3. \A t \in Tasks : d.state[t] = OnDisk.state[t]
    <3>1. \A t \in Tasks : d.state[t] = Effect(OnDisk.state[t], op, t)
      BY <1>3, <1>5, <1>6, ApplyOneType
    <3>2. op.op # "create_job" /\ op.op # "set_task_state" /\ op.op # "task_assigned"
             /\ op.op # "task_requeued"
      BY <2>1 DEF OfIpam
    <3>3. \A t \in Tasks : Effect(OnDisk.state[t], op, t) = OnDisk.state[t]
      BY <3>2 DEF Effect
    <3> QED
      BY <3>1, <3>3
  <2>4. ~Acknowledges(op)
    BY <2>1 DEF OfIpam, Acknowledges
  <2>5. \A t \in acked : IsTerminal(d, t)
    BY <1>1, <1>7, <2>3 DEF IsTerminal
  <2> QED
    BY <1>2, <1>3, <1>4, <2>2, <2>4, <2>5 DEF op, f, d
<1> QED
  BY <1>8, <1>9

\* append of the next operation
LEMMA AppendStep ==
    ASSUME IInv, AppendNext
    PROVE  TodoOK' /\ FileOK' /\ ExactOK' /\ AgreeOK' /\ StatesOK'
<1> DEFINE op == Head(todo)
           f == Appended(file, op)
           d == Replay(snap, f.lines)
<1>1. /\ todo # <<>> /\ mode = "serving" /\ file' = f /\ todo' = Tail(todo)
      /\ acked' = IF Acknowledges(op) THEN acked \cup {op.task} ELSE acked
      /\ mode' = mode /\ db' = db /\ clean' = clean /\ snap' = snap /\ faults' = faults
  BY TypeFacts DEF AppendNext, IInv
<1>2. /\ todo \in Seq(Operations) /\ Len(todo) =< 2 /\ file \in Files
      /\ Head(todo) \in Operations /\ Tail(todo) \in Seq(Operations)
      /\ Len(Tail(todo)) = Len(todo) - 1
      /\ \A i \in 1 .. Len(Tail(todo)) : Tail(todo)[i] = todo[i + 1]
  BY <1>1, TypeFacts, HeadTailProperties DEF IInv
<1>3. TodoOK'
  <2>1. Len(Tail(todo)) # 2
    BY <1>2
  <2>2. ASSUME NEW i \in 1 .. Len(Tail(todo)), Acknowledges(Tail(todo)[i])
        PROVE  IsTerminal(db, Tail(todo)[i].task)
    <3>1. i + 1 \in 1 .. Len(todo) /\ Tail(todo)[i] = todo[i + 1]
      BY <1>2
    <3> QED
      BY <2>2, <3>1 DEF IInv, TodoOK
  <2> QED
    BY <1>1, <2>1, <2>2 DEF TodoOK
<1>4. CASE faults.failures # 0
  BY <1>1, <1>3, <1>4 DEF IInv, FileOK, ExactOK, AgreeOK, StatesOK
<1>5. CASE faults.failures = 0
  <2>1. /\ op \in Operations /\ Clean(file) /\ Clean(f)
        /\ f.lines \o Tail(todo) = file.lines \o todo
        /\ clean => EndsInHalf(f) \/ (Whole(d) /\ Restored(d) = d)
        /\ \A t \in acked : IsTerminal(d, t)
        /\ Acknowledges(op) => IsTerminal(d, op.task) /\ IsTerminal(db, op.task)
    BY <1>1, <1>5, Written
  <2> HIDE DEF op, f, d
  <2>2. Repaired(f) = f /\ f.tail = <<>> /\ Readable(f)
    <3>1. Len(<<>>) =< 1
      OBVIOUS
    <3> QED
      BY <2>1, <3>1, RepairedType DEF Clean
  <2>3. OnDisk' = d /\ Repaired(file)' = f
    BY <1>1, <2>2 DEF OnDisk, d
  <2>4. FileOK'
    BY <1>1, <2>2 DEF FileOK
  <2>5. Replay(snap, file.lines \o todo)' = Replay(snap, file.lines \o todo)
    BY <1>1, <2>1
  <2>6. ExactOK'
    BY <1>1, <2>1, <2>3, <2>5 DEF ExactOK, IInv
  <2>7. Replay(snap, file.lines \o todo).state = db.state /\ \A t \in acked : IsTerminal(db, t)
    BY <1>1, <1>5 DEF IInv, StatesOK
  <2>8. \A t \in acked' : IsTerminal(OnDisk, t)' /\ IsTerminal(db, t)'
    BY <1>1, <2>1, <2>3, <2>7
  <2>9. StatesOK'
    BY <1>1, <2>5, <2>7, <2>8 DEF StatesOK
  <2>10. AgreeOK'
    <3>1. (Repaired(file).lines \o todo)' = Repaired(file).lines \o todo
      <4>1. Repaired(file) = file
        BY <1>1, <1>5, ServingFile
      <4> QED
        BY <1>1, <2>1, <2>3, <4>1
    <3> QED
      BY <1>1, <3>1 DEF IInv, AgreeOK
  <2> QED
    BY <1>3, <2>4, <2>6, <2>9, <2>10
<1> QED
  BY <1>4, <1>5

\* An append that fails
LEMMA FailStep ==
    ASSUME IInv, AppendFails
    PROVE  TodoOK' /\ FileOK' /\ ExactOK' /\ AgreeOK' /\ StatesOK'
<1>1. faults'.failures # 0 /\ clean' = FALSE /\ todo' = <<>>
  <2>1. faults \in [lapses : Nat, failures : Nat, kills : Nat, stops : Nat]
    BY DEF IInv, TypeOK
  <2>2. faults' = [faults EXCEPT !.failures = @ + 1]
    BY DEF AppendFails
  <2>3. faults'.failures = faults.failures + 1
    BY <2>1, <2>2
  <2> QED
    BY <2>1, <2>3 DEF AppendFails
<1>2. TodoOK'
  <2>1. Len(<<>>) = 0
    OBVIOUS
  <2> QED
    BY <1>1, <2>1 DEF TodoOK
<1> QED
  BY <1>1, <1>2 DEF FileOK, ExactOK, AgreeOK, StatesOK

\* Whatever a server was doing when it was killed
LEMMA KillStep ==
    ASSUME IInv, Kill
    PROVE  TodoOK' /\ FileOK' /\ ExactOK' /\ AgreeOK' /\ StatesOK'
<1>1. /\ mode \in {"serving", "compacted"} /\ mode' = "down" /\ todo' = <<>>
      /\ file' \in IF todo = <<>> THEN {file} ELSE Interrupted(file, Head(todo))
      /\ clean' = (clean /\ mode # "compacted") /\ snap' = snap /\ acked' = acked
      /\ faults'.failures = faults.failures
  <2>1. faults \in [lapses : Nat, failures : Nat, kills : Nat, stops : Nat]
    BY DEF IInv, TypeOK
  <2>2. faults' = [faults EXCEPT !.kills = @ + 1]
    BY DEF Kill
  <2>3. faults'.failures = faults.failures
    BY <2>1, <2>2
  <2> QED
    BY <2>3 DEF Kill, Gone
<1>2. TodoOK'
  <2>1. Len(<<>>) = 0
    OBVIOUS
  <2> QED
    BY <1>1, <2>1 DEF TodoOK
<1>3. CASE faults.failures # 0
  BY <1>1, <1>2, <1>3 DEF IInv, FileOK, ExactOK, AgreeOK, StatesOK
<1>4. CASE faults.failures = 0
  <2>1. Clean(file) /\ Repaired(file) = file /\ file.lines \in Seq(Operations)
    BY <1>1, <1>4, ServingFile
  <2>2. /\ clean /\ mode # "compacted" =>
             EndsInHalf(Repaired(file)) \/ (Whole(OnDisk) /\ Restored(OnDisk) = OnDisk)
        /\ \A t \in acked : IsTerminal(OnDisk, t)
    BY <1>1, <1>4 DEF IInv, ExactOK, StatesOK
  \* what was on disk is still there, or one operation more
  <2>3. /\ Readable(file')
        /\ clean' => EndsInHalf(Repaired(file'))
                       \/ (Whole(OnDisk') /\ Restored(OnDisk') = OnDisk')
        /\ \A t \in acked : IsTerminal(OnDisk', t)
    <3>1. CASE Repaired(file') = file /\ Readable(file')
      <4>1. OnDisk' = OnDisk
        BY <1>1, <2>1, <3>1 DEF OnDisk
      <4> QED
        BY <1>1, <2>1, <2>2, <3>1, <4>1
    <3>2. CASE todo # <<>> /\ Repaired(file') = Appended(file, Head(todo)) /\ Readable(file')
      <4> DEFINE f == Appended(file, Head(todo))
                 d == Replay(snap, f.lines)
      <4>1. /\ clean => EndsInHalf(f) \/ (Whole(d) /\ Restored(d) = d)
            /\ \A t \in acked : IsTerminal(d, t)
        BY <1>4, <3>2, Written
      <4> HIDE DEF f
      <4>2. OnDisk' = d /\ Repaired(file') = f
        BY <1>1, <3>2 DEF OnDisk, f
      <4> HIDE DEF d
      <4> QED
        BY <1>1, <3>2, <4>1, <4>2
    <3>3. CASE todo = <<>>
      BY <1>1, <2>1, <3>1, <3>3 DEF Clean
    <3>4. CASE todo # <<>>
      <4>1. Head(todo) \in Operations /\ file' \in Interrupted(file, Head(todo))
        BY <1>1, <1>4, <3>4, Written
      <4>2. /\ Readable(file')
            /\ Repaired(file') = file \/ Repaired(file') = Appended(file, Head(todo))
        BY <2>1, <4>1, InterruptedRepaired
      <4> QED
        BY <3>1, <3>2, <3>4, <4>2
    <3> QED
      BY <3>3, <3>4
  <2>4. FileOK'
    BY <1>1, <2>3 DEF FileOK
  <2>5. ExactOK'
    BY <1>1, <1>4, <2>3 DEF ExactOK
  <2>6. StatesOK'
    <3>1. \A t \in acked' : IsTerminal(OnDisk, t)'
      BY <1>1, <2>3
    <3> QED
      BY <1>1, <3>1 DEF StatesOK
  <2>7. AgreeOK'
    <3> SUFFICES ASSUME clean' PROVE Agrees(snap, Repaired(file').lines \o <<>>)
      BY <1>1 DEF AgreeOK
    <3> DEFINE all == file.lines \o todo
               g == Repaired(file')
    <3>1. Agrees(snap, all)
      BY <1>1, <2>1 DEF IInv, AgreeOK
    <3>2. /\ todo \in Seq(Operations) /\ all \in Seq(Operations)
          /\ Len(all) = Len(file.lines) + Len(todo)
          /\ Len(todo) \in Nat /\ Len(file.lines) \in Nat
          /\ \A j \in 1 .. Len(file.lines) : all[j] = file.lines[j]
      <4>1. todo \in Seq(Operations)
        BY TypeFacts DEF IInv
      <4>2. /\ all \in Seq(Operations) /\ Len(all) = Len(file.lines) + Len(todo)
            /\ \A j \in 1 .. Len(file.lines) + Len(todo) :
                  all[j] = IF j =< Len(file.lines) THEN file.lines[j]
                           ELSE todo[j - Len(file.lines)]
        BY <2>1, <4>1, ConcatProperties
      <4>3. Len(todo) \in Nat /\ Len(file.lines) \in Nat
        BY <2>1, <4>1
      <4> HIDE DEF all
      <4> QED
        BY <4>1, <4>2, <4>3
    <3>3. CASE g = file
      <4> HIDE DEF all
      <4>1. Agrees(snap, file.lines)
        BY <2>1, <3>1, <3>2, AgreesBefore
      <4> QED
        BY <2>1, <3>3, <4>1, ConcatEmptySeq
    <3>4. CASE todo # <<>> /\ g = Appended(file, Head(todo))
      <4> DEFINE op == Head(todo)
                 more == Append(file.lines, op)
      <4>1. /\ op \in Operations /\ more \in Seq(Operations)
            /\ g.lines = more /\ more \o Tail(todo) = all
            /\ Tail(todo) \in Seq(Operations)
        <5>1. /\ op \in Operations /\ more \in Seq(Operations)
              /\ more \o Tail(todo) = all /\ Tail(todo) \in Seq(Operations)
          BY <2>1, <3>2, <3>4, AppendAhead
        <5>2. g.lines = more
          BY <2>1, <3>4, <5>1, AppendedClean
        <5> QED
          BY <5>1, <5>2
      <4> HIDE DEF op, more, all
      <4>2. /\ Len(more) =< Len(all) /\ \A j \in 1 .. Len(more) : all[j] = more[j]
        <5>1. /\ Len(more \o Tail(todo)) = Len(more) + Len(Tail(todo))
              /\ \A j \in 1 .. Len(more) + Len(Tail(todo)) :
                    (more \o Tail(todo))[j] = IF j =< Len(more) THEN more[j]
                                              ELSE Tail(todo)[j - Len(more)]
          BY <4>1, ConcatProperties
        <5>2. Len(more) \in Nat /\ Len(Tail(todo)) \in Nat
          BY <4>1
        <5> QED
          BY <4>1, <5>1, <5>2
      <4>3. Agrees(snap, more)
        BY <3>1, <3>2, <4>1, <4>2, AgreesBefore
      <4> QED
        BY <4>1, <4>3, ConcatEmptySeq
    <3>5. g = file \/ (todo # <<>> /\ g = Appended(file, Head(todo)))
      <4>1. CASE todo = <<>>
        BY <1>1, <2>1, <4>1
      <4>2. CASE todo # <<>>
        <5>1. Head(todo) \in Operations /\ file' \in Interrupted(file, Head(todo))
          BY <1>1, <1>4, <4>2, Written
        <5> QED
          BY <2>1, <4>2, <5>1, InterruptedRepaired
      <4> QED
        BY <4>1, <4>2
    <3> QED
      BY <3>3, <3>4, <3>5
  <2> QED
    BY <1>2, <2>4, <2>5, <2>6, <2>7
<1> QED
  BY <1>3, <1>4

\* load_persistent_state: a debug build panics only where it may
LEMMA BootStep ==
    ASSUME IInv, NEW build \in Builds, Boot(build)
    PROVE  TodoOK' /\ FileOK' /\ ExactOK' /\ AgreeOK' /\ StatesOK'
<1>1. /\ mode \in {"down", "panicked"} /\ file' = Repaired(file)
      /\ clean' = (clean /\ ~EndsInHalf(file'))
      /\ todo' = todo /\ snap' = snap /\ acked' = acked /\ faults' = faults
      /\ mode' \in {"serving", "panicked", "refused"}
      /\ mode' = "serving" => db' = Replay(snap, file'.lines)
      /\ Readable(file) => mode' # "refused"
      /\ Readable(file) /\ Agrees(snap, file'.lines) => mode' = "serving"
  BY DEF Boot
<1>2. todo = <<>>
  BY <1>1, TypeFacts DEF IInv
<1>3. TodoOK'
  <2>1. Len(<<>>) = 0
    OBVIOUS
  <2> QED
    BY <1>1, <1>2, <2>1 DEF TodoOK
<1>4. CASE faults.failures # 0
  BY <1>1, <1>3, <1>4 DEF IInv, FileOK, ExactOK, AgreeOK, StatesOK
<1>5. CASE faults.failures = 0
  <2>1. Readable(file) /\ mode' # "refused"
    BY <1>1, <1>5 DEF IInv, FileOK
  <2>2. /\ Clean(file') /\ file'.lines \in Seq(Operations) /\ OnDisk \in Stores
    BY <1>1, <1>5, DiskTyped
  <2>3. mode' = "serving" => db' = OnDisk
    BY <1>1 DEF OnDisk
  <2>4. Repaired(file') = file'
    <3>1. Len(<<>>) =< 1
      OBVIOUS
    <3> QED
      BY <2>2, <3>1, RepairedType DEF Clean
  <2>5. OnDisk' = OnDisk
    BY <1>1, <2>4 DEF OnDisk
  <2>6. file'.lines \o <<>> = file'.lines /\ Replay(snap, file.lines \o todo)' = OnDisk
    <3>1. file'.lines \o <<>> = file'.lines
      BY <2>2, ConcatEmptySeq
    <3> QED
      BY <1>1, <1>2, <3>1 DEF OnDisk
  <2>7. FileOK'
    BY <2>1, <2>2 DEF FileOK, Clean
  \* what is read was journaled as a whole, or is not clean any more
  <2>8. clean => Agrees(snap, file'.lines) /\ mode' = "serving"
    <3>1. clean => Agrees(snap, Repaired(file).lines \o todo)
      BY <1>1 DEF IInv, AgreeOK
    <3> QED
      BY <1>1, <1>2, <2>1, <2>6, <3>1
  <2>9. ExactOK'
    <3> SUFFICES ASSUME clean' PROVE ExactOK'
      BY DEF ExactOK
    <3>1. clean /\ ~EndsInHalf(Repaired(file)) /\ mode = "down"
      BY <1>1 DEF IInv, AgreeOK
    <3>2. Whole(OnDisk) /\ Restored(OnDisk) = OnDisk
      BY <3>1 DEF IInv, ExactOK
    <3>3. Whole(db)' /\ Replay(snap, file.lines \o todo)' = Restored(db)'
      BY <2>3, <2>6, <2>8, <3>1, <3>2
    <3>4. Whole(OnDisk)' /\ Restored(OnDisk)' = OnDisk'
      BY <2>5, <3>2
    <3> QED
      BY <1>1, <1>5, <2>8, <3>1, <3>3, <3>4 DEF ExactOK
  <2>10. AgreeOK'
    <3>1. clean' => clean
      BY <1>1
    <3>2. (Repaired(file).lines \o todo)' = file'.lines /\ snap' = snap
      BY <1>1, <1>2, <2>4, <2>6
    <3> QED
      BY <2>8, <3>1, <3>2 DEF AgreeOK
  <2>11. StatesOK'
    <3>1. \A t \in acked : IsTerminal(OnDisk, t)
      BY <1>5 DEF IInv, StatesOK
    <3>2. \A t \in acked' : /\ IsTerminal(OnDisk, t)'
                            /\ mode' = "serving" => IsTerminal(db, t)'
      BY <1>1, <2>3, <2>5, <3>1
    <3> QED
      BY <1>1, <2>3, <2>6, <3>2 DEF StatesOK
  <2> QED
    BY <1>3, <2>7, <2>9, <2>10, <2>11
<1> QED
  BY <1>4, <1>5

\* The snapshot is in place and the journal not yet truncated: what is replayed
\* onto it has happened to it already
LEMMA CompactStep ==
    ASSUME IInv, Compact
    PROVE  TodoOK' /\ FileOK' /\ ExactOK' /\ AgreeOK' /\ StatesOK'
<1>1. /\ mode = "serving" /\ todo = <<>> /\ mode' = "compacted" /\ snap' = db
      /\ db' = db /\ todo' = todo /\ clean' = clean /\ file' = file /\ acked' = acked
      /\ faults'.failures = faults.failures
  <2>1. faults \in [lapses : Nat, failures : Nat, kills : Nat, stops : Nat]
    BY DEF IInv, TypeOK
  <2>2. faults' = [faults EXCEPT !.stops = @ + 1]
    BY DEF Compact
  <2>3. faults'.failures = faults.failures
    BY <2>1, <2>2
  <2> QED
    BY <2>3 DEF Compact, Unlocked, Serving
<1>2. TodoOK'
  BY <1>1 DEF IInv, TodoOK
<1>3. FileOK'
  BY <1>1 DEF IInv, FileOK
<1>4. ExactOK'
  <2>1. clean => faults.failures = 0 /\ Whole(db)
    BY <1>1 DEF IInv, ExactOK
  <2> QED
    BY <1>1, <2>1 DEF ExactOK
<1>5. ASSUME faults.failures = 0
      PROVE  \A t \in acked : IsTerminal(OnDisk, t)' /\ IsTerminal(db, t)
  <2> SUFFICES ASSUME NEW t \in acked
               PROVE  IsTerminal(OnDisk, t)' /\ IsTerminal(db, t)
    OBVIOUS
  <2>1. IsTerminal(OnDisk, t) /\ IsTerminal(db, t)
    BY <1>1, <1>5 DEF IInv, StatesOK
  <2>2. t \in Tasks /\ db \in Stores /\ snap \in Stores
    BY TypeFacts DEF IInv
  <2>3. file.lines \in Seq(Operations) /\ Repaired(file) = file /\ OnDisk = Replay(snap, file.lines)
    BY <1>1, <1>5, ServingFile
  <2>4. IsTerminal(Replay(db, file.lines), t)
    BY <2>1, <2>2, <2>3, TerminalTwice
  <2>5. OnDisk' = Replay(db, file.lines)
    BY <1>1, <2>3 DEF OnDisk
  <2> QED
    BY <2>1, <2>4, <2>5
<1>6. StatesOK'
  BY <1>1, <1>5 DEF StatesOK
<1>7. AgreeOK'
  BY <1>1 DEF AgreeOK
<1> QED
  BY <1>2, <1>3, <1>4, <1>6, <1>7

\* truncate_journal
LEMMA TruncateStep ==
    ASSUME IInv, Truncate
    PROVE  TodoOK' /\ FileOK' /\ ExactOK' /\ AgreeOK' /\ StatesOK'
<1>1. /\ mode = "compacted" /\ mode' = "down" /\ file' = EmptyFile /\ todo' = <<>>
      /\ clean' = clean /\ snap' = snap /\ faults' = faults /\ acked' = acked
  BY DEF Truncate, Gone
<1>2. TodoOK'
  <2>1. Len(<<>>) = 0
    OBVIOUS
  <2> QED
    BY <1>1, <2>1 DEF TodoOK
<1>3. OnDisk' = Restored(snap) /\ Readable(file')
  <2>1. Repaired(EmptyFile) = EmptyFile /\ EmptyFile.lines = <<>> /\ Readable(EmptyFile)
    <3>1. Len(<<>>) =< 1
      OBVIOUS
    <3> QED
      BY <3>1, EmptyFileClean, RepairedType DEF Clean
  <2>2. OnDisk' = Replay(snap, <<>>)
    BY <1>1, <2>1 DEF OnDisk
  <2> QED
    BY <1>1, <2>1, <2>2, ReplayNothing
<1>4. FileOK'
  BY <1>1, <1>3 DEF FileOK
<1>5. snap \in Stores
  BY TypeFacts DEF IInv
<1>6. ExactOK'
  <2> SUFFICES ASSUME clean PROVE ExactOK'
    BY <1>1 DEF ExactOK
  <2>1. faults.failures = 0 /\ Whole(db) /\ snap = db
    BY <1>1 DEF IInv, ExactOK
  <2>2. Whole(OnDisk') /\ Restored(OnDisk') = OnDisk'
    BY <1>3, <1>5, <2>1, RestoredOnce
  <2> QED
    BY <1>1, <2>1, <2>2 DEF ExactOK
<1>7. StatesOK'
  <2> SUFFICES ASSUME faults.failures = 0 PROVE StatesOK'
    BY <1>1 DEF StatesOK
  <2>1. \A t \in acked : IsTerminal(snap, t)
    BY <1>1 DEF IInv, StatesOK
  <2>2. \A t \in acked : IsTerminal(OnDisk', t)
    BY <1>3, <1>5, <2>1, RestoredType DEF IsTerminal
  <2> QED
    BY <1>1, <2>2 DEF StatesOK
<1>8. AgreeOK'
  <2>1. Repaired(EmptyFile).lines = <<>>
    <3>1. Len(<<>>) =< 1
      OBVIOUS
    <3> QED
      BY <3>1, EmptyFileClean, RepairedType DEF Clean
  <2>2. <<>> \o <<>> = <<>>
    OBVIOUS
  <2>3. Agrees(snap, <<>>)
    BY AgreesNothing
  <2> QED
    BY <1>1, <2>1, <2>2, <2>3 DEF AgreeOK
<1> QED
  BY <1>2, <1>4, <1>6, <1>7, <1>8

\* Steps that are not journaled and that no replay could tell
LEMMA QuietStep ==
    ASSUME IInv, UNCHANGED <<mode, todo, clean, file, snap, acked>>,
           faults'.failures = faults.failures, db'.state = db.state,
           mode # "serving" => db' = db,
           Whole(db) => Whole(db') /\ Restored(db') = Restored(db)
    PROVE  TodoOK' /\ FileOK' /\ ExactOK' /\ AgreeOK' /\ StatesOK'
<1>1. OnDisk' = OnDisk /\ Repaired(file)' = Repaired(file)
  BY DEF OnDisk
<1>2. \A t : IsTerminal(db, t)' <=> IsTerminal(db, t)
  BY DEF IsTerminal
<1>3. TodoOK'
  BY <1>2 DEF IInv, TodoOK
<1>4. FileOK'
  BY DEF IInv, FileOK
<1>5. ExactOK'
  <2>1. Replay(snap, file.lines \o todo)' = Replay(snap, file.lines \o todo)
    OBVIOUS
  <2>2. CASE mode = "serving"
    BY <1>1, <2>1, <2>2 DEF IInv, ExactOK
  <2>3. CASE mode # "serving"
    BY <1>1, <2>1, <2>3 DEF IInv, ExactOK
  <2> QED
    BY <2>2, <2>3
<1>6. StatesOK'
  BY <1>1, <1>2 DEF IInv, StatesOK
<1>7. AgreeOK'
  BY <1>1 DEF IInv, AgreeOK
<1> QED
  BY <1>3, <1>4, <1>5, <1>6, <1>7

\* The first boot starts from a store between two mutations
LEMMA EmptyStoreWhole == Whole(EmptyStore) /\ EmptyStore \in Stores
<1>1. EmptyStore \in Stores
  BY EmptyStoreOK DEF StoreOK
<1>2. Unplaced(EmptyStore)
  BY DEF Unplaced, EmptyStore
<1> QED
  BY <1>1, <1>2, EmptyStoreOK DEF Whole

\* Before the first boot
LEMMA InitIInv == Init => IInv
<1> SUFFICES ASSUME Init PROVE IInv
  OBVIOUS
<1>1. /\ mode = "down" /\ db = EmptyStore /\ tick = "idle" /\ queue = {} /\ todo = <<>>
      /\ file = EmptyFile /\ snap = EmptyStore /\ acked = {} /\ faults.failures = 0
  BY DEF Init
<1>2. Clean(EmptyFile) /\ EmptyFile.lines = <<>>
  BY EmptyFileClean
<1>3. <<>> \in Seq(Operations) /\ Len(<<>>) = 0
  OBVIOUS
<1>4. EmptyStore \in Stores /\ Whole(EmptyStore)
  BY EmptyStoreWhole
<1>5. TypeOK
  <2>1. file \in Files /\ Len(file.tail) =< 1 /\ todo \in Seq(Operations) /\ Len(todo) =< 2
    <3>1. EmptyFile \in Files /\ EmptyFile.tail = <<>>
      BY <1>2 DEF Clean
    <3>2. \A k : k = 0 => k =< 1 /\ k =< 2
      OBVIOUS
    <3> QED
      BY <1>1, <1>3, <3>1, <3>2
  <2>2. faults \in [lapses : Nat, failures : Nat, kills : Nat, stops : Nat]
    BY DEF Init
  <2> QED
    BY <1>1, <1>4, <2>1, <2>2 DEF Init, TypeOK
<1>6. QueuePending /\ TodoOK /\ FileOK
  BY <1>1, <1>2, <1>3 DEF QueuePending, TodoOK, FileOK, Clean
<1>7. OnDisk = Restored(EmptyStore)
  <2>1. Repaired(EmptyFile) = EmptyFile
    BY <1>2, <1>3, RepairedType DEF Clean
  <2> QED
    BY <1>1, <1>2, <2>1, ReplayNothing DEF OnDisk
<1>8. Whole(OnDisk) /\ Restored(OnDisk) = OnDisk
  BY <1>4, <1>7, RestoredOnce
<1>9. ExactOK /\ StatesOK
  BY <1>1, <1>8 DEF ExactOK, StatesOK
<1>10. AgreeOK
  <2>1. Repaired(EmptyFile) = EmptyFile
    BY <1>2, <1>3, RepairedType DEF Clean
  <2>2. <<>> \o <<>> = <<>>
    OBVIOUS
  <2>3. Agrees(snap, <<>>)
    BY AgreesNothing
  <2> QED
    BY <1>1, <1>2, <2>1, <2>2, <2>3 DEF AgreeOK
<1> QED
  BY <1>5, <1>6, <1>9, <1>10 DEF IInv

\* Every action that changes the store journals the change
LEMMA Journals ==
    ASSUME TypeOK, QueuePending
    PROVE  /\ \A job \in SUBSET Tasks : Submit(job) =>
                 Journaled(db, CreateJob(db, job), <<OpCreateJob(job)>>)
           /\ \A n \in Nodes : Join(n) =>
                 Journaled(db, RegisterNode(db, n), <<OpRegisterNode(n)>>)
           /\ \A t \in Tasks : \A s \in Reported : Report(t, s) =>
                 Journaled(db, SetTaskState(db, t, s), SetTaskStateOps(db, t, s))
           /\ \A t \in Tasks : RequeueOrphan(t) =>
                 Journaled(db, Requeue(db, t), RequeueOps(db, t))
           /\ \A t \in Tasks : \A n \in Nodes : PlaceNext(t, n) =>
                 Journaled(db, Place(db, t, n), PlaceOps(Place(db, t, n), t, n))
<1>1. db \in Stores
  BY TypeFacts
<1>2. \A job \in SUBSET Tasks : Submit(job) =>
                 Journaled(db, CreateJob(db, job), <<OpCreateJob(job)>>)
  BY <1>1, SubmitJournaled DEF Submit
<1>3. \A n \in Nodes : Join(n) =>
                 Journaled(db, RegisterNode(db, n), <<OpRegisterNode(n)>>)
  BY <1>1, JoinJournaled
<1>4. \A t \in Tasks : \A s \in Reported : Report(t, s) =>
                 Journaled(db, SetTaskState(db, t, s), SetTaskStateOps(db, t, s))
  BY <1>1, PersistenceAssumption, ReportJournaled DEF Report
<1>5. \A t \in Tasks : RequeueOrphan(t) =>
                 Journaled(db, Requeue(db, t), RequeueOps(db, t))
  BY <1>1, RequeueJournaled DEF RequeueOrphan
<1>6. ASSUME NEW t \in Tasks, NEW n \in Nodes, PlaceNext(t, n)
      PROVE  Journaled(db, Place(db, t, n), PlaceOps(Place(db, t, n), t, n))
  <2>1. db.state[t] = "pending"
    BY <1>6 DEF PlaceNext, NextInQueue, QueuePending, Pending
  <2>2. n \in db.alive
    BY <1>6 DEF PlaceNext, Picks, Eligible
  <2> QED
    BY <1>1, <2>1, <2>2, PlaceJournaled
<1> QED
  BY <1>2, <1>3, <1>4, <1>5, <1>6

\* A mutation keeps the types
LEMMA MutationTyped ==
    ASSUME TypeOK, Serving, NEW store, NEW ops, Journaled(db, store, ops), Mutate(store, ops),
           UNCHANGED <<mode, clean, file, snap, lock, acked, faults, handed, known>>,
           tick' \in {"idle", "requeue", "place"}, queue' \subseteq Tasks,
           joined' \subseteq Nodes
    PROVE  TypeOK'
<1>1. db' = store /\ todo' = ops /\ mode = "serving"
  BY DEF Mutate, Serving
<1>2. store \in Stores /\ ops \in Seq(Operations) /\ Len(ops) =< 2
  BY DEF Journaled
<1> QED
  BY <1>1, <1>2 DEF TypeOK

\* The handlers that change the store, and the scheduling pass
LEMMA MutationSteps ==
    ASSUME IInv, \/ \E job \in SUBSET Tasks : Submit(job)
                 \/ \E n \in Nodes : Join(n)
                 \/ \E t \in Tasks : \/ \E s \in Reported : Report(t, s)
                                     \/ RequeueOrphan(t)
                                     \/ \E n \in Nodes : PlaceNext(t, n)
    PROVE  IInv'
<1>1. TypeOK /\ QueuePending
  BY DEF IInv
<1>2. ASSUME NEW store, NEW ops, Journaled(db, store, ops), Mutate(store, ops), Serving,
             UNCHANGED <<mode, clean, disk, acked, faults, handed, known>>,
             tick' \in {"idle", "requeue", "place"}, queue' \subseteq Tasks,
             joined' \subseteq Nodes, QueuePending'
      PROVE  IInv'
  <2>1. file' = file /\ snap' = snap /\ lock' = lock
    BY <1>2 DEF disk
  <2>2. TypeOK'
    BY <1>1, <1>2, <2>1, MutationTyped
  <2>3. TodoOK' /\ FileOK' /\ ExactOK' /\ AgreeOK' /\ StatesOK'
    BY <1>2, <2>1, MutationStep
  <2> QED
    BY <1>2, <2>2, <2>3 DEF IInv
<1>3. /\ tick \in {"idle", "requeue", "place"} /\ queue \subseteq Tasks /\ joined \subseteq Nodes
      /\ tick # "place" => queue = {}
  BY <1>1 DEF TypeOK, QueuePending
<1>4. tick # "place" /\ queue' = queue /\ tick' # "place" => QueuePending'
  BY <1>3 DEF QueuePending
<1>5. ASSUME NEW job \in SUBSET Tasks, Submit(job)
      PROVE  IInv'
  <2>1. Journaled(db, CreateJob(db, job), <<OpCreateJob(job)>>)
    BY <1>1, <1>5, Journals
  <2> QED
    BY <1>2, <1>3, <1>4, <1>5, <2>1 DEF Submit, Unlocked, agents
<1>6. ASSUME NEW n \in Nodes, Join(n)
      PROVE  IInv'
  <2>1. Journaled(db, RegisterNode(db, n), <<OpRegisterNode(n)>>)
    BY <1>1, <1>6, Journals
  <2> QED
    BY <1>2, <1>3, <1>4, <1>6, <2>1 DEF Join, Unlocked
<1>7. ASSUME NEW t \in Tasks, NEW s \in Reported, Report(t, s)
      PROVE  IInv'
  <2>1. Journaled(db, SetTaskState(db, t, s), SetTaskStateOps(db, t, s))
    BY <1>1, <1>7, Journals
  <2> QED
    BY <1>2, <1>3, <1>4, <1>7, <2>1 DEF Report, Unlocked, agents
<1>8. ASSUME NEW t \in Tasks, RequeueOrphan(t)
      PROVE  IInv'
  <2>1. Journaled(db, Requeue(db, t), RequeueOps(db, t))
    BY <1>1, <1>8, Journals
  <2>2. tick # "place" /\ tick' = "requeue"
    BY <1>8 DEF RequeueOrphan
  <2> QED
    BY <1>2, <1>3, <1>4, <1>8, <2>1, <2>2 DEF RequeueOrphan, agents
<1>9. ASSUME NEW t \in Tasks, NEW n \in Nodes, PlaceNext(t, n)
      PROVE  IInv'
  <2>1. Journaled(db, Place(db, t, n), PlaceOps(Place(db, t, n), t, n))
    BY <1>1, <1>9, Journals
  <2>2. /\ Serving /\ Mutate(Place(db, t, n), PlaceOps(Place(db, t, n), t, n))
        /\ queue' = queue \ {t} /\ tick' = IF queue' = {} THEN "idle" ELSE "place"
        /\ UNCHANGED <<mode, clean, disk, agents, acked, faults>>
    BY <1>9 DEF PlaceNext, NextInQueue, GoOnWith
  <2>3. \A u \in Tasks \ {t} : db'.state[u] = db.state[u]
    BY <1>1, <2>2, TypeFacts, PlaceShape DEF Mutate
  <2>4. QueuePending'
    BY <1>1, <1>3, <2>2, <2>3 DEF QueuePending, Pending
  <2> QED
    BY <1>2, <1>3, <2>1, <2>2, <2>4 DEF agents
<1> QED
  BY <1>5, <1>6, <1>7, <1>8, <1>9

\* Heartbeats, missed or not, the assignments handler, and the scheduler where it
\* changes no task
LEMMA QuietSteps ==
    ASSUME IInv, \/ \E n \in Nodes : Beat(n) \/ Miss(n) \/ HandOut(n)
                 \/ \E t \in Tasks : SkipNext(t)
                 \/ Recount \/ RemoveLock
    PROVE  IInv'
<1>1. TypeOK /\ QueuePending /\ db \in Stores
  BY TypeFacts DEF IInv
<1>2. ASSUME db' = db, UNCHANGED <<mode, todo, clean, file, snap, acked, faults>>
      PROVE  TodoOK' /\ FileOK' /\ ExactOK' /\ AgreeOK' /\ StatesOK'
  BY <1>2, QuietStep
<1>3. ASSUME NEW n \in Nodes, Beat(n)
      PROVE  IInv'
  <2> DEFINE store == Heartbeat(db, n)
  <2>1. n \in db.nodes /\ store = [db EXCEPT !.alive = db.alive \cup {n}]
    BY <1>3 DEF Beat, Heartbeat
  <2>2. store \in Stores /\ store.state = db.state /\ store.node = db.node
        /\ store.nodes = db.nodes
    BY <1>1, <2>1 DEF Stores
  <2>3. Whole(db) => Whole(store) /\ Restored(store) = Restored(db)
    <3>1. Whole(db) => StoreOK(store)
      BY HeartbeatSound DEF Whole, Sound
    <3>2. Whole(db) => Unplaced(store)
      BY <2>2 DEF Whole, Unplaced
    <3>3. Restored(store) = Restored(db)
      BY <1>1, <2>1 DEF Restored, Stores
    <3> QED
      BY <3>1, <3>2, <3>3 DEF Whole
  <2> HIDE DEF store
  <2>4. /\ db' = store /\ tick = "idle" /\ mode = "serving"
        /\ UNCHANGED <<mode, tick, queue, todo, clean, file, snap, lock, joined, known,
                       handed, acked, faults>>
    BY <1>3 DEF Beat, Unlocked, Serving, disk, agents, store
  <2>5. TodoOK' /\ FileOK' /\ ExactOK' /\ AgreeOK' /\ StatesOK'
    BY <2>2, <2>3, <2>4, QuietStep
  <2>6. TypeOK'
    BY <1>1, <2>2, <2>4 DEF TypeOK
  <2>7. QueuePending'
    BY <1>1, <2>4 DEF QueuePending
  <2> QED
    BY <2>5, <2>6, <2>7 DEF IInv
<1>4. ASSUME NEW n \in Nodes, Miss(n)
      PROVE  IInv'
  <2> DEFINE store == Lapse(db, n)
  <2>1. n \in db.alive /\ store = [db EXCEPT !.alive = db.alive \ {n}]
    BY <1>4 DEF Miss, Lapse
  <2>2. store \in Stores /\ store.state = db.state /\ store.node = db.node
        /\ store.nodes = db.nodes
    BY <1>1, <2>1 DEF Stores
  <2>3. Whole(db) => Whole(store) /\ Restored(store) = Restored(db)
    <3>1. Whole(db) => StoreOK(store)
      BY LapseSound DEF Whole, Sound
    <3>2. Whole(db) => Unplaced(store)
      BY <2>2 DEF Whole, Unplaced
    <3>3. Whole(db) => Restored(store) = Restored(db)
      BY <1>1, <2>1 DEF Restored, Stores, Whole, StoreOK
    <3> QED
      BY <3>1, <3>2, <3>3 DEF Whole
  <2> HIDE DEF store
  <2>4. /\ db' = store /\ tick = "idle" /\ mode = "serving"
        /\ faults' = [faults EXCEPT !.lapses = @ + 1]
        /\ UNCHANGED <<mode, tick, queue, todo, clean, file, snap, lock, joined, known,
                       handed, acked>>
    BY <1>4 DEF Miss, Unlocked, Serving, disk, agents, store
  <2>5. /\ faults' \in [lapses : Nat, failures : Nat, kills : Nat, stops : Nat]
        /\ faults'.failures = faults.failures
    BY <1>1, <2>4 DEF TypeOK
  <2>6. TodoOK' /\ FileOK' /\ ExactOK' /\ AgreeOK' /\ StatesOK'
    BY <2>2, <2>3, <2>4, <2>5, QuietStep
  <2>7. TypeOK'
    BY <1>1, <2>2, <2>4, <2>5 DEF TypeOK
  <2>8. QueuePending'
    BY <1>1, <2>4 DEF QueuePending
  <2> QED
    BY <2>6, <2>7, <2>8 DEF IInv
<1>5. ASSUME NEW n \in Nodes, HandOut(n)
      PROVE  IInv'
  <2>1. TypeOK' /\ QueuePending'
    BY <1>1, <1>5 DEF HandOut, Assignments, disk, TypeOK, QueuePending
  <2>2. TodoOK' /\ FileOK' /\ ExactOK' /\ AgreeOK' /\ StatesOK'
    BY <1>2, <1>5 DEF HandOut, disk
  <2> QED
    BY <2>1, <2>2 DEF IInv
<1>6. ASSUME NEW t \in Tasks, SkipNext(t)
      PROVE  IInv'
  <2>1. TypeOK' /\ QueuePending'
    BY <1>1, <1>6 DEF SkipNext, NextInQueue, Serving, GoOnWith, disk, agents, TypeOK,
                      QueuePending
  <2>2. TodoOK' /\ FileOK' /\ ExactOK' /\ AgreeOK' /\ StatesOK'
    BY <1>2, <1>6 DEF SkipNext, disk
  <2> QED
    BY <2>1, <2>2 DEF IInv
<1>7. ASSUME Recount
      PROVE  IInv'
  <2>1. TypeOK' /\ QueuePending'
    BY <1>1, <1>7 DEF Recount, Serving, GoOnWith, Pending, disk, agents, TypeOK, QueuePending
  <2>2. TodoOK' /\ FileOK' /\ ExactOK' /\ AgreeOK' /\ StatesOK'
    BY <1>2, <1>7 DEF Recount, disk
  <2> QED
    BY <2>1, <2>2 DEF IInv
<1>8. ASSUME RemoveLock
      PROVE  IInv'
  <2>1. TypeOK' /\ QueuePending'
    BY <1>1, <1>8 DEF RemoveLock, agents, TypeOK, QueuePending
  <2>2. TodoOK' /\ FileOK' /\ ExactOK' /\ AgreeOK' /\ StatesOK'
    BY <1>2, <1>8 DEF RemoveLock
  <2> QED
    BY <2>1, <2>2 DEF IInv
<1> QED
  BY <1>3, <1>4, <1>5, <1>6, <1>7, <1>8

\* The journal, and the life of the server
LEMMA JournalSteps ==
    ASSUME IInv, \/ AppendNext \/ AppendFails
                 \/ \E build \in Builds : Boot(build)
                 \/ Kill \/ Compact \/ Truncate
    PROVE  IInv'
<1>1. TypeOK /\ QueuePending
  BY DEF IInv
<1>2. /\ db \in Stores /\ snap \in Stores /\ file \in Files /\ Len(file.tail) =< 1
      /\ todo \in Seq(Operations) /\ Len(todo) =< 2
  BY <1>1, TypeFacts
<1>3. \A g \in Files : g.tail = <<>> => Len(g.tail) =< 1
  <2>1. Len(<<>>) =< 1
    OBVIOUS
  <2> QED
    BY <2>1
<1>4. <<>> \in Seq(Operations) /\ Len(<<>>) =< 2
  OBVIOUS
<1>5. todo # <<>> => /\ Head(todo) \in Operations /\ Tail(todo) \in Seq(Operations)
                    /\ Len(Tail(todo)) =< 2
  <2> SUFFICES ASSUME todo # <<>>
               PROVE  /\ Head(todo) \in Operations /\ Tail(todo) \in Seq(Operations)
                      /\ Len(Tail(todo)) =< 2
    OBVIOUS
  <2>1. /\ Head(todo) \in Operations /\ Tail(todo) \in Seq(Operations)
        /\ Len(Tail(todo)) = Len(todo) - 1
    BY <1>2, HeadTailProperties
  <2> QED
    BY <1>2, <2>1
<1>6. /\ todo # <<>> => Appended(file, Head(todo)) \in Files
                        /\ Appended(file, Head(todo)).tail = <<>>
      /\ todo # <<>> => \A g \in Interrupted(file, Head(todo)) : g \in Files /\ Len(g.tail) =< 1
  BY <1>2, <1>5, AppendedType, InterruptedType
<1>7. CASE AppendNext
  <2>1. /\ Acknowledges(Head(todo)) => Head(todo).task \in Tasks
        /\ Registers(Head(todo)) \subseteq Nodes
    <3> DEFINE op == Head(todo)
    <3>1. op \in Operations
      BY <1>5, <1>7 DEF AppendNext
    <3> HIDE DEF op
    <3>2. op.op = "set_task_state" => op.task \in Tasks
      BY <3>1 DEF Operations
    <3>3. op.op = "register_node" => op.node \in Nodes
      BY <3>1 DEF Operations
    <3> QED
      BY <3>2, <3>3 DEF op, Acknowledges, Registers
  <2>2. /\ file' \in Files /\ Len(file'.tail) =< 1
        /\ todo' \in Seq(Operations) /\ Len(todo') =< 2
    BY <1>3, <1>5, <1>6, <1>7 DEF AppendNext
  <2>3. acked' \subseteq Tasks /\ known' \subseteq Nodes /\ mode' = "serving"
    BY <1>1, <1>7, <2>1 DEF AppendNext, TypeOK
  <2>4. TypeOK'
    BY <1>1, <1>7, <2>2, <2>3 DEF AppendNext, TypeOK
  <2>5. QueuePending'
    BY <1>1, <1>7 DEF AppendNext, QueuePending
  <2> QED
    BY <1>7, <2>4, <2>5, AppendStep DEF IInv
<1>8. CASE AppendFails
  <2>1. file' \in Files /\ Len(file'.tail) =< 1
    BY <1>6, <1>8 DEF AppendFails
  <2>2. faults' \in [lapses : Nat, failures : Nat, kills : Nat, stops : Nat]
    BY <1>1, <1>8 DEF AppendFails, TypeOK
  <2>3. TypeOK' /\ QueuePending'
    BY <1>1, <1>4, <1>8, <2>1, <2>2 DEF AppendFails, agents, TypeOK, QueuePending
  <2> QED
    BY <1>8, <2>3, FailStep DEF IInv
<1>9. ASSUME NEW build \in Builds, Boot(build)
      PROVE  IInv'
  <2>1. /\ Repaired(file) \in Files /\ Repaired(file).tail = <<>>
        /\ Readable(file) => Replay(snap, Repaired(file).lines) \in Stores
    <3>1. /\ Repaired(file) \in Files /\ Repaired(file).tail = <<>>
          /\ Readable(file) => Clean(Repaired(file))
      BY <1>2, RepairedType
    <3>2. Readable(file) => Repaired(file).lines \in Seq(Operations)
      BY <3>1, CleanLines DEF Clean
    <3> QED
      BY <1>2, <3>1, <3>2, ReplayType
  <2>2. file' \in Files /\ Len(file'.tail) =< 1
    BY <1>3, <1>9, <2>1 DEF Boot
  <2>3. db' \in Stores
    BY <1>2, <1>9, <2>1 DEF Boot
  <2>4. tick = "idle" /\ queue = {} /\ todo = <<>>
    BY <1>1, <1>9 DEF Boot, TypeOK
  <2>5. TypeOK' /\ QueuePending'
    BY <1>1, <1>9, <2>2, <2>3, <2>4 DEF Boot, agents, TypeOK, QueuePending
  <2> QED
    BY <1>9, <2>5, BootStep DEF IInv
<1>10. CASE Kill
  <2>1. file' \in Files /\ Len(file'.tail) =< 1
    BY <1>2, <1>6, <1>10 DEF Kill
  <2>2. faults' \in [lapses : Nat, failures : Nat, kills : Nat, stops : Nat]
    BY <1>1, <1>10 DEF Kill, TypeOK
  <2>3. EmptyStore \in Stores
    BY EmptyStoreWhole
  <2>4. TypeOK' /\ QueuePending'
    BY <1>1, <1>4, <1>10, <2>1, <2>2, <2>3 DEF Kill, Gone, agents, TypeOK, QueuePending
  <2> QED
    BY <1>10, <2>4, KillStep DEF IInv
<1>11. CASE Compact
  <2>1. faults' \in [lapses : Nat, failures : Nat, kills : Nat, stops : Nat]
    BY <1>1, <1>11 DEF Compact, TypeOK
  <2>2. tick = "idle" /\ queue = {} /\ todo = <<>> /\ mode = "serving"
    BY <1>1, <1>11 DEF Compact, Unlocked, Serving, QueuePending
  <2>3. TypeOK' /\ QueuePending'
    BY <1>1, <1>11, <2>1, <2>2 DEF Compact, agents, TypeOK, QueuePending
  <2> QED
    BY <1>11, <2>3, CompactStep DEF IInv
<1>12. CASE Truncate
  <2>1. EmptyFile \in Files /\ Len(EmptyFile.tail) =< 1
    BY <1>3, EmptyFileClean DEF Clean
  <2>2. EmptyStore \in Stores
    BY EmptyStoreWhole
  <2>3. TypeOK' /\ QueuePending'
    BY <1>1, <1>4, <1>12, <2>1, <2>2 DEF Truncate, Gone, agents, TypeOK, QueuePending
  <2> QED
    BY <1>12, <2>3, TruncateStep DEF IInv
<1> QED
  BY <1>7, <1>8, <1>9, <1>10, <1>11, <1>12

\* Nothing happens
LEMMA Stutter ==
    ASSUME IInv, UNCHANGED vars
    PROVE  IInv'
<1>1. TypeOK' /\ QueuePending'
  BY DEF IInv, TypeOK, QueuePending, vars, disk, agents
<1>2. TodoOK' /\ FileOK' /\ ExactOK' /\ AgreeOK' /\ StatesOK'
  BY QuietStep DEF vars, disk
<1> QED
  BY <1>1, <1>2 DEF IInv

(***************************************************************************)
(* The inductive invariant holds, whatever is killed, stopped, repaired or *)
(* replayed, and however often: its parts are the two obligations of       *)
(* state.rs, to journal every mutation after it was made, and of           *)
(* journal.rs, to replay to what was journaled.                            *)
(***************************************************************************)
THEOREM Invariance == Spec => []IInv
<1>1. ASSUME IInv, [Next]_vars
      PROVE  IInv'
  <2>1. CASE UNCHANGED vars
    BY <1>1, <2>1, Stutter
  <2>2. ASSUME Next
        PROVE  IInv'
    BY <1>1, <2>2, MutationSteps, QuietSteps, JournalSteps DEF Next
  <2> QED
    BY <1>1, <2>1, <2>2
<1> QED
  BY InitIInv, <1>1, PTL DEF Spec

(***************************************************************************)
(* The server's state stays what it is said to be, a mutation has at most  *)
(* two operations still to be appended, and nothing but one piece of a     *)
(* write is behind the last newline of journal.jsonl.                      *)
(***************************************************************************)
THEOREM TypeCorrect == Spec => []TypeOK
  BY Invariance, PTL DEF IInv

(***************************************************************************)
(* load_persistent_state brings back exactly the store that was in memory, *)
(* with its addresses and /24s, as long as no append failed, no server was *)
(* killed between the two operations of a mutation, nor between the        *)
(* snapshot and the truncation of the journal.                             *)
(***************************************************************************)
THEOREM ReplaysExactly == Spec => []ReplayExact
<1>1. IInv => ReplayExact
  BY DEF IInv, ExactOK, ReplayExact
<1> QED
  BY <1>1, Invariance, PTL

(***************************************************************************)
(* Without a failed append, no kill at whatever point of a write leaves a  *)
(* journal that load_journal_ops refuses: a release build boots.  A debug  *)
(* build panics in apply_one's assertion only after a kill that left half  *)
(* a mutation, or a snapshot with the journal it was made from: as long as *)
(* neither happened, replay hands out the addresses that were journaled.   *)
(***************************************************************************)
THEOREM AlwaysBoots == Spec => []KilledServerBoots
<1>1. IInv => KilledServerBoots
  BY DEF IInv, FileOK, AgreeOK, KilledServerBoots
<1> QED
  BY <1>1, Invariance, PTL

(***************************************************************************)
(* Without a failed append, a terminal state that was acknowledged to an   *)
(* agent is in every store that is ever served after it: also when a       *)
(* journal is replayed onto a snapshot that has its operations already.    *)
(***************************************************************************)
THEOREM ReportsAreFinal == Spec => []AckedFinal
<1>1. IInv => AckedFinal
  BY DEF IInv, StatesOK, AckedFinal
<1> QED
  BY <1>1, Invariance, PTL
=============================================================================
