------------------------- MODULE ControlPlaneProofs -------------------------
(***************************************************************************)
(* Every operation of the control plane takes a store that is OK to a      *)
(* store that is OK, and leaves the state of terminal tasks alone.         *)
(***************************************************************************)
EXTENDS ControlPlane, FiniteSetTheorems, WellFoundedInduction, TLAPS

-----------------------------------------------------------------------------
(* What the operators of Ipam do to a well-typed ipam whose octets and      *)
(* addresses are distinct                                                   *)

(***************************************************************************)
(* A set of octets with a member has a least one: the search of find(..)   *)
(* over a range succeeds exactly when some octet qualifies.                *)
(***************************************************************************)
LEMMA LeastInSet ==
    ASSUME NEW S \in SUBSET Nat, S # {}
    PROVE  Least(S) \in S /\ \A y \in S : Least(S) =< y
<1> DEFINE R == { ss \in Nat \X Nat : ss[1] < ss[2] }
<1>1. IsWellFoundedOn(R, Nat)
  BY NatLessThanWellFounded DEF OpToRel
<1> HIDE DEF R
<1>2. PICK x \in S : \A y \in S : <<y, x>> \notin R
  BY <1>1, WFMin
<1>3. \A y \in S : x =< y
  <2>1. \A y \in S : y \in Nat /\ x \in Nat
    OBVIOUS
  <2>2. \A y \in S : ~(y < x)
    BY <1>2, <2>1 DEF R
  <2> QED
    BY <2>1, <2>2
<1>4. \E z \in S : \A y \in S : z =< y
  BY <1>3
<1> QED
  BY <1>4 DEF Least

(***************************************************************************)
(* subnet_octet gives the node an octet no other node has, keeps every     *)
(* octet given before, and touches no address.                             *)
(***************************************************************************)
LEMMA SubnetOctetSpec ==
    ASSUME NEW ipam \in Ipams, OctetsDistinct(ipam), NEW n \in Nodes
    PROVE  LET with == SubnetOctet(ipam, n) IN
             /\ with \in Ipams
             /\ OctetsDistinct(with)
             /\ with.ip = ipam.ip
             /\ \A m \in Nodes : ipam.subnet[m] # None => with.subnet[m] = ipam.subnet[m]
<1> DEFINE with == SubnetOctet(ipam, n)
<1>1. CASE with = ipam
  BY <1>1
<1>2. CASE ipam.subnet[n] = None /\ FreeOctets(ipam) # {}
  <2> DEFINE z == Least(FreeOctets(ipam))
  <2>1. FreeOctets(ipam) \in SUBSET Octets /\ Octets \in SUBSET Nat
    BY OctetAssumption DEF FreeOctets, Octets
  <2>2. z \in FreeOctets(ipam)
    BY <1>2, <2>1, LeastInSet
  <2>3. z \in Octets /\ z # None /\ \A m \in Nodes : ipam.subnet[m] # z
    BY <2>1, <2>2, NoneAssumption DEF FreeOctets
  <2> HIDE DEF z
  <2>4. with = [ipam EXCEPT !.subnet[n] = z]
    BY <1>2 DEF SubnetOctet, z
  <2>5. with \in Ipams /\ with.ip = ipam.ip
    BY <2>3, <2>4 DEF Ipams
  <2>6. \A m \in Nodes : with.subnet[m] = IF m = n THEN z ELSE ipam.subnet[m]
    BY <2>4 DEF Ipams
  <2>7. OctetsDistinct(with)
    BY <2>3, <2>6 DEF OctetsDistinct
  <2> QED
    BY <1>2, <2>5, <2>6, <2>7
<1> QED
  BY <1>1, <1>2 DEF SubnetOctet

(***************************************************************************)
(* allocate, for a task without an address, gives it none or one that no   *)
(* task has, in the /24 of the node; every other task keeps its address    *)
(* and every node its octet.                                               *)
(***************************************************************************)
LEMMA AllocateSpec ==
    ASSUME NEW ipam \in Ipams, OctetsDistinct(ipam), HeldDistinct(ipam),
           NEW n \in Nodes, NEW t \in Tasks, ipam.ip[t] = None
    PROVE  LET after == Allocate(ipam, n, t) IN
             /\ after \in Ipams
             /\ OctetsDistinct(after)
             /\ HeldDistinct(after)
             /\ \A u \in Tasks \ {t} : after.ip[u] = ipam.ip[u]
             /\ \A m \in Nodes : ipam.subnet[m] # None => after.subnet[m] = ipam.subnet[m]
             /\ after.ip[t] # None =>
                   after.subnet[n] # None /\ after.ip[t][1] = after.subnet[n]
<1> DEFINE with  == SubnetOctet(ipam, n)
           z     == with.subnet[n]
           after == Allocate(ipam, n, t)
<1>1. /\ with \in Ipams
      /\ OctetsDistinct(with)
      /\ with.ip = ipam.ip
      /\ \A m \in Nodes : ipam.subnet[m] # None => with.subnet[m] = ipam.subnet[m]
  BY SubnetOctetSpec
<1>2. HeldDistinct(with)
  BY <1>1 DEF HeldDistinct
<1> HIDE DEF with
<1>3. CASE z = None \/ FreeHosts(with, z) = {}
  <2>1. after = with
    BY <1>3 DEF Allocate, with
  <2> QED
    BY <1>1, <1>2, <2>1
<1>4. CASE z # None /\ FreeHosts(with, z) # {}
  <2> DEFINE h == Least(FreeHosts(with, z))
  <2>1. FreeHosts(with, z) \in SUBSET HostOctets /\ HostOctets \in SUBSET Nat
    BY OctetAssumption DEF FreeHosts, HostOctets, FirstHost
  <2>2. h \in FreeHosts(with, z)
    BY <1>4, <2>1, LeastInSet
  <2>3. h \in HostOctets /\ \A u \in Tasks : with.ip[u] # <<z, h>>
    BY <2>1, <2>2 DEF FreeHosts
  <2> HIDE DEF h
  <2>4. after = [with EXCEPT !.ip[t] = <<z, h>>]
    BY <1>4 DEF Allocate, with, h
  <2>5. z \in Octets /\ <<z, h>> \in Addresses
    BY <1>1, <1>4, <2>3 DEF Ipams, Addresses
  <2>6. after \in Ipams /\ after.subnet = with.subnet
    BY <1>1, <2>4, <2>5 DEF Ipams
  <2>7. \A u \in Tasks : after.ip[u] = IF u = t THEN <<z, h>> ELSE with.ip[u]
    BY <1>1, <2>4 DEF Ipams
  <2>8. HeldDistinct(after)
    BY <1>2, <2>3, <2>7 DEF HeldDistinct
  <2>9. OctetsDistinct(after)
    BY <1>1, <2>6 DEF OctetsDistinct
  <2>10. after.ip[t][1] = z
    BY <2>7
  <2> HIDE DEF after, z
  <2> QED
    BY <1>1, <1>4, <2>6, <2>7, <2>8, <2>9, <2>10 DEF z, after
<1> QED
  BY <1>3, <1>4

(***************************************************************************)
(* release takes the address of one task and nothing else.                 *)
(***************************************************************************)
LEMMA ReleaseSpec ==
    ASSUME NEW ipam \in Ipams, HeldDistinct(ipam), NEW t \in Tasks
    PROVE  LET after == Release(ipam, t) IN
             /\ after \in Ipams
             /\ after.subnet = ipam.subnet
             /\ \A u \in Tasks : after.ip[u] = IF u = t THEN None ELSE ipam.ip[u]
             /\ HeldDistinct(after)
<1>1. Release(ipam, t).subnet = ipam.subnet /\ Release(ipam, t) \in Ipams
  BY DEF Release, Ipams
<1>2. \A u \in Tasks : Release(ipam, t).ip[u] = IF u = t THEN None ELSE ipam.ip[u]
  BY DEF Release, Ipams
<1>3. HeldDistinct(Release(ipam, t))
  BY <1>2 DEF HeldDistinct
<1> QED
  BY <1>1, <1>2, <1>3

-----------------------------------------------------------------------------
(* The operations *)

\* After an operation: the store is OK, and terminal tasks are as they were
Sound(db, after) ==
    /\ StoreOK(after)
    /\ \A t \in Tasks : IsTerminal(db, t) => after.state[t] = db.state[t]

\* None is neither an octet nor an address
LEMMA NoneIsNoOctet == None \notin Octets /\ None \notin Addresses
  BY OctetAssumption, NoneAssumption DEF Octets, Addresses, HostOctets, FirstHost

\* A new store is OK
LEMMA EmptyStoreOK == StoreOK(EmptyStore)
<1>1. EmptyStore \in Stores
  BY DEF EmptyStore, Stores, TaskStates, EmptyIpam, Ipams
<1>2. OctetsDistinct(EmptyStore.ipam) /\ HeldDistinct(EmptyStore.ipam)
  BY DEF EmptyStore, EmptyIpam, OctetsDistinct, HeldDistinct
<1>3. \A t \in Tasks : ~Addressed(EmptyStore, t)
  BY DEF EmptyStore, Addressed, IsLive, Live
<1>4. Accounted(EmptyStore)
  BY <1>3 DEF Accounted, EmptyStore, EmptyIpam
<1>5. OnItsNode(EmptyStore)
  BY <1>3 DEF OnItsNode
<1> QED
  BY <1>1, <1>2, <1>4, <1>5 DEF StoreOK, UnplacedBare, EmptyStore

\* A job adds tasks that are pending and have no address
LEMMA CreateJobSound ==
    ASSUME NEW db, StoreOK(db), NEW job \in SUBSET Tasks,
           \A t \in job : db.state[t] = "absent"
    PROVE  Sound(db, CreateJob(db, job))
<1> DEFINE after == CreateJob(db, job)
<1>1. db \in Stores
  BY DEF StoreOK
<1>2. /\ after \in Stores
      /\ after.node = db.node /\ after.net = db.net /\ after.nodes = db.nodes
      /\ after.alive = db.alive /\ after.ipam = db.ipam
  BY <1>1 DEF CreateJob, Stores, TaskStates
<1>3. \A t \in Tasks : after.state[t] = IF t \in job THEN "pending" ELSE db.state[t]
  BY <1>1 DEF CreateJob, Stores
<1> HIDE DEF after
<1>4. \A t \in Tasks : Addressed(after, t) <=> Addressed(db, t)
  BY <1>2, <1>3 DEF Addressed, IsLive, Live
<1>5. UnplacedBare(after)
  BY <1>2, <1>3 DEF UnplacedBare, StoreOK
<1>6. Accounted(after) /\ OnItsNode(after)
  BY <1>2, <1>4 DEF Accounted, OnItsNode, StoreOK
<1>7. StoreOK(after)
  BY <1>2, <1>5, <1>6 DEF StoreOK
<1>8. \A t \in Tasks : IsTerminal(db, t) => after.state[t] = db.state[t]
  BY <1>3 DEF IsTerminal, Terminal
<1> QED
  BY <1>7, <1>8 DEF Sound, after

(***************************************************************************)
(* register_node, heartbeat and the clock change only who is known and who *)
(* is alive, and never forget a node.                                      *)
(***************************************************************************)
LEMMA LivenessSound ==
    ASSUME NEW db, StoreOK(db), NEW after \in Stores,
           after.state = db.state, after.node = db.node, after.net = db.net,
           after.ipam = db.ipam,
           db.nodes \subseteq after.nodes, after.alive \subseteq after.nodes
    PROVE  Sound(db, after)
<1>1. \A t \in Tasks : Addressed(after, t) <=> Addressed(db, t)
  BY DEF Addressed, IsLive
<1>2. UnplacedBare(after) /\ Accounted(after) /\ OnItsNode(after)
  BY <1>1 DEF UnplacedBare, Accounted, OnItsNode, StoreOK
<1> QED
  BY <1>2 DEF Sound, StoreOK

LEMMA RegisterNodeSound ==
    ASSUME NEW db, StoreOK(db), NEW n \in Nodes
    PROVE  Sound(db, RegisterNode(db, n))
<1> DEFINE after == RegisterNode(db, n)
<1>1. /\ after \in Stores
      /\ after.state = db.state /\ after.node = db.node /\ after.net = db.net
      /\ after.ipam = db.ipam
      /\ after.nodes = db.nodes \cup {n} /\ after.alive = db.alive \cup {n}
  BY DEF RegisterNode, StoreOK, Stores
<1> QED
  BY <1>1, LivenessSound DEF StoreOK

LEMMA HeartbeatSound ==
    ASSUME NEW db, StoreOK(db), NEW n \in Nodes
    PROVE  Sound(db, Heartbeat(db, n))
<1> DEFINE after == Heartbeat(db, n)
<1>1. /\ after \in Stores
      /\ after.state = db.state /\ after.node = db.node /\ after.net = db.net
      /\ after.ipam = db.ipam /\ after.nodes = db.nodes
      /\ after.alive \subseteq db.nodes
  BY DEF Heartbeat, StoreOK, Stores
<1> QED
  BY <1>1, LivenessSound DEF StoreOK

LEMMA LapseSound ==
    ASSUME NEW db, StoreOK(db), NEW n \in Nodes
    PROVE  Sound(db, Lapse(db, n))
<1> DEFINE after == Lapse(db, n)
<1>1. /\ after \in Stores
      /\ after.state = db.state /\ after.node = db.node /\ after.net = db.net
      /\ after.ipam = db.ipam /\ after.nodes = db.nodes
      /\ after.alive \subseteq db.nodes
  BY DEF Lapse, StoreOK, Stores
<1> QED
  BY <1>1, LivenessSound DEF StoreOK

(***************************************************************************)
(* set_task_state, from whoever it comes and however late it is.           *)
(***************************************************************************)
LEMMA SetTaskStateSound ==
    ASSUME NEW db, StoreOK(db), NEW t \in Tasks, NEW s \in {"running"} \cup Terminal
    PROVE  Sound(db, SetTaskState(db, t, s))
<1> DEFINE after == SetTaskState(db, t, s)
<1>1. CASE Refused(db, t)
  BY <1>1 DEF SetTaskState, Sound
<1>2. CASE ~Refused(db, t)
  <2> DEFINE ipam == IF s \in Terminal THEN Release(db.ipam, t) ELSE db.ipam
  <2>1. db \in Stores /\ db.ipam \in Ipams /\ HeldDistinct(db.ipam) /\ OctetsDistinct(db.ipam)
    BY DEF StoreOK, Stores
  <2>2. /\ ipam \in Ipams /\ ipam.subnet = db.ipam.subnet /\ HeldDistinct(ipam)
        /\ \A u \in Tasks : ipam.ip[u] = IF u = t /\ s \in Terminal THEN None
                                                               ELSE db.ipam.ip[u]
    BY <2>1, ReleaseSpec
  <2> HIDE DEF ipam
  <2>3. after = [db EXCEPT !.state[t] = s, !.ipam = ipam]
    BY <1>2 DEF SetTaskState, ipam
  <2>4. s \in TaskStates
    BY DEF TaskStates, Live, Terminal
  <2>5. /\ after \in Stores
        /\ after.node = db.node /\ after.net = db.net /\ after.nodes = db.nodes
        /\ after.alive = db.alive /\ after.ipam = ipam
    <3>1. after = [state |-> [db.state EXCEPT ![t] = s], node |-> db.node, net |-> db.net,
                   nodes |-> db.nodes, alive |-> db.alive, ipam |-> ipam]
      BY <2>1, <2>3 DEF Stores
    <3>2. [db.state EXCEPT ![t] = s] \in [Tasks -> TaskStates]
      BY <2>1, <2>4 DEF Stores
    <3> QED
      BY <2>1, <2>2, <3>1, <3>2 DEF Stores
  <2>6. \A u \in Tasks : after.state[u] = IF u = t THEN s ELSE db.state[u]
    BY <2>1, <2>3 DEF Stores
  <2> HIDE DEF after
  <2>7. \A u \in Tasks : Addressed(after, u) <=> Addressed(db, u) /\ ~(u = t /\ s \in Terminal)
    <3>1. ASSUME NEW u \in Tasks, u # t
          PROVE  Addressed(after, u) <=> Addressed(db, u)
      BY <2>5, <2>6, <3>1 DEF Addressed, IsLive
    <3>2. CASE s \in Terminal
      BY <2>6, <3>1, <3>2 DEF Addressed, IsLive, Live, Terminal
    <3>3. CASE s = "running"
      <4>1. db.state[t] \in {"pending", "assigned", "running"}
        BY <1>2, <2>1 DEF Refused, IsTerminal, Stores, TaskStates, Live, Terminal
      <4>2. Addressed(after, t) <=> db.net[t] # None
        BY <2>5, <2>6, <3>3 DEF Addressed, IsLive, Live
      <4>3. Addressed(db, t) <=> db.net[t] # None
        BY <4>1 DEF StoreOK, UnplacedBare, Addressed, IsLive, Live
      <4>4. s \notin Terminal
        BY <3>3 DEF Terminal
      <4> QED
        BY <3>1, <4>2, <4>3, <4>4
    <3> QED
      BY <3>2, <3>3
  <2>8. UnplacedBare(after)
    BY <2>5, <2>6 DEF UnplacedBare, StoreOK, Terminal
  <2>9. Accounted(after)
    BY <2>2, <2>5, <2>7 DEF Accounted, StoreOK
  <2>10. OnItsNode(after)
    <3>1. ASSUME NEW n PROVE GatewayFor(ipam, n) = GatewayFor(db.ipam, n)
      BY <2>2 DEF GatewayFor
    <3> QED
      BY <2>2, <2>5, <2>7, <3>1 DEF OnItsNode, StoreOK
  <2>11. OctetsDistinct(ipam)
    BY <2>1, <2>2 DEF OctetsDistinct
  <2>12. StoreOK(after)
    BY <2>2, <2>5, <2>8, <2>9, <2>10, <2>11 DEF StoreOK
  <2>13. \A u \in Tasks : IsTerminal(db, u) => after.state[u] = db.state[u]
    BY <1>2, <2>6 DEF Refused
  <2> QED
    BY <2>12, <2>13 DEF Sound, after
<1> QED
  BY <1>1, <1>2

(***************************************************************************)
(* requeue_dead_nodes, one orphan: the address goes back to the pool in    *)
(* the same step that takes it from the task.                              *)
(***************************************************************************)
LEMMA RequeueSound ==
    ASSUME NEW db, StoreOK(db), NEW t \in Orphans(db)
    PROVE  Sound(db, Requeue(db, t))
<1> DEFINE after == Requeue(db, t)
           ipam  == Release(db.ipam, t)
<1>1. db \in Stores /\ db.ipam \in Ipams /\ HeldDistinct(db.ipam) /\ OctetsDistinct(db.ipam)
  BY DEF StoreOK, Stores
<1>2. t \in Tasks /\ IsLive(db, t)
  BY DEF Orphans
<1>3. /\ ipam \in Ipams /\ ipam.subnet = db.ipam.subnet /\ HeldDistinct(ipam)
      /\ \A u \in Tasks : ipam.ip[u] = IF u = t THEN None ELSE db.ipam.ip[u]
  BY <1>1, <1>2, ReleaseSpec
<1> HIDE DEF ipam
<1>4. after = [db EXCEPT !.state[t] = "pending", !.node[t] = None, !.net[t] = None,
                         !.ipam = ipam]
  BY DEF Requeue, ipam
<1>5. /\ after \in Stores
      /\ after.nodes = db.nodes /\ after.alive = db.alive /\ after.ipam = ipam
  <2> DEFINE state == [db.state EXCEPT ![t] = "pending"]
             node  == [db.node EXCEPT ![t] = None]
             net   == [db.net EXCEPT ![t] = None]
  <2>1. after = [state |-> state, node |-> node, net |-> net,
                 nodes |-> db.nodes, alive |-> db.alive, ipam |-> ipam]
    BY <1>1, <1>4 DEF Stores
  <2>2. /\ state \in [Tasks -> TaskStates]
        /\ node \in [Tasks -> Nodes \cup {None}]
        /\ net \in [Tasks -> Networks \cup {None}]
    BY <1>1, <1>2 DEF Stores, TaskStates
  <2> QED
    BY <1>1, <1>3, <2>1, <2>2 DEF Stores
<1>6. \A u \in Tasks : /\ after.state[u] = IF u = t THEN "pending" ELSE db.state[u]
                       /\ after.node[u] = IF u = t THEN None ELSE db.node[u]
                       /\ after.net[u] = IF u = t THEN None ELSE db.net[u]
  BY <1>1, <1>2, <1>4 DEF Stores
<1> HIDE DEF after
<1>7. \A u \in Tasks : Addressed(after, u) <=> u # t /\ Addressed(db, u)
  BY <1>6 DEF Addressed, IsLive
<1>8. UnplacedBare(after)
  BY <1>6 DEF UnplacedBare, StoreOK
<1>9. Accounted(after)
  BY <1>3, <1>5, <1>6, <1>7 DEF Accounted, StoreOK
<1>10. OnItsNode(after)
  <2>1. ASSUME NEW n PROVE GatewayFor(ipam, n) = GatewayFor(db.ipam, n)
    BY <1>3 DEF GatewayFor
  <2> QED
    BY <1>3, <1>5, <1>6, <1>7, <2>1 DEF OnItsNode, StoreOK
<1>11. OctetsDistinct(ipam)
  BY <1>1, <1>3 DEF OctetsDistinct
<1>12. StoreOK(after)
  BY <1>3, <1>5, <1>8, <1>9, <1>10, <1>11 DEF StoreOK
<1>13. \A u \in Tasks : IsTerminal(db, u) => after.state[u] = db.state[u]
  BY <1>2, <1>6 DEF IsTerminal, IsLive, Live, Terminal
<1> QED
  BY <1>12, <1>13 DEF Sound, after

(***************************************************************************)
(* A node that has an octet keeps it when the IPAM grows, so an addressed  *)
(* task stays in its node's /24.                                           *)
(***************************************************************************)
LEMMA OctetsKept ==
    ASSUME NEW db, StoreOK(db), NEW ipam \in Ipams,
           \A m \in Nodes : db.ipam.subnet[m] # None => ipam.subnet[m] = db.ipam.subnet[m],
           NEW u \in Tasks, Addressed(db, u)
    PROVE  /\ db.node[u] \in db.nodes
           /\ db.net[u].ip[1] = ipam.subnet[db.node[u]]
           /\ db.net[u].gateway = GatewayFor(ipam, db.node[u])
<1>1. db \in Stores
  BY DEF StoreOK
<1>2. db.node[u] \in db.nodes /\ db.node[u] \in Nodes
  BY <1>1 DEF StoreOK, OnItsNode, Stores
<1>3. db.net[u].ip \in Octets \X HostOctets
  BY <1>1 DEF Addressed, Stores, Networks, Addresses
<1>4. db.ipam.subnet[db.node[u]] # None
  BY <1>3, NoneIsNoOctet DEF StoreOK, OnItsNode
<1>5. ipam.subnet[db.node[u]] = db.ipam.subnet[db.node[u]]
  BY <1>2, <1>4
<1> QED
  BY <1>2, <1>5 DEF StoreOK, OnItsNode, GatewayFor

\* What Assign changes
LEMMA AssignSpec ==
    ASSUME NEW db \in Stores, NEW t \in Tasks, NEW n \in Nodes,
           NEW network \in Networks \cup {None}
    PROVE  LET after == Assign(db, t, n, network) IN
             /\ after \in Stores
             /\ after.nodes = db.nodes /\ after.alive = db.alive /\ after.ipam = db.ipam
             /\ \A u \in Tasks :
                   /\ after.state[u] = IF u = t THEN "assigned" ELSE db.state[u]
                   /\ after.node[u] = IF u = t THEN n ELSE db.node[u]
                   /\ after.net[u] = IF u = t THEN network ELSE db.net[u]
<1> DEFINE after == Assign(db, t, n, network)
           state == [db.state EXCEPT ![t] = "assigned"]
           node  == [db.node EXCEPT ![t] = n]
           net   == [db.net EXCEPT ![t] = network]
<1>1. /\ state \in [Tasks -> TaskStates]
      /\ node \in [Tasks -> Nodes \cup {None}]
      /\ net \in [Tasks -> Networks \cup {None}]
  BY DEF Stores, TaskStates, Live
<1>2. \A u \in Tasks : /\ state[u] = IF u = t THEN "assigned" ELSE db.state[u]
                       /\ node[u] = IF u = t THEN n ELSE db.node[u]
                       /\ net[u] = IF u = t THEN network ELSE db.net[u]
  BY DEF Stores
<1>3. after = [[[db EXCEPT !.state = state] EXCEPT !.node = node] EXCEPT !.net = net]
  BY DEF Assign, Stores
<1> HIDE DEF after, state, node, net
<1>4. /\ after \in Stores
      /\ after.state = state /\ after.node = node /\ after.net = net
      /\ after.nodes = db.nodes /\ after.alive = db.alive /\ after.ipam = db.ipam
  BY <1>1, <1>3 DEF Stores
<1> QED
  BY <1>2, <1>4 DEF after

\* A placement without an address
LEMMA BarePlacementSound ==
    ASSUME NEW db, StoreOK(db), NEW t \in Tasks, db.state[t] = "pending",
           NEW n \in db.nodes
    PROVE  Sound(db, Assign(db, t, n, None))
<1> DEFINE after == Assign(db, t, n, None)
<1>1. db \in Stores /\ n \in Nodes
  BY DEF StoreOK, Stores
<1>4. /\ after \in Stores
      /\ after.nodes = db.nodes /\ after.alive = db.alive /\ after.ipam = db.ipam
  BY <1>1, AssignSpec
<1>5. \A u \in Tasks : /\ after.state[u] = IF u = t THEN "assigned" ELSE db.state[u]
                       /\ after.node[u] = IF u = t THEN n ELSE db.node[u]
                       /\ after.net[u] = IF u = t THEN None ELSE db.net[u]
  BY <1>1, AssignSpec
<1> HIDE DEF after
<1>6. \A u \in Tasks : Addressed(after, u) <=> Addressed(db, u)
  BY <1>5 DEF Addressed, IsLive, Live
<1>7. \A u \in Tasks : Addressed(after, u) => u # t
  BY <1>5 DEF Addressed
<1>8. UnplacedBare(after) /\ Accounted(after) /\ OnItsNode(after)
  BY <1>4, <1>5, <1>6, <1>7 DEF UnplacedBare, Accounted, OnItsNode, StoreOK
<1>9. \A u \in Tasks : IsTerminal(db, u) => after.state[u] = db.state[u]
  BY <1>5 DEF IsTerminal, Terminal
<1> QED
  BY <1>4, <1>8, <1>9 DEF Sound, StoreOK, after

(***************************************************************************)
(* place_pending, one task of the list, which is pending: it is assigned   *)
(* with an address nobody has, in the /24 of its node, or it stays as it   *)
(* is.  The rollback for a node without a gateway is never taken.          *)
(***************************************************************************)
LEMMA PlaceSound ==
    ASSUME NEW db, StoreOK(db), NEW t \in Tasks, db.state[t] = "pending",
           NEW n \in db.alive
    PROVE  /\ Sound(db, Place(db, t, n))
           /\ \A u \in Tasks \ {t} : Place(db, t, n).state[u] = db.state[u]
<1> DEFINE after == Place(db, t, n)
           ipam  == Allocate(db.ipam, n, t)
<1>1. /\ db \in Stores /\ n \in Nodes /\ n \in db.nodes
      /\ db.ipam \in Ipams /\ OctetsDistinct(db.ipam) /\ HeldDistinct(db.ipam)
  BY DEF StoreOK, Stores
<1>2. ~Addressed(db, t) /\ db.ipam.ip[t] = None
  BY DEF StoreOK, Accounted, Addressed, IsLive, Live
<1>3. /\ ipam \in Ipams /\ OctetsDistinct(ipam) /\ HeldDistinct(ipam)
      /\ \A u \in Tasks \ {t} : ipam.ip[u] = db.ipam.ip[u]
      /\ \A m \in Nodes : db.ipam.subnet[m] # None => ipam.subnet[m] = db.ipam.subnet[m]
      /\ ipam.ip[t] # None => ipam.subnet[n] # None /\ ipam.ip[t][1] = ipam.subnet[n]
  BY <1>1, <1>2, AllocateSpec
<1> HIDE DEF ipam
<1>4. CASE t \notin Networked
  <2>1. after = Assign(db, t, n, None)
    BY <1>4 DEF Place
  <2>2. \A u \in Tasks \ {t} : after.state[u] = db.state[u]
    BY <1>1, <2>1 DEF Assign, Stores
  <2> QED
    BY <1>1, <2>1, <2>2, BarePlacementSound
<1>5. CASE t \in Networked /\ ipam.ip[t] = None
  <2>1. after = [db EXCEPT !.ipam = ipam]
    BY <1>5 DEF Place, ipam
  <2>2. /\ after \in Stores /\ after.state = db.state /\ after.node = db.node
        /\ after.net = db.net /\ after.nodes = db.nodes /\ after.alive = db.alive
        /\ after.ipam = ipam
    BY <1>1, <1>3, <2>1 DEF Stores
  <2> HIDE DEF after
  <2>3. \A u \in Tasks : Addressed(after, u) <=> Addressed(db, u)
    BY <2>2 DEF Addressed, IsLive
  <2>4. Accounted(after)
    BY <1>2, <1>3, <1>5, <2>2, <2>3 DEF Accounted, StoreOK
  <2>5. OnItsNode(after)
    BY <1>3, <2>2, <2>3, OctetsKept DEF OnItsNode
  <2>6. StoreOK(after)
    BY <1>3, <2>2, <2>4, <2>5 DEF StoreOK, UnplacedBare
  <2> QED
    BY <2>2, <2>6 DEF Sound, after
<1>6. CASE t \in Networked /\ ipam.ip[t] # None
  <2> DEFINE network == [ip |-> ipam.ip[t], gateway |-> <<ipam.subnet[n], 1>>]
             grown == [db EXCEPT !.ipam = ipam]
  <2>1. GatewayFor(ipam, n) = <<ipam.subnet[n], 1>> /\ GatewayFor(ipam, n) # None
    BY <1>1, <1>3, <1>6, NoneAssumption, OctetAssumption DEF GatewayFor, Ipams, Octets
  <2>2. network \in Networks /\ network # None
    BY <1>1, <1>3, <1>6, NoNetworkAssumption DEF Networks, Ipams
  <2>3. after = Assign(grown, t, n, network)
    BY <1>6, <2>1 DEF Place, ipam
  <2> HIDE DEF network
  <2>4. /\ grown \in Stores
        /\ grown.state = db.state /\ grown.node = db.node /\ grown.net = db.net
        /\ grown.nodes = db.nodes /\ grown.alive = db.alive /\ grown.ipam = ipam
    BY <1>1, <1>3 DEF Stores
  <2> HIDE DEF after, grown
  <2>6. /\ after \in Stores
        /\ after.nodes = db.nodes /\ after.alive = db.alive /\ after.ipam = ipam
    BY <1>1, <2>2, <2>3, <2>4, AssignSpec
  <2>7. \A u \in Tasks : /\ after.state[u] = IF u = t THEN "assigned" ELSE db.state[u]
                         /\ after.node[u] = IF u = t THEN n ELSE db.node[u]
                         /\ after.net[u] = IF u = t THEN network ELSE db.net[u]
    BY <1>1, <2>2, <2>3, <2>4, AssignSpec
  <2>8. \A u \in Tasks : Addressed(after, u) <=> u = t \/ Addressed(db, u)
    BY <2>2, <2>7 DEF Addressed, IsLive, Live
  <2>9. network.ip = ipam.ip[t] /\ network.gateway = GatewayFor(ipam, n)
    BY <2>1 DEF network
  <2>10. UnplacedBare(after)
    BY <2>7 DEF UnplacedBare, StoreOK
  <2>11. Accounted(after)
    <3>1. ASSUME NEW u \in Tasks, u # t
          PROVE  ipam.ip[u] = IF Addressed(after, u) THEN after.net[u].ip ELSE None
      BY <1>3, <2>7, <2>8, <3>1 DEF Accounted, StoreOK
    <3>2. Addressed(after, t) /\ after.net[t].ip = ipam.ip[t]
      BY <2>7, <2>8, <2>9
    <3> QED
      BY <2>6, <3>1, <3>2 DEF Accounted
  <2>12. OnItsNode(after)
    <3>1. ASSUME NEW u \in Tasks, u # t, Addressed(after, u)
          PROVE  /\ after.node[u] \in after.nodes
                 /\ after.net[u].ip[1] = ipam.subnet[after.node[u]]
                 /\ after.net[u].gateway = GatewayFor(ipam, after.node[u])
      BY <1>3, <2>6, <2>7, <2>8, <3>1, OctetsKept
    <3>2. /\ after.node[t] \in after.nodes
          /\ after.net[t].ip[1] = ipam.subnet[after.node[t]]
          /\ after.net[t].gateway = GatewayFor(ipam, after.node[t])
      BY <1>1, <1>3, <1>6, <2>6, <2>7, <2>9
    <3> QED
      BY <2>6, <3>1, <3>2 DEF OnItsNode
  <2>13. StoreOK(after)
    BY <1>3, <2>6, <2>10, <2>11, <2>12 DEF StoreOK
  <2>14. \A u \in Tasks : IsTerminal(db, u) => after.state[u] = db.state[u]
    BY <2>7 DEF IsTerminal, Terminal
  <2> QED
    BY <2>7, <2>13, <2>14 DEF Sound, after
<1> QED
  BY <1>4, <1>5, <1>6

-----------------------------------------------------------------------------
(***************************************************************************)
(* What an operation does to who is where.                                 *)
(***************************************************************************)
LEMMA PlaceShape ==
    ASSUME NEW s \in Stores, NEW t \in Tasks, NEW n \in Nodes
    PROVE  LET after == Place(s, t, n) IN
             /\ after.nodes = s.nodes /\ after.alive = s.alive
             /\ \/ after.state = s.state /\ after.node = s.node
                \/ \A u \in Tasks :
                      /\ after.state[u] = IF u = t THEN "assigned" ELSE s.state[u]
                      /\ after.node[u] = IF u = t THEN n ELSE s.node[u]
<1> DEFINE after == Place(s, t, n)
<1>1. /\ after.nodes = s.nodes /\ after.alive = s.alive
      /\ \/ after.state = s.state /\ after.node = s.node
         \/ /\ after.state = [s.state EXCEPT ![t] = "assigned"]
            /\ after.node = [s.node EXCEPT ![t] = n]
  BY DEF Place, Assign, Stores
<1> HIDE DEF after
<1> QED
  BY <1>1 DEF Stores, after

LEMMA RequeueShape ==
    ASSUME NEW s \in Stores, NEW t \in Tasks
    PROVE  LET after == Requeue(s, t) IN
             /\ after.nodes = s.nodes /\ after.alive = s.alive
             /\ \A u \in Tasks :
                   /\ after.state[u] = IF u = t THEN "pending" ELSE s.state[u]
                   /\ after.node[u] = IF u = t THEN None ELSE s.node[u]
<1> DEFINE after == Requeue(s, t)
<1>1. /\ after.nodes = s.nodes /\ after.alive = s.alive
      /\ after.state = [s.state EXCEPT ![t] = "pending"]
      /\ after.node = [s.node EXCEPT ![t] = None]
  BY DEF Requeue, Stores
<1> HIDE DEF after
<1> QED
  BY <1>1 DEF Stores, after

LEMMA SetTaskStateShape ==
    ASSUME NEW s \in Stores, NEW t \in Tasks, NEW st
    PROVE  LET after == SetTaskState(s, t, st) IN
             /\ after.nodes = s.nodes /\ after.alive = s.alive /\ after.node = s.node
             /\ \A u \in Tasks :
                   after.state[u] = IF u = t /\ ~Refused(s, t) THEN st ELSE s.state[u]
<1> DEFINE after == SetTaskState(s, t, st)
<1>1. /\ after.nodes = s.nodes /\ after.alive = s.alive /\ after.node = s.node
      /\ after.state = IF Refused(s, t) THEN s.state ELSE [s.state EXCEPT ![t] = st]
  BY DEF SetTaskState, Stores
<1> HIDE DEF after
<1> QED
  BY <1>1 DEF Stores, after

LEMMA CreateJobShape ==
    ASSUME NEW s \in Stores, NEW job \in SUBSET Tasks
    PROVE  LET after == CreateJob(s, job) IN
             /\ after.nodes = s.nodes /\ after.alive = s.alive /\ after.node = s.node
             /\ \A u \in Tasks :
                   after.state[u] = IF u \in job THEN "pending" ELSE s.state[u]
<1> DEFINE after == CreateJob(s, job)
<1>1. /\ after.nodes = s.nodes /\ after.alive = s.alive /\ after.node = s.node
      /\ after.state = [t \in Tasks |-> IF t \in job THEN "pending" ELSE s.state[t]]
  BY DEF CreateJob, Stores
<1> HIDE DEF after
<1> QED
  BY <1>1 DEF after

LEMMA RegisterNodeShape ==
    ASSUME NEW s \in Stores, NEW n \in Nodes
    PROVE  LET after == RegisterNode(s, n) IN
             /\ after.state = s.state /\ after.node = s.node
             /\ after.nodes = s.nodes \cup {n} /\ after.alive = s.alive \cup {n}
  BY DEF RegisterNode, Stores

LEMMA HeartbeatShape ==
    ASSUME NEW s \in Stores, NEW n \in Nodes
    PROVE  LET after == Heartbeat(s, n) IN
             /\ after.state = s.state /\ after.node = s.node /\ after.nodes = s.nodes
             /\ after.alive = IF n \in s.nodes THEN s.alive \cup {n} ELSE s.alive
  BY DEF Heartbeat, Stores

LEMMA LapseShape ==
    ASSUME NEW s \in Stores, NEW n \in Nodes
    PROVE  LET after == Lapse(s, n) IN
             /\ after.state = s.state /\ after.node = s.node
             /\ after.nodes = s.nodes /\ after.alive = s.alive \ {n}
  BY DEF Lapse, Stores

-----------------------------------------------------------------------------
(* The sums of recount_used *)

(***************************************************************************)
(* A finite set of which something fails has a smallest subset of which it *)
(* fails. The sums are computed by induction on the set; this is what      *)
(* stands for it.                                                          *)
(***************************************************************************)
LEMMA MinimalSubset ==
    ASSUME NEW S, IsFiniteSet(S), NEW F, F \subseteq SUBSET S, F # {}
    PROVE  \E T \in F : \A U \in F : ~ (U \subseteq T /\ U # T)
<1>1. IsWellFoundedOn(StrictSubsetOrdering(S), FiniteSubsetsOf(S))
  BY FS_StrictSubsetOrderingWellFounded
<1>2. FiniteSubsetsOf(S) = SUBSET S
  BY FS_FiniteSubsetsOfFinite
<1>3. \E T \in F : \A U \in F : ~ (<<U, T>> \in StrictSubsetOrdering(S))
  BY <1>1, <1>2, WFMin
<1> QED
  BY <1>3 DEF StrictSubsetOrdering

\* The units that make up the quantities f[t] of the elements t of s
Units(f, s) == { u \in s \X Nat : 1 =< u[2] /\ u[2] =< f[u[1]] }

\* One more element brings its own units, and nobody else's
LEMMA UnitsAdd ==
    ASSUME NEW f, NEW s, NEW x \in s, f[x] \in Nat, IsFiniteSet(Units(f, s \ {x}))
    PROVE  /\ IsFiniteSet(Units(f, s))
           /\ Cardinality(Units(f, s)) = f[x] + Cardinality(Units(f, s \ {x}))
<1> DEFINE X == {x} \X (1 .. f[x])
           R == Units(f, s \ {x})
<1>1. IsFiniteSet(1 .. f[x]) /\ Cardinality(1 .. f[x]) = f[x]
  BY FS_Interval
<1>2. IsFiniteSet({x}) /\ Cardinality({x}) = 1
  BY FS_Singleton
<1>3. IsFiniteSet(X) /\ Cardinality(X) = f[x]
  <2>1. IsFiniteSet(X) /\ Cardinality(X) = Cardinality({x}) * Cardinality(1 .. f[x])
    BY <1>1, <1>2, FS_Product
  <2> QED
    BY <1>1, <1>2, <2>1
<1>4. Units(f, s) = R \cup X
  BY DEF Units
<1>5. R \cap X = {}
  BY DEF Units
<1>6. IsFiniteSet(R) /\ Cardinality(R) \in Nat
  BY FS_CardinalityType
<1> HIDE DEF R, X
<1>7. /\ IsFiniteSet(R \cup X)
      /\ Cardinality(R \cup X) = Cardinality(R) + Cardinality(X) - Cardinality(R \cap X)
  BY <1>3, <1>6, FS_Union
<1>8. Cardinality(R \cap X) = 0
  BY <1>5, FS_EmptySet, Zenon
<1>9. Cardinality(R \cup X) = f[x] + Cardinality(R)
  BY <1>3, <1>6, <1>7, <1>8
<1> QED
  BY <1>4, <1>7, <1>9, Zenon DEF R

\* A finite set has finitely many units
LEMMA UnitsFinite ==
    ASSUME NEW S, IsFiniteSet(S), NEW f, \A x \in S : f[x] \in Nat
    PROVE  \A s \in SUBSET S : IsFiniteSet(Units(f, s))
<1> DEFINE F == { s \in SUBSET S : ~IsFiniteSet(Units(f, s)) }
<1> SUFFICES ASSUME F # {} PROVE FALSE
  OBVIOUS
<1>1. F \subseteq SUBSET S
  OBVIOUS
<1> HIDE DEF F
<1>2. \E T \in F : \A U \in F : ~ (U \subseteq T /\ U # T)
  BY <1>1, MinimalSubset
<1>3. PICK T \in F : \A U \in F : ~ (U \subseteq T /\ U # T)
  BY <1>2
<1>4. T \in SUBSET S /\ ~IsFiniteSet(Units(f, T))
  BY <1>3 DEF F
<1>5. CASE T = {}
  BY <1>4, <1>5, FS_EmptySet DEF Units
<1>6. ASSUME NEW x \in T PROVE FALSE
  <2>1. T \ {x} \in SUBSET S /\ T \ {x} \notin F
    BY <1>3, <1>4
  <2>2. IsFiniteSet(Units(f, T \ {x}))
    BY <2>1 DEF F
  <2> QED
    BY <1>4, <2>2, UnitsAdd
<1> QED
  BY <1>5, <1>6

\* The recursion by which MapThenSumSet takes the sum
Adds(f, S, g) ==
    g = [s \in SUBSET S |->
            IF s = {} THEN 0
            ELSE f[CHOOSE x \in s : TRUE] + g[s \ {CHOOSE x \in s : TRUE}]]

\* Counting the units satisfies the equation of the sum
LEMMA CountAdds ==
    ASSUME NEW S, IsFiniteSet(S), NEW f, \A x \in S : f[x] \in Nat
    PROVE  Adds(f, S, [s \in SUBSET S |-> Cardinality(Units(f, s))])
<1> DEFINE count == [s \in SUBSET S |-> Cardinality(Units(f, s))]
<1>1. ASSUME NEW s \in SUBSET S
      PROVE  count[s] = IF s = {} THEN 0
                ELSE f[CHOOSE x \in s : TRUE] + count[s \ {CHOOSE x \in s : TRUE}]
  <2>1. CASE s = {}
    <3>1. Units(f, s) = {} /\ Cardinality({}) = 0
      BY <2>1, FS_EmptySet DEF Units
    <3> QED
      BY <2>1, <3>1, Zenon
  <2>2. CASE s # {}
    <3> DEFINE x == CHOOSE y \in s : TRUE
    <3>1. x \in s
      BY <2>2
    <3> HIDE DEF x
    <3>2. s \ {x} \in SUBSET S /\ f[x] \in Nat
      BY <3>1
    <3>3. IsFiniteSet(Units(f, s \ {x}))
      BY <3>2, UnitsFinite
    <3>4. Cardinality(Units(f, s)) = f[x] + Cardinality(Units(f, s \ {x}))
      BY <3>1, <3>2, <3>3, UnitsAdd
    <3> QED
      BY <2>2, <3>2, <3>4 DEF x
  <2> QED
    BY <2>1, <2>2
<1> QED
  BY <1>1 DEF Adds

\* ... and nothing else does: a sum is the number of its units
LEMMA AddsCounts ==
    ASSUME NEW S, IsFiniteSet(S), NEW f, \A x \in S : f[x] \in Nat, NEW g, Adds(f, S, g)
    PROVE  g[S] = Cardinality(Units(f, S))
<1> DEFINE count == [s \in SUBSET S |-> Cardinality(Units(f, s))]
           F == { s \in SUBSET S : g[s] # count[s] }
<1>1. Adds(f, S, count)
  BY CountAdds
<1> HIDE DEF count
<1> SUFFICES ASSUME F # {} PROVE FALSE
  BY DEF count
<1>2. F \subseteq SUBSET S
  OBVIOUS
<1> HIDE DEF F
<1>3. \E T \in F : \A U \in F : ~ (U \subseteq T /\ U # T)
  BY <1>2, MinimalSubset
<1>4. PICK T \in F : \A U \in F : ~ (U \subseteq T /\ U # T)
  BY <1>3
<1>5. T \in SUBSET S /\ g[T] # count[T]
  BY <1>4 DEF F
<1>6. T # {}
  BY <1>1, <1>5 DEF Adds
<1> DEFINE x == CHOOSE y \in T : TRUE
<1>7. x \in T
  BY <1>6
<1>8. g[T] = f[x] + g[T \ {x}] /\ count[T] = f[x] + count[T \ {x}]
  BY <1>1, <1>5, <1>6 DEF Adds
<1> HIDE DEF x
<1>9. T \ {x} \in SUBSET S /\ T \ {x} \notin F
  BY <1>4, <1>5, <1>7
<1>10. g[T \ {x}] = count[T \ {x}]
  BY <1>9 DEF F
<1> QED
  BY <1>5, <1>8, <1>10

Cpu == [t \in Tasks |-> Need[t].cpu]
Mem == [t \in Tasks |-> Need[t].mem]

\* What MapThenSumSet takes its sums from
CpuAdds(S, g) ==
    g = [s \in SUBSET S |->
            IF s = {} THEN 0
            ELSE Need[CHOOSE x \in s : TRUE].cpu + g[s \ {CHOOSE x \in s : TRUE}]]
MemAdds(S, g) ==
    g = [s \in SUBSET S |->
            IF s = {} THEN 0
            ELSE Need[CHOOSE x \in s : TRUE].mem + g[s \ {CHOOSE x \in s : TRUE}]]

\* What a task needs is a number of cores and a number of bytes
LEMMA NeedTypes ==
    \A t \in Tasks : Need[t] \in Resources /\ Cpu[t] \in Nat /\ Mem[t] \in Nat
  BY SpecAssumption DEF Resources, Cpu, Mem

\* What a set of tasks holds is the number of units they need
LEMMA HeldIsCount ==
    ASSUME NEW ts \in SUBSET Tasks, IsFiniteSet(ts)
    PROVE  Held(ts) = [cpu |-> Cardinality(Units(Cpu, ts)), mem |-> Cardinality(Units(Mem, ts))]
<1>1. Held(ts) = [cpu |-> (CHOOSE g : CpuAdds(ts, g))[ts],
                  mem |-> (CHOOSE g : MemAdds(ts, g))[ts]]
  BY DEF Held, MapThenSumSet, MapThenFoldSet, CpuAdds, MemAdds
<1>2. \A s \in SUBSET ts : s # {} => (CHOOSE x \in s : TRUE) \in Tasks
  OBVIOUS
<1>3. \A g : CpuAdds(ts, g) <=> Adds(Cpu, ts, g)
  BY <1>2 DEF CpuAdds, Adds, Cpu
<1>4. \A g : MemAdds(ts, g) <=> Adds(Mem, ts, g)
  BY <1>2 DEF MemAdds, Adds, Mem
<1>5. Adds(Cpu, ts, CHOOSE g : CpuAdds(ts, g))
  <2>1. \E g : CpuAdds(ts, g)
    BY <1>3, NeedTypes, CountAdds
  <2> QED
    BY <1>3, <2>1
<1>6. Adds(Mem, ts, CHOOSE g : MemAdds(ts, g))
  <2>1. \E g : MemAdds(ts, g)
    BY <1>4, NeedTypes, CountAdds
  <2> QED
    BY <1>4, <2>1
<1> QED
  BY <1>1, <1>5, <1>6, NeedTypes, AddsCounts

\* There are finitely many of these units
LEMMA NeedsFinite ==
    ASSUME NEW ts \in SUBSET Tasks, IsFiniteSet(ts), NEW f \in {Cpu, Mem}
    PROVE  /\ IsFiniteSet(Units(f, ts)) /\ Cardinality(Units(f, ts)) \in Nat
           /\ \A us \in SUBSET ts : Cardinality(Units(f, us)) =< Cardinality(Units(f, ts))
<1>1. \A x \in ts : f[x] \in Nat
  BY NeedTypes
<1>2. IsFiniteSet(Units(f, ts))
  BY <1>1, UnitsFinite
<1>3. ASSUME NEW us \in SUBSET ts
      PROVE  Cardinality(Units(f, us)) =< Cardinality(Units(f, ts))
  <2>1. Units(f, us) \in SUBSET Units(f, ts)
    BY DEF Units
  <2> QED
    BY <1>2, <2>1, FS_Subset
<1> QED
  BY <1>2, <1>3, FS_CardinalityType

\* One more task holds what it needs more
LEMMA HeldAdd ==
    ASSUME NEW ts \in SUBSET Tasks, IsFiniteSet(ts), NEW t \in Tasks \ ts
    PROVE  Held(ts \cup {t}) = Plus(Held(ts), Need[t])
<1> DEFINE us == ts \cup {t}
<1>1. us \in SUBSET Tasks /\ t \in us /\ us \ {t} = ts /\ t \in Tasks
  OBVIOUS
<1>2. IsFiniteSet(us)
  BY FS_AddElement
<1> HIDE DEF us
<1>3. ASSUME NEW f \in {Cpu, Mem}
      PROVE  Cardinality(Units(f, us)) = f[t] + Cardinality(Units(f, ts))
  <2>1. f[t] \in Nat
    BY NeedTypes
  <2>2. IsFiniteSet(Units(f, us \ {t}))
    BY <1>1, NeedsFinite, Zenon
  <2>3. Cardinality(Units(f, us)) = f[t] + Cardinality(Units(f, us \ {t}))
    BY <1>1, <2>1, <2>2, UnitsAdd
  <2> QED
    BY <1>1, <2>3, Zenon
<1>4. Held(us) = [cpu |-> Cardinality(Units(Cpu, us)), mem |-> Cardinality(Units(Mem, us))]
  BY <1>1, <1>2, HeldIsCount
<1>5. Held(ts) = [cpu |-> Cardinality(Units(Cpu, ts)), mem |-> Cardinality(Units(Mem, ts))]
  BY HeldIsCount
<1>6. Cpu[t] = Need[t].cpu /\ Mem[t] = Need[t].mem /\ Need[t].cpu \in Nat /\ Need[t].mem \in Nat
  BY NeedTypes DEF Cpu, Mem, Resources
<1>7. Cardinality(Units(Cpu, ts)) \in Nat /\ Cardinality(Units(Mem, ts)) \in Nat
  BY NeedsFinite
<1>8. /\ Cardinality(Units(Cpu, us)) = Cardinality(Units(Cpu, ts)) + Need[t].cpu
      /\ Cardinality(Units(Mem, us)) = Cardinality(Units(Mem, ts)) + Need[t].mem
  BY <1>3, <1>6, <1>7
<1>9. Held(us) = Plus(Held(ts), Need[t])
  BY <1>4, <1>5, <1>8 DEF Plus
<1> QED
  BY <1>9 DEF us

\* Fewer tasks hold no more
LEMMA HeldSubset ==
    ASSUME NEW ts \in SUBSET Tasks, IsFiniteSet(ts), NEW us \in SUBSET ts
    PROVE  /\ Held(ts) \in Resources /\ Held(us) \in Resources
           /\ Held(us).cpu =< Held(ts).cpu /\ Held(us).mem =< Held(ts).mem
<1>1. us \in SUBSET Tasks /\ IsFiniteSet(us)
  BY FS_Subset
<1>2. Held(ts) = [cpu |-> Cardinality(Units(Cpu, ts)), mem |-> Cardinality(Units(Mem, ts))]
  BY HeldIsCount
<1>3. Held(us) = [cpu |-> Cardinality(Units(Cpu, us)), mem |-> Cardinality(Units(Mem, us))]
  BY <1>1, HeldIsCount
<1>4. \A f \in {Cpu, Mem} : /\ Cardinality(Units(f, ts)) \in Nat
                            /\ Cardinality(Units(f, us)) \in Nat
                            /\ Cardinality(Units(f, us)) =< Cardinality(Units(f, ts))
  BY <1>1, NeedsFinite
<1> QED
  BY <1>2, <1>3, <1>4 DEF Resources
=============================================================================
