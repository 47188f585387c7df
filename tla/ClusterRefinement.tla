------------------------- MODULE ClusterRefinement -------------------------
(***************************************************************************)
(* Cluster implements AddressPool: every step gives one task an address    *)
(* that nobody has, takes one task's address back, or leaves the leases    *)
(* alone.                                                                  *)
(*                                                                         *)
(* The argument: a step changes the state and the network of at most one   *)
(* task, and never takes it from an address to another (LeaseStep); the    *)
(* address it ends up with is its own because the step ends in IInv.       *)
(***************************************************************************)
EXTENDS ClusterProofs

\* The address task t shows in store d: Lease is LeaseIn(db, _)
LeaseIn(d, t) == IF Addressed(d, t) THEN d.net[t].ip ELSE None

\* Between d and after at most one task's lease changed, from or to None
OneLease(d, after) ==
    \/ \A u \in Tasks : LeaseIn(after, u) = LeaseIn(d, u)
    \/ \E t \in Tasks : /\ \A u \in Tasks \ {t} : LeaseIn(after, u) = LeaseIn(d, u)
                        /\ LeaseIn(d, t) = None \/ LeaseIn(after, t) = None

LEMMA SameLeases ==
    ASSUME NEW d, NEW after, after.state = d.state, after.net = d.net
    PROVE  OneLease(d, after)
  BY DEF OneLease, LeaseIn, Addressed, IsLive

LEMMA ReportLease ==
    ASSUME NEW d, StoreOK(d), NEW t \in Tasks, NEW s \in {"running"} \cup Terminal
    PROVE  OneLease(d, SetTaskState(d, t, s))
<1> DEFINE after == SetTaskState(d, t, s)
<1>1. CASE Refused(d, t)
  BY <1>1, SameLeases DEF SetTaskState
<1>2. CASE ~Refused(d, t)
  <2>1. /\ after.net = d.net
        /\ \A u \in Tasks : after.state[u] = IF u = t THEN s ELSE d.state[u]
    BY <1>2 DEF SetTaskState, StoreOK, Stores
  <2>2. d.state[t] \in {"pending"} \cup Live
    BY <1>2 DEF Refused, IsTerminal, StoreOK, Stores, TaskStates
  <2> HIDE DEF after
  <2>3. \A u \in Tasks \ {t} : LeaseIn(after, u) = LeaseIn(d, u)
    BY <2>1 DEF LeaseIn, Addressed, IsLive
  <2>4. ASSUME d.state[t] = "pending" PROVE LeaseIn(d, t) = None
    BY <2>4 DEF StoreOK, UnplacedBare, LeaseIn, Addressed, IsLive, Live
  <2>5. CASE d.state[t] \in Live /\ s = "running"
    <3>1. LeaseIn(after, t) = LeaseIn(d, t)
      BY <2>1, <2>5 DEF LeaseIn, Addressed, IsLive, Live
    <3> QED
      BY <2>3, <3>1 DEF OneLease, after
  <2>6. ASSUME s \in Terminal PROVE LeaseIn(after, t) = None
    BY <2>1, <2>6 DEF LeaseIn, Addressed, IsLive, Live, Terminal
  <2>7. CASE LeaseIn(d, t) = None \/ LeaseIn(after, t) = None
    BY <2>3, <2>7 DEF OneLease, after
  <2> QED
    BY <2>2, <2>4, <2>5, <2>6, <2>7
<1> QED
  BY <1>1, <1>2

LEMMA RequeueLease ==
    ASSUME NEW d, StoreOK(d), NEW t \in Tasks
    PROVE  OneLease(d, Requeue(d, t))
<1> DEFINE after == Requeue(d, t)
<1>1. \A u \in Tasks : /\ after.state[u] = IF u = t THEN "pending" ELSE d.state[u]
                       /\ after.net[u] = IF u = t THEN None ELSE d.net[u]
  BY DEF Requeue, StoreOK, Stores
<1> HIDE DEF after
<1>2. \A u \in Tasks \ {t} : LeaseIn(after, u) = LeaseIn(d, u)
  BY <1>1 DEF LeaseIn, Addressed, IsLive
<1>3. LeaseIn(after, t) = None
  BY <1>1 DEF LeaseIn, Addressed
<1> QED
  BY <1>2, <1>3 DEF OneLease, after

LEMMA PlaceLease ==
    ASSUME NEW d, StoreOK(d), NEW t \in Tasks, d.state[t] = "pending", NEW n \in Nodes
    PROVE  OneLease(d, Place(d, t, n))
<1> DEFINE after == Place(d, t, n)
<1>1. \A u \in Tasks \ {t} : after.state[u] = d.state[u] /\ after.net[u] = d.net[u]
  <2>1. CASE t \notin Networked
    BY <2>1 DEF Place, Assign, StoreOK, Stores
  <2> DEFINE ipam == Allocate(d.ipam, n, t)
  <2>2. CASE t \in Networked /\ ipam.ip[t] = None
    BY <2>2 DEF Place, StoreOK, Stores
  <2>3. CASE t \in Networked /\ ipam.ip[t] # None /\ GatewayFor(ipam, n) = None
    BY <2>3 DEF Place, StoreOK, Stores
  <2>4. CASE t \in Networked /\ ipam.ip[t] # None /\ GatewayFor(ipam, n) # None
    BY <2>4 DEF Place, Assign, StoreOK, Stores
  <2> QED
    BY <2>1, <2>2, <2>3, <2>4
<1> HIDE DEF after
<1>2. \A u \in Tasks \ {t} : LeaseIn(after, u) = LeaseIn(d, u)
  BY <1>1 DEF LeaseIn, Addressed, IsLive
<1>3. LeaseIn(d, t) = None
  BY DEF LeaseIn, Addressed, IsLive, Live
<1> QED
  BY <1>2, <1>3 DEF OneLease, after

LEMMA SubmitLease ==
    ASSUME NEW d, StoreOK(d), NEW job \in SUBSET Tasks,
           \A t \in job : d.state[t] = "absent"
    PROVE  OneLease(d, CreateJob(d, job))
<1> DEFINE after == CreateJob(d, job)
<1>1. /\ after.net = d.net
      /\ \A u \in Tasks : after.state[u] = IF u \in job THEN "pending" ELSE d.state[u]
  BY DEF CreateJob, StoreOK, Stores
<1> HIDE DEF after
<1>2. \A u \in Tasks : LeaseIn(after, u) = LeaseIn(d, u)
  BY <1>1 DEF LeaseIn, Addressed, IsLive, Live
<1> QED
  BY <1>2 DEF OneLease, after

(***************************************************************************)
(* A step of the system changes at most one lease, from or to None.        *)
(***************************************************************************)
LEMMA LeaseStep ==
    ASSUME IInv, [Next]_vars
    PROVE  OneLease(db, db')
<1>1. StoreOK(db) /\ wire \subseteq Reports /\ QueueFresh
  BY DEF IInv, TypeOK
<1>2. CASE db' = db
  BY <1>2, SameLeases
<1>3. ASSUME NEW t \in Tasks, RequeueOrphan(t)
      PROVE  OneLease(db, db')
  BY <1>1, <1>3, RequeueLease DEF RequeueOrphan
<1>4. ASSUME NEW t \in Tasks, NEW n \in Nodes, PlaceNext(t, n)
      PROVE  OneLease(db, db')
  <2>1. db.state[t] = "pending"
    BY <1>1, <1>4 DEF PlaceNext, NextInQueue, QueueFresh, Pending
  <2> QED
    BY <1>1, <1>4, <2>1, PlaceLease DEF PlaceNext
<1>5. ASSUME NEW job \in SUBSET Tasks, SubmitJob(job)
      PROVE  OneLease(db, db')
  BY <1>1, <1>5, SubmitLease DEF SubmitJob
<1>6. ASSUME NEW n \in Nodes, Register(n) \/ HandleHeartbeat(n) \/ MissHeartbeats(n)
      PROVE  OneLease(db, db')
  <2>1. db'.state = db.state /\ db'.net = db.net
    BY <1>1, <1>6 DEF Register, HandleHeartbeat, MissHeartbeats, RegisterNode, Heartbeat,
                      Lapse, StoreOK, Stores
  <2> QED
    BY <2>1, SameLeases
<1>7. ASSUME NEW m \in wire, Deliver(m)
      PROVE  OneLease(db, db')
  <2>1. m.task \in Tasks /\ m.state \in {"running"} \cup Terminal
    BY <1>1 DEF Reports
  <2> QED
    BY <1>1, <1>7, <2>1, ReportLease DEF Deliver
<1>8. CASE UNCHANGED vars
  BY <1>2, <1>8 DEF vars
<1>9. CASE Recount \/ \E t \in Tasks : SkipNext(t)
  BY <1>2, <1>9 DEF Recount, SkipNext
<1>10. ASSUME NEW n \in Nodes,
              PollStart(n) \/ PollServe(n) \/ PollHandle(n) \/ PollFail(n) \/ Crash(n)
       PROVE  OneLease(db, db')
  BY <1>2, <1>10 DEF PollStart, PollServe, PollHandle, PollFail, Crash
<1>11. ASSUME NEW n \in Nodes, NEW t \in Tasks, Supervise(n, t)
       PROVE  OneLease(db, db')
  BY <1>2, <1>11 DEF Supervise, Boot, BootFails, End, Exit, SendReport
<1>12. ASSUME NEW m \in wire, GiveUp(m)
       PROVE  OneLease(db, db')
  BY <1>2, <1>12 DEF GiveUp
<1> QED
  BY <1>3, <1>4, <1>5, <1>6, <1>7, <1>8, <1>9, <1>10, <1>11, <1>12
     DEF Next, TickStep

(***************************************************************************)
(* In a store that is OK no two tasks lease the same address.              *)
(***************************************************************************)
LEMMA LeasesDistinct ==
    ASSUME NEW d, StoreOK(d)
    PROVE  \A t, u \in Tasks : /\ LeaseIn(d, t) \in Addresses \cup {None}
                               /\ t # u /\ LeaseIn(d, t) # None
                                    => LeaseIn(d, t) # LeaseIn(d, u)
<1>1. \A t \in Tasks : LeaseIn(d, t) = d.ipam.ip[t]
  BY DEF StoreOK, Accounted, LeaseIn
<1>2. d.ipam \in Ipams /\ HeldDistinct(d.ipam)
  BY DEF StoreOK, Stores
<1> QED
  BY <1>1, <1>2 DEF Ipams, HeldDistinct

(***************************************************************************)
(* A step of the system is a step of the pool, or a stutter.               *)
(***************************************************************************)
LEMMA PoolStep ==
    ASSUME IInv, IInv', OneLease(db, db')
    PROVE  [Pool!Next]_Lease
<1> DEFINE new == [t \in Tasks |-> LeaseIn(db', t)]
<1>1. Lease = [t \in Tasks |-> LeaseIn(db, t)] /\ Lease' = new
  BY DEF Lease, LeaseIn
<1>2. CASE \A u \in Tasks : LeaseIn(db', u) = LeaseIn(db, u)
  BY <1>1, <1>2
<1>3. ASSUME NEW t \in Tasks,
             \A u \in Tasks \ {t} : LeaseIn(db', u) = LeaseIn(db, u),
             LeaseIn(db', t) = None, LeaseIn(db, t) # None
      PROVE  Pool!Next
  <2>1. Lease' = [Lease EXCEPT ![t] = None]
    BY <1>1, <1>3
  <2>2. Pool!GiveBack(t)
    BY <1>1, <1>3, <2>1 DEF Pool!GiveBack
  <2> QED
    BY <2>2 DEF Pool!Next
<1>4. ASSUME NEW t \in Tasks,
             \A u \in Tasks \ {t} : LeaseIn(db', u) = LeaseIn(db, u),
             LeaseIn(db, t) = None, LeaseIn(db', t) # None
      PROVE  Pool!Next
  <2> DEFINE a == LeaseIn(db', t)
  <2>1. StoreOK(db')
    BY DEF IInv
  <2>2. a \in Addresses /\ \A u \in Tasks \ {t} : LeaseIn(db', u) # a
    BY <1>4, <2>1, LeasesDistinct
  <2>3. \A u \in Tasks : Lease[u] # a
    BY <1>1, <1>4, <2>2
  <2>4. Lease' = [Lease EXCEPT ![t] = a]
    BY <1>1, <1>4
  <2>5. Lease[t] = None
    BY <1>1, <1>4
  <2>6. Lease'[t] = a
    BY <1>1
  <2>7. Pool!Acquire(t)
    BY <2>2, <2>3, <2>4, <2>5, <2>6 DEF Pool!Acquire
  <2> QED
    BY <2>7 DEF Pool!Next
<1>5. CASE \E t \in Tasks : /\ \A u \in Tasks \ {t} : LeaseIn(db', u) = LeaseIn(db, u)
                            /\ LeaseIn(db, t) = None \/ LeaseIn(db', t) = None
  BY <1>2, <1>3, <1>4, <1>5
<1> QED
  BY <1>2, <1>5 DEF OneLease

(***************************************************************************)
(* The control plane implements the pool of addresses, for any number of   *)
(* nodes, tasks and addresses and any faults.                              *)
(***************************************************************************)
THEOREM ImplementsAddressPool == Spec => AddressesAreLeased
<1>1. Init => Pool!Init
  BY DEF Init, Pool!Init, Lease, EmptyStore, Addressed, IsLive, Live
<1>2. ASSUME IInv, IInv', [Next]_vars PROVE [Pool!Next]_Lease
  BY <1>2, LeaseStep, PoolStep
<1> QED
  BY <1>1, <1>2, IInvHolds, PTL DEF Spec, AddressesAreLeased, Pool!Spec
=============================================================================
