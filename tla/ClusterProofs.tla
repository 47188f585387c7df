--------------------------- MODULE ClusterProofs ---------------------------
(***************************************************************************)
(* The safety of Cluster, for any number of nodes, tasks, octets, faults   *)
(* and any resources: addresses, terminal states, the accounting, and that *)
(* a task has one executor and is started again only for a fault.          *)
(*                                                                         *)
(* IInv is inductive.  Its proof is cut along its parts, one lemma a part, *)
(* and each part's lemma along the actions.  What an action does to each   *)
(* variable, pointwise, is stated once: the lemmas called Shape.           *)
(***************************************************************************)
EXTENDS Cluster, ControlPlaneProofs

\* No task holds nothing
LEMMA HeldNothing == Held({}) = NoResources
<1>1. Units(Cpu, {}) = {} /\ Units(Mem, {}) = {}
  BY DEF Units
<1>2. Cardinality(Units(Cpu, {})) = 0 /\ Cardinality(Units(Mem, {})) = 0
  BY <1>1, FS_EmptySet, Zenon
<1>3. {} \in SUBSET Tasks /\ IsFiniteSet({})
  BY FS_EmptySet
<1>4. Held({}) = [cpu |-> Cardinality(Units(Cpu, {})), mem |-> Cardinality(Units(Mem, {}))]
  BY <1>3, HeldIsCount
<1> QED
  BY <1>2, <1>4 DEF NoResources

\* The system starts with nobody and nothing
LEMMA InitIInv == Init => IInv
<1> SUFFICES ASSUME Init PROVE IInv
  OBVIOUS
<1>1. TypeOK
  BY EmptyStoreOK DEF Init, TypeOK, StoreOK, NoPoll
<1>2. QueueFresh
  BY DEF Init, QueueFresh
<1>3. StoreOK(db)
  BY EmptyStoreOK DEF Init
<1>4. Unplaced(db)
  BY DEF Init, Unplaced, EmptyStore
<1>5. AgentsOK /\ AwaitedOK
  BY DEF Init, AgentsOK, AwaitedOK, NoPoll, EmptyStore
<1>6. HostsOK
  BY DEF Init, HostsOK, Has, NoPoll
<1>7. CreditOK
  <2> SUFFICES ASSUME NEW t \in Tasks
               PROVE  IsFiniteSet(Stale(t)) /\ Spent(t) + Cardinality(Stale(t)) =< 1 + Paid
    BY DEF CreditOK
  <2>1. Stale(t) = {}
    BY DEF Init, Stale, NoPoll
  <2>2. IsFiniteSet(Stale(t)) /\ Cardinality(Stale(t)) = 0
    BY <2>1, FS_EmptySet, Zenon
  <2>3. Spent(t) = 1 /\ Paid = 0
    BY DEF Init, Spent, Paid, Waits, Dying, Due, IsLive, Live, EmptyStore
  <2> QED
    BY <2>2, <2>3
<1>8. AccountOK
  <2>1. \A n \in Nodes : TasksOn(db, n) = {}
    BY DEF Init, TasksOn, IsLive, Live, EmptyStore
  <2>2. \A n \in Nodes : Held(TasksOn(db, n)) = NoResources
    BY <2>1, HeldNothing, Zenon
  <2>3. NoResources \in Resources /\ \A n \in Nodes : Total[n] \in Resources
    BY SpecAssumption DEF NoResources, Resources
  <2> QED
    BY <2>2, <2>3 DEF Init, AccountOK, NoOvercommit, FitsIn, NoResources, Resources
<1> QED
  BY <1>1, <1>2, <1>3, <1>4, <1>5, <1>6, <1>7, <1>8 DEF IInv

(***************************************************************************)
(* The store.  A step of an agent, or a fault, leaves it alone; a handler  *)
(* or a round of a pass is an operation proved Sound.                      *)
(***************************************************************************)
LEMMA StoreStep ==
    ASSUME IInv, [Next]_vars
    PROVE  Sound(db, db')
<1>1. StoreOK(db) /\ wire \subseteq Reports /\ QueueFresh
  BY DEF IInv, TypeOK
<1>2. CASE db' = db
  BY <1>1, <1>2 DEF Sound
<1>3. ASSUME NEW t \in Tasks, RequeueOrphan(t)
      PROVE  Sound(db, db')
  BY <1>1, <1>3, RequeueSound DEF RequeueOrphan
<1>4. ASSUME NEW t \in Tasks, NEW n \in Nodes, PlaceNext(t, n)
      PROVE  Sound(db, db')
  <2>1. db.state[t] = "pending"
    BY <1>1, <1>4 DEF PlaceNext, NextInQueue, QueueFresh, Pending
  <2>2. n \in db.alive
    BY <1>4 DEF PlaceNext, Picks, Eligible
  <2> QED
    BY <1>1, <1>4, <2>1, <2>2, PlaceSound DEF PlaceNext
<1>5. ASSUME NEW job \in SUBSET Tasks, SubmitJob(job)
      PROVE  Sound(db, db')
  BY <1>1, <1>5, CreateJobSound DEF SubmitJob
<1>6. ASSUME NEW n \in Nodes, Register(n)
      PROVE  Sound(db, db')
  BY <1>1, <1>6, RegisterNodeSound DEF Register
<1>7. ASSUME NEW n \in Nodes, HandleHeartbeat(n)
      PROVE  Sound(db, db')
  BY <1>1, <1>7, HeartbeatSound DEF HandleHeartbeat
<1>8. ASSUME NEW n \in Nodes, MissHeartbeats(n)
      PROVE  Sound(db, db')
  BY <1>1, <1>8, LapseSound DEF MissHeartbeats
<1>9. ASSUME NEW m \in wire, Deliver(m)
      PROVE  Sound(db, db')
  <2>1. m.task \in Tasks /\ m.state \in {"running"} \cup Terminal
    BY <1>1 DEF Reports
  <2> QED
    BY <1>1, <1>9, <2>1, SetTaskStateSound DEF Deliver
<1>10. CASE UNCHANGED vars
  BY <1>2, <1>10 DEF vars
<1>11. CASE Recount \/ \E t \in Tasks : SkipNext(t)
  BY <1>2, <1>11 DEF Recount, SkipNext
<1>12. ASSUME NEW n \in Nodes,
              PollStart(n) \/ PollServe(n) \/ PollHandle(n) \/ PollFail(n) \/ Crash(n)
       PROVE  Sound(db, db')
  BY <1>2, <1>12 DEF PollStart, PollServe, PollHandle, PollFail, Crash
<1>13. ASSUME NEW n \in Nodes, NEW t \in Tasks, Supervise(n, t)
       PROVE  Sound(db, db')
  BY <1>2, <1>13 DEF Supervise, Boot, BootFails, End, Exit, SendReport
<1>14. ASSUME NEW m \in wire, GiveUp(m)
       PROVE  Sound(db, db')
  BY <1>2, <1>14 DEF GiveUp
<1> QED
  BY <1>3, <1>4, <1>5, <1>6, <1>7, <1>8, <1>9, <1>10, <1>11, <1>12, <1>13, <1>14
     DEF Next, TickStep

(***************************************************************************)
(* The list of the pass.  Only a pass has it, and during a pass only its   *)
(* own rounds change the store: the one that takes a task off the list     *)
(* changes no other task's state.                                          *)
(***************************************************************************)
LEMMA QueueStep ==
    ASSUME IInv, [Next]_vars
    PROVE  QueueFresh'
<1>1. QueueFresh /\ StoreOK(db) /\ queue \subseteq Tasks /\ Pending(db) \subseteq Tasks
  BY DEF IInv, TypeOK, Pending
<1>2. CASE tick = "idle" /\ UNCHANGED <<tick, queue>>
  BY <1>1, <1>2 DEF QueueFresh
<1>3. CASE UNCHANGED <<db, tick, queue>>
  BY <1>1, <1>3 DEF QueueFresh, Pending
<1>4. ASSUME NEW t \in Tasks, RequeueOrphan(t)
      PROVE  QueueFresh'
  BY <1>1, <1>4 DEF RequeueOrphan, QueueFresh
<1>5. CASE Recount
  BY <1>1, <1>5 DEF Recount, GoOnWith, QueueFresh
<1>6. ASSUME NEW t \in Tasks, SkipNext(t)
      PROVE  QueueFresh'
  BY <1>1, <1>6 DEF SkipNext, NextInQueue, GoOnWith, QueueFresh
<1>7. ASSUME NEW t \in Tasks, NEW n \in Nodes, PlaceNext(t, n)
      PROVE  QueueFresh'
  <2>1. db.state[t] = "pending" /\ queue \subseteq Pending(db)
    BY <1>1, <1>7 DEF PlaceNext, NextInQueue, QueueFresh, Pending
  <2>2. n \in db.alive
    BY <1>7 DEF PlaceNext, Picks, Eligible
  <2>3. \A u \in Tasks \ {t} : db'.state[u] = db.state[u]
    BY <1>1, <1>7, <2>1, <2>2, PlaceSound DEF PlaceNext
  <2>4. queue \ {t} \subseteq Pending(db')
    BY <1>1, <2>1, <2>3 DEF Pending
  <2> QED
    BY <1>7, <2>4 DEF PlaceNext, GoOnWith, QueueFresh
<1>8. CASE \E job \in SUBSET Tasks : SubmitJob(job)
  BY <1>2, <1>8 DEF SubmitJob
<1>9. ASSUME NEW n \in Nodes, Register(n) \/ HandleHeartbeat(n) \/ MissHeartbeats(n)
      PROVE  QueueFresh'
  BY <1>2, <1>9 DEF Register, HandleHeartbeat, MissHeartbeats
<1>10. CASE \E m \in wire : Deliver(m)
  BY <1>2, <1>10 DEF Deliver
<1>11. CASE UNCHANGED vars
  BY <1>3, <1>11 DEF vars
<1>12. ASSUME NEW n \in Nodes,
              PollStart(n) \/ PollServe(n) \/ PollHandle(n) \/ PollFail(n) \/ Crash(n)
       PROVE  QueueFresh'
  BY <1>3, <1>12 DEF PollStart, PollServe, PollHandle, PollFail, Crash
<1>13. ASSUME NEW n \in Nodes, NEW t \in Tasks, Supervise(n, t)
       PROVE  QueueFresh'
  BY <1>3, <1>13 DEF Supervise, Boot, BootFails, End, Exit, SendReport
<1>14. CASE \E m \in wire : GiveUp(m)
  BY <1>3, <1>14 DEF GiveUp
<1> QED
  BY <1>4, <1>5, <1>6, <1>7, <1>8, <1>9, <1>10, <1>11, <1>12, <1>13, <1>14
     DEF Next, TickStep

(***************************************************************************)
(* The types of the agents' variables, of what is on the wire and of the   *)
(* history.                                                                *)
(***************************************************************************)
ExecStates == {"none", "starting", "booted", "supervising", "ended", "finished"}

LEMMA SendReportType ==
    ASSUME TypeOK, NEW n \in Nodes, NEW t \in Tasks, NEW pc \in ExecStates,
           NEW s \in {"running"} \cup Terminal, SendReport(n, t, pc, s)
    PROVE  TypeOK'
<1>1. Report(n, t, s) \in Reports
  BY DEF Report, Reports, TypeOK
<1>2. wire' \subseteq Reports
  BY <1>1 DEF SendReport, TypeOK
<1>3. exec' \in [Nodes -> [Tasks -> ExecStates]]
  BY DEF SendReport, TypeOK, ExecStates
<1> QED
  BY <1>2, <1>3 DEF SendReport, TypeOK, ExecStates

LEMMA ResumeType ==
    ASSUME TypeOK, NEW m \in wire, Resume(m)
    PROVE  exec' \in [Nodes -> [Tasks -> ExecStates]]
<1>1. m.from \in Nodes /\ m.task \in Tasks /\ exec \in [Nodes -> [Tasks -> ExecStates]]
  BY DEF TypeOK, Reports, ExecStates
<1> QED
  BY <1>1 DEF Resume, ExecStates

LEMMA TypeStep ==
    ASSUME IInv, [Next]_vars
    PROVE  TypeOK'
<1>1. TypeOK /\ db' \in Stores
  BY StoreStep DEF Sound, StoreOK, IInv
<1>2. ASSUME NEW t \in Tasks, RequeueOrphan(t)
      PROVE  TypeOK'
  BY <1>1, <1>2 DEF RequeueOrphan, TypeOK
<1>3. CASE Recount
  BY <1>1, <1>3 DEF Recount, GoOnWith, Pending, TypeOK
<1>4. ASSUME NEW t \in Tasks, SkipNext(t) \/ \E n \in Nodes : PlaceNext(t, n)
      PROVE  TypeOK'
  BY <1>1, <1>4 DEF SkipNext, PlaceNext, GoOnWith, TypeOK
<1>5. CASE \E job \in SUBSET Tasks : SubmitJob(job)
  BY <1>1, <1>5 DEF SubmitJob, TypeOK
<1>6. ASSUME NEW n \in Nodes, Register(n)
      PROVE  TypeOK'
  BY <1>1, <1>6 DEF Register, TypeOK
<1>7. ASSUME NEW n \in Nodes, HandleHeartbeat(n)
      PROVE  TypeOK'
  BY <1>1, <1>7 DEF HandleHeartbeat, TypeOK
<1>8. ASSUME NEW n \in Nodes, MissHeartbeats(n)
      PROVE  TypeOK'
  <2>1. faults' \in [lapses : Nat, lost : Nat, crashes : Nat]
    BY <1>1, <1>8 DEF MissHeartbeats, TypeOK
  <2> QED
    BY <1>1, <1>8, <2>1 DEF MissHeartbeats, TypeOK
<1>9. ASSUME NEW n \in Nodes, PollStart(n)
      PROVE  TypeOK'
  <2>1. exec' \in [Nodes -> [Tasks -> ExecStates]]
    <3>1. [t \in Tasks |-> IF exec[n][t] = "finished" THEN "none" ELSE exec[n][t]]
            \in [Tasks -> ExecStates]
      BY <1>1, <1>9 DEF TypeOK, ExecStates
    <3> QED
      BY <1>1, <1>9, <3>1 DEF PollStart, TypeOK, ExecStates
  <2>2. poll' \in [Nodes -> [pc : {"idle", "asked", "answered"}, tasks : SUBSET Tasks]]
    BY <1>1, <1>9 DEF PollStart, TypeOK
  <2> QED
    BY <1>1, <1>9, <2>1, <2>2 DEF PollStart, TypeOK, ExecStates
<1>10. ASSUME NEW n \in Nodes, PollServe(n)
       PROVE  TypeOK'
  <2>1. Assignments(db, n) \in SUBSET Tasks
    BY DEF Assignments
  <2> QED
    BY <1>1, <1>10, <2>1 DEF PollServe, TypeOK
<1>11. ASSUME NEW n \in Nodes, PollHandle(n)
       PROVE  TypeOK'
  <2> DEFINE new == { t \in poll[n].tasks : exec[n][t] = "none" }
             row == [t \in Tasks |-> IF t \in new THEN "starting" ELSE exec[n][t]]
  <2>1. exec' = [exec EXCEPT ![n] = row]
    BY <1>1, <1>11 DEF PollHandle, TypeOK
  <2>2. row \in [Tasks -> ExecStates]
    BY <1>1 DEF TypeOK, ExecStates
  <2>3. exec' \in [Nodes -> [Tasks -> ExecStates]]
    BY <1>1, <2>1, <2>2 DEF TypeOK, ExecStates
  <2>4. starts' \in [Tasks -> Nat]
    BY <1>1, <1>11 DEF PollHandle, TypeOK
  <2>5. poll' \in [Nodes -> [pc : {"idle", "asked", "answered"}, tasks : SUBSET Tasks]]
    BY <1>1, <1>11 DEF PollHandle, TypeOK, NoPoll
  <2> QED
    BY <1>1, <1>11, <2>3, <2>4, <2>5 DEF PollHandle, TypeOK, ExecStates
<1>12. ASSUME NEW n \in Nodes, PollFail(n)
       PROVE  TypeOK'
  BY <1>1, <1>12 DEF PollFail, TypeOK, NoPoll
<1>13. ASSUME NEW n \in Nodes, NEW t \in Tasks, Supervise(n, t)
       PROVE  TypeOK'
  <2>1. CASE Boot(n, t)
    BY <1>1, <2>1, SendReportType DEF Boot, ExecStates
  <2>2. CASE BootFails(n, t)
    BY <1>1, <2>2, SendReportType DEF BootFails, ExecStates, Terminal
  <2>3. ASSUME NEW s \in Terminal, Exit(n, t, s)
        PROVE  TypeOK'
    BY <1>1, <2>3, SendReportType DEF Exit, ExecStates
  <2> QED
    BY <1>13, <2>1, <2>2, <2>3 DEF Supervise, End
<1>14. ASSUME NEW m \in wire, Deliver(m)
       PROVE  TypeOK'
  <2>1. exec' \in [Nodes -> [Tasks -> ExecStates]]
    BY <1>1, <1>14, ResumeType DEF Deliver
  <2> QED
    BY <1>1, <1>14, <2>1 DEF Deliver, TypeOK, ExecStates
<1>15. ASSUME NEW m \in wire, GiveUp(m)
       PROVE  TypeOK'
  <2>1. exec' \in [Nodes -> [Tasks -> ExecStates]]
    BY <1>1, <1>15, ResumeType DEF GiveUp
  <2>2. [m EXCEPT !.awaited = FALSE] \in Reports
    BY <1>1 DEF TypeOK, Reports
  <2>3. wire' \subseteq Reports
    BY <1>1, <1>15, <2>2 DEF GiveUp, TypeOK
  <2> QED
    BY <1>1, <1>15, <2>1, <2>3 DEF GiveUp, TypeOK, ExecStates
<1>16. ASSUME NEW n \in Nodes, Crash(n)
       PROVE  TypeOK'
  <2>1. ASSUME NEW m \in Reports PROVE [m EXCEPT !.awaited = FALSE] \in Reports
    BY DEF Reports
  <2>2. wire' \subseteq Reports
    BY <1>1, <1>16, <2>1 DEF Crash, TypeOK
  <2>3. exec' \in [Nodes -> [Tasks -> ExecStates]]
    BY <1>1, <1>16 DEF Crash, TypeOK, ExecStates
  <2> QED
    BY <1>1, <1>16, <2>2, <2>3 DEF Crash, TypeOK, ExecStates, NoPoll
<1>17. CASE UNCHANGED vars
  BY <1>1, <1>17 DEF vars, TypeOK
<1> QED
  BY <1>2, <1>3, <1>4, <1>5, <1>6, <1>7, <1>8, <1>9, <1>10, <1>11, <1>12, <1>13,
     <1>14, <1>15, <1>16, <1>17
     DEF Next, TickStep

-----------------------------------------------------------------------------
(***************************************************************************)
(* Who waits is nowhere: only PlaceNext gives a task a node, and makes it  *)
(* assigned; a requeue takes both away.                                    *)
(***************************************************************************)
LEMMA UnplacedStep ==
    ASSUME IInv, [Next]_vars
    PROVE  Unplaced(db')
<1>1. db \in Stores /\ StoreOK(db) /\ wire \subseteq Reports /\ QueueFresh
      /\ Unplaced(db)
  BY DEF IInv, StoreOK, TypeOK
<1>2. CASE db' = db
  BY <1>1, <1>2
<1>3. ASSUME NEW t \in Tasks, RequeueOrphan(t)
      PROVE  Unplaced(db')
  BY <1>1, <1>3, RequeueShape DEF RequeueOrphan, Unplaced
<1>4. ASSUME NEW t \in Tasks, NEW n \in Nodes, PlaceNext(t, n)
      PROVE  Unplaced(db')
  <2>1. n \in db.nodes
    BY <1>1, <1>4 DEF PlaceNext, Picks, Eligible, StoreOK
  <2> QED
    BY <1>1, <1>4, <2>1, PlaceShape DEF PlaceNext, Unplaced
<1>5. ASSUME NEW job \in SUBSET Tasks, SubmitJob(job)
      PROVE  Unplaced(db')
  BY <1>1, <1>5, CreateJobShape DEF SubmitJob, Unplaced
<1>6. ASSUME NEW n \in Nodes, Register(n) \/ HandleHeartbeat(n) \/ MissHeartbeats(n)
      PROVE  Unplaced(db')
  <2>1. db'.state = db.state /\ db'.node = db.node /\ db.nodes \subseteq db'.nodes
    BY <1>1, <1>6 DEF Register, RegisterNode, HandleHeartbeat, Heartbeat, MissHeartbeats,
                      Lapse, Stores
  <2> QED
    BY <1>1, <2>1 DEF Unplaced
<1>7. ASSUME NEW m \in wire, Deliver(m)
      PROVE  Unplaced(db')
  <2>1. m.task \in Tasks /\ m.state \in {"running"} \cup Terminal
    BY <1>1 DEF Reports
  <2> QED
    BY <1>1, <1>7, <2>1, SetTaskStateShape DEF Deliver, Unplaced, Terminal
<1>8. CASE UNCHANGED vars
  BY <1>2, <1>8 DEF vars
<1>9. CASE Recount \/ \E t \in Tasks : SkipNext(t)
  BY <1>2, <1>9 DEF Recount, SkipNext
<1>10. ASSUME NEW n \in Nodes,
              PollStart(n) \/ PollServe(n) \/ PollHandle(n) \/ PollFail(n) \/ Crash(n)
       PROVE  Unplaced(db')
  BY <1>2, <1>10 DEF PollStart, PollServe, PollHandle, PollFail, Crash
<1>11. ASSUME NEW n \in Nodes, NEW t \in Tasks, Supervise(n, t)
       PROVE  Unplaced(db')
  BY <1>2, <1>11 DEF Supervise, Boot, BootFails, End, Exit, SendReport
<1>12. ASSUME NEW m \in wire, GiveUp(m)
       PROVE  Unplaced(db')
  BY <1>2, <1>12 DEF GiveUp
<1> QED
  BY <1>3, <1>4, <1>5, <1>6, <1>7, <1>8, <1>9, <1>10, <1>11, <1>12 DEF Next, TickStep

-----------------------------------------------------------------------------
(***************************************************************************)
(* What each action of an agent does to the agents, pointwise. Of a task   *)
(* that a report is awaited of, the answer or its loss resumes the         *)
(* supervisor.                                                             *)
(***************************************************************************)
LEMMA ResumeShape ==
    ASSUME TypeOK, AgentsOK, AwaitedOK, NEW m \in wire, Resume(m)
    PROVE  \A n \in Nodes : \A t \in Tasks :
              /\ ~ (m.awaited /\ n = m.from /\ t = m.task) => exec'[n][t] = exec[n][t]
              /\ m.awaited /\ n = m.from /\ t = m.task =>
                    /\ exec[n][t] \in {"booted", "ended"}
                    /\ exec'[n][t] \in {"supervising", "finished"}
                    /\ exec[n][t] = "booted" => exec'[n][t] = "supervising"
                    /\ agent[n] = "up"
<1>1. m.from \in Nodes /\ m.task \in Tasks /\ exec \in [Nodes -> [Tasks -> ExecStates]]
  BY DEF TypeOK, Reports, ExecStates
<1>2. CASE m.awaited
  <2>1. exec' = [exec EXCEPT ![m.from][m.task] =
                    IF exec[m.from][m.task] = "booted" THEN "supervising" ELSE "finished"]
    BY <1>1, <1>2 DEF Resume
  <2>2. exec[m.from][m.task] \in {"booted", "ended"}
    BY <1>2 DEF AwaitedOK
  <2>3. agent[m.from] = "up"
    BY <1>1, <2>2 DEF AgentsOK
  <2> QED
    BY <1>1, <1>2, <2>1, <2>2, <2>3
<1>3. CASE ~m.awaited
  BY <1>3 DEF Resume
<1> QED
  BY <1>2, <1>3

LEMMA PollStartShape ==
    ASSUME TypeOK, NEW n \in Nodes, PollStart(n)
    PROVE  /\ UNCHANGED <<db, agent, wire, starts, faults>>
           /\ agent[n] = "up" /\ poll[n].pc = "idle"
           /\ \A k \in Nodes \ {n} : poll'[k] = poll[k]
           /\ poll'[n].pc = "asked" /\ poll'[n].tasks = poll[n].tasks
           /\ \A k \in Nodes : \A t \in Tasks :
                 exec'[k][t] = IF k = n /\ exec[k][t] = "finished" THEN "none"
                                                                   ELSE exec[k][t]
  BY DEF TypeOK, PollStart

LEMMA PollServeShape ==
    ASSUME TypeOK, NEW n \in Nodes, PollServe(n)
    PROVE  /\ UNCHANGED <<db, agent, exec, wire, starts, faults>>
           /\ poll[n].pc = "asked"
           /\ \A k \in Nodes \ {n} : poll'[k] = poll[k]
           /\ poll'[n].pc = "answered" /\ poll'[n].tasks = Assignments(db, n)
  BY DEF TypeOK, PollServe

LEMMA PollFailShape ==
    ASSUME TypeOK, NEW n \in Nodes, PollFail(n)
    PROVE  /\ UNCHANGED <<db, agent, exec, wire, starts>>
           /\ faults' = [faults EXCEPT !.lost = @ + 1]
           /\ poll[n].pc # "idle"
           /\ \A k \in Nodes \ {n} : poll'[k] = poll[k]
           /\ poll'[n] = NoPoll
  BY DEF TypeOK, PollFail

LEMMA PollHandleShape ==
    ASSUME TypeOK, NEW n \in Nodes, PollHandle(n)
    PROVE  /\ UNCHANGED <<db, agent, wire, faults>>
           /\ poll[n].pc = "answered"
           /\ \A k \in Nodes \ {n} : poll'[k] = poll[k]
           /\ poll'[n] = NoPoll
           /\ \A k \in Nodes : \A t \in Tasks :
                 exec'[k][t] = IF k = n /\ t \in poll[n].tasks /\ exec[k][t] = "none"
                               THEN "starting" ELSE exec[k][t]
           /\ \A t \in Tasks :
                 starts'[t] = IF t \in poll[n].tasks /\ exec[n][t] = "none"
                              THEN starts[t] + 1 ELSE starts[t]
  BY DEF TypeOK, PollHandle

LEMMA CrashShape ==
    ASSUME TypeOK, NEW n \in Nodes, Crash(n)
    PROVE  /\ UNCHANGED <<db, starts>>
           /\ faults' = [faults EXCEPT !.crashes = @ + 1]
           /\ agent[n] = "up"
           /\ \A k \in Nodes \ {n} : poll'[k] = poll[k]
           /\ poll'[n] = NoPoll
           /\ \A k \in Nodes : \A t \in Tasks :
                 exec'[k][t] = IF k = n THEN "none" ELSE exec[k][t]
           /\ \A k \in Nodes : agent'[k] = IF k = n THEN "crashed" ELSE agent[k]
  BY DEF TypeOK, Crash

\* A supervisor moves on, alone, and may send the only report it waits for
LEMMA SuperviseShape ==
    ASSUME TypeOK, NEW n \in Nodes, NEW t \in Tasks, Supervise(n, t)
    PROVE  /\ UNCHANGED <<db, agent, poll, starts, faults>>
           /\ exec[n][t] \in {"starting", "supervising"}
           /\ exec'[n][t] \in {"booted", "ended"}
           /\ \A k \in Nodes : \A u \in Tasks :
                 ~ (k = n /\ u = t) => exec'[k][u] = exec[k][u]
           /\ \E s : wire' = wire \cup {Report(n, t, s)}
<1>1. PICK pc, s : /\ SendReport(n, t, pc, s)
                   /\ pc \in {"booted", "ended"}
                   /\ exec[n][t] \in {"starting", "supervising"}
  BY DEF Supervise, Boot, BootFails, End, Exit
<1> QED
  BY <1>1 DEF SendReport, TypeOK

\* What the handlers and the rounds of a pass do to who is where
LEMMA RequeueOrphanShape ==
    ASSUME db \in Stores, NEW t \in Tasks, RequeueOrphan(t)
    PROVE  /\ UNCHANGED <<agent, poll, exec, wire, starts, faults>>
           /\ db'.nodes = db.nodes /\ db'.alive = db.alive
           /\ IsLive(db, t) /\ db.node[t] \in db.nodes \ db.alive
           /\ \A u \in Tasks : /\ db'.state[u] = IF u = t THEN "pending" ELSE db.state[u]
                               /\ db'.node[u] = IF u = t THEN None ELSE db.node[u]
<1>1. /\ db' = Requeue(db, t) /\ UNCHANGED <<agent, poll, exec, wire, starts, faults>>
      /\ IsLive(db, t) /\ db.node[t] \in db.nodes \ db.alive
  BY DEF RequeueOrphan, Orphans
<1> QED
  BY <1>1, RequeueShape

LEMMA PlaceNextShape ==
    ASSUME IInv, NEW t \in Tasks, NEW n \in Nodes, PlaceNext(t, n)
    PROVE  /\ UNCHANGED <<agent, poll, exec, wire, starts, faults>>
           /\ db'.nodes = db.nodes /\ db'.alive = db.alive
           /\ db.state[t] = "pending" /\ n \in db.alive
           /\ \/ db'.state = db.state /\ db'.node = db.node
              \/ \A u \in Tasks :
                    /\ db'.state[u] = IF u = t THEN "assigned" ELSE db.state[u]
                    /\ db'.node[u] = IF u = t THEN n ELSE db.node[u]
<1>1. /\ db' = Place(db, t, n) /\ UNCHANGED <<agent, poll, exec, wire, starts, faults>>
      /\ n \in db.alive /\ tick = "place" /\ t \in queue
  BY DEF PlaceNext, NextInQueue, Picks, Eligible
<1>2. db \in Stores /\ db.state[t] = "pending"
  BY <1>1 DEF IInv, StoreOK, QueueFresh, Pending
<1> QED
  BY <1>1, <1>2, PlaceShape

LEMMA SubmitJobShape ==
    ASSUME db \in Stores, NEW job \in SUBSET Tasks, SubmitJob(job)
    PROVE  /\ UNCHANGED <<agent, poll, exec, wire, starts, faults>>
           /\ db'.nodes = db.nodes /\ db'.alive = db.alive /\ db'.node = db.node
           /\ \A u \in Tasks : /\ u \in job => db.state[u] = "absent"
                               /\ db'.state[u] = IF u \in job THEN "pending" ELSE db.state[u]
<1>1. /\ db' = CreateJob(db, job) /\ UNCHANGED <<agent, poll, exec, wire, starts, faults>>
      /\ \A u \in job : db.state[u] = "absent"
  BY DEF SubmitJob
<1> QED
  BY <1>1, CreateJobShape

LEMMA RegisterShape ==
    ASSUME TypeOK, NEW n \in Nodes, Register(n)
    PROVE  /\ UNCHANGED <<poll, exec, wire, starts, faults>>
           /\ db'.state = db.state /\ db'.node = db.node
           /\ db'.nodes = db.nodes \cup {n} /\ db'.alive = db.alive \cup {n}
           /\ agent[n] = "new"
           /\ \A k \in Nodes : agent'[k] = IF k = n THEN "up" ELSE agent[k]
<1>1. db \in Stores
  BY DEF TypeOK
<1>2. db' = RegisterNode(db, n)
  BY DEF Register
<1>3. /\ db'.state = db.state /\ db'.node = db.node
      /\ db'.nodes = db.nodes \cup {n} /\ db'.alive = db.alive \cup {n}
  BY <1>1, <1>2, RegisterNodeShape
<1> QED
  BY <1>3 DEF Register, TypeOK

LEMMA HandleHeartbeatShape ==
    ASSUME db \in Stores, NEW n \in Nodes, HandleHeartbeat(n)
    PROVE  /\ UNCHANGED <<agent, poll, exec, wire, starts, faults>>
           /\ db'.state = db.state /\ db'.node = db.node /\ db'.nodes = db.nodes
           /\ db'.alive = IF n \in db.nodes THEN db.alive \cup {n} ELSE db.alive
<1>1. db' = Heartbeat(db, n) /\ UNCHANGED <<agent, poll, exec, wire, starts, faults>>
  BY DEF HandleHeartbeat
<1> QED
  BY <1>1, HeartbeatShape

LEMMA MissHeartbeatsShape ==
    ASSUME db \in Stores, NEW n \in Nodes, MissHeartbeats(n)
    PROVE  /\ UNCHANGED <<agent, poll, exec, wire, starts>>
           /\ faults' = IF agent[n] = "crashed" THEN faults
                        ELSE [faults EXCEPT !.lapses = @ + 1]
           /\ db'.state = db.state /\ db'.node = db.node /\ db'.nodes = db.nodes
           /\ db'.alive = db.alive \ {n}
<1>1. /\ db' = Lapse(db, n) /\ UNCHANGED <<agent, poll, exec, wire, starts>>
      /\ faults' = IF agent[n] = "crashed" THEN faults
                   ELSE [faults EXCEPT !.lapses = @ + 1]
  BY DEF MissHeartbeats
<1> QED
  BY <1>1, LapseShape

LEMMA DeliverShape ==
    ASSUME TypeOK, NEW m \in wire, Deliver(m)
    PROVE  /\ UNCHANGED <<agent, poll, starts, faults>> /\ Resume(m)
           /\ wire' = wire \ {m}
           /\ db'.nodes = db.nodes /\ db'.alive = db.alive /\ db'.node = db.node
           /\ \A u \in Tasks : db'.state[u] = IF u = m.task /\ ~Refused(db, u)
                                             THEN m.state ELSE db.state[u]
<1>1. /\ db' = SetTaskState(db, m.task, m.state) /\ wire' = wire \ {m} /\ Resume(m)
      /\ UNCHANGED <<agent, poll, starts, faults>>
  BY DEF Deliver
<1>2. db \in Stores /\ m.task \in Tasks
  BY DEF TypeOK, Reports
<1> QED
  BY <1>1, <1>2, SetTaskStateShape

LEMMA GiveUpShape ==
    ASSUME TypeOK, NEW m \in wire, GiveUp(m)
    PROVE  /\ UNCHANGED <<db, agent, poll, starts>> /\ Resume(m) /\ m.awaited
           /\ faults' = [faults EXCEPT !.lost = @ + 1]
           /\ \A k \in wire' : k.awaited => k \in wire \ {m}
<1>1. \A k \in Reports : ~[k EXCEPT !.awaited = FALSE].awaited
  BY DEF Reports
<1> QED
  BY <1>1 DEF GiveUp, TypeOK

-----------------------------------------------------------------------------
(***************************************************************************)
(* An agent that does not run has nothing: it gets nothing before it is    *)
(* registered, and a crash takes everything.                               *)
(***************************************************************************)
LEMMA AgentsStep ==
    ASSUME IInv, [Next]_vars
    PROVE  AgentsOK'
<1>1. /\ db \in Stores /\ IInv /\ TypeOK /\ AgentsOK /\ AwaitedOK /\ wire \subseteq Reports
  BY DEF IInv, StoreOK, TypeOK
<1>2. CASE db'.nodes = db.nodes /\ UNCHANGED <<agent, poll, exec>>
  BY <1>1, <1>2 DEF AgentsOK
<1>3. ASSUME NEW t \in Tasks, RequeueOrphan(t)
      PROVE  AgentsOK'
  BY <1>1, <1>2, <1>3, RequeueOrphanShape
<1>4. ASSUME NEW t \in Tasks, NEW n \in Nodes, PlaceNext(t, n)
      PROVE  AgentsOK'
  BY <1>1, <1>2, <1>4, PlaceNextShape
<1>5. ASSUME NEW job \in SUBSET Tasks, SubmitJob(job)
      PROVE  AgentsOK'
  BY <1>1, <1>2, <1>5, SubmitJobShape
<1>6. ASSUME NEW n \in Nodes, Register(n)
      PROVE  AgentsOK'
  BY <1>1, <1>6, RegisterShape DEF AgentsOK
<1>7. ASSUME NEW n \in Nodes, HandleHeartbeat(n) \/ MissHeartbeats(n)
      PROVE  AgentsOK'
  BY <1>1, <1>2, <1>7, HandleHeartbeatShape, MissHeartbeatsShape
<1>8. ASSUME NEW n \in Nodes, PollStart(n)
      PROVE  AgentsOK'
  BY <1>1, <1>8, PollStartShape DEF AgentsOK
<1>9. ASSUME NEW n \in Nodes, PollServe(n)
      PROVE  AgentsOK'
  BY <1>1, <1>9, PollServeShape DEF AgentsOK, NoPoll
<1>10. ASSUME NEW n \in Nodes, PollHandle(n)
       PROVE  AgentsOK'
  BY <1>1, <1>10, PollHandleShape DEF AgentsOK, NoPoll
<1>14. ASSUME NEW n \in Nodes, PollFail(n)
       PROVE  AgentsOK'
  BY <1>1, <1>14, PollFailShape DEF AgentsOK, NoPoll
<1>15. ASSUME NEW n \in Nodes, Crash(n)
       PROVE  AgentsOK'
  BY <1>1, <1>15, CrashShape DEF AgentsOK, NoPoll
<1>16. ASSUME NEW n \in Nodes, NEW t \in Tasks, Supervise(n, t)
       PROVE  AgentsOK'
  BY <1>1, <1>16, SuperviseShape DEF AgentsOK
<1>11. ASSUME NEW m \in wire, Deliver(m) \/ GiveUp(m)
       PROVE  AgentsOK'
  <2>1. Resume(m) /\ UNCHANGED <<agent, poll>> /\ db'.nodes = db.nodes
    BY <1>1, <1>11, DeliverShape DEF GiveUp
  <2>2. \A k \in Nodes : \A u \in Tasks : agent[k] # "up" => exec'[k][u] = exec[k][u]
    BY <1>1, <2>1, ResumeShape
  <2> QED
    BY <1>1, <2>1, <2>2 DEF AgentsOK
<1>12. CASE UNCHANGED vars
  BY <1>2, <1>12 DEF vars
<1>13. CASE Recount \/ \E t \in Tasks : SkipNext(t)
  BY <1>2, <1>13 DEF Recount, SkipNext
<1> QED
  BY <1>3, <1>4, <1>5, <1>6, <1>7, <1>8, <1>9, <1>10, <1>11, <1>12, <1>13,
     <1>14, <1>15, <1>16 DEF Next, TickStep

(***************************************************************************)
(* A supervisor sends a report, then waits: it has no second one under     *)
(* way, and it is where it was when it sent it.                            *)
(***************************************************************************)
LEMMA AwaitedStep ==
    ASSUME IInv, [Next]_vars
    PROVE  AwaitedOK'
<1>1. /\ db \in Stores /\ IInv /\ TypeOK /\ AgentsOK /\ AwaitedOK /\ wire \subseteq Reports
  BY DEF IInv, StoreOK, TypeOK
<1>2. CASE UNCHANGED <<exec, wire>>
  BY <1>1, <1>2 DEF AwaitedOK
<1>3. ASSUME NEW t \in Tasks, RequeueOrphan(t) \/ SkipNext(t) \/ \E n \in Nodes : PlaceNext(t, n)
      PROVE  AwaitedOK'
  BY <1>2, <1>3 DEF RequeueOrphan, SkipNext, PlaceNext
<1>4. CASE Recount \/ \E job \in SUBSET Tasks : SubmitJob(job)
  BY <1>2, <1>4 DEF Recount, SubmitJob
<1>5. ASSUME NEW n \in Nodes,
             Register(n) \/ HandleHeartbeat(n) \/ MissHeartbeats(n) \/ PollServe(n) \/ PollFail(n)
      PROVE  AwaitedOK'
  BY <1>2, <1>5 DEF Register, HandleHeartbeat, MissHeartbeats, PollServe, PollFail
<1>6. ASSUME NEW n \in Nodes, PollStart(n)
      PROVE  AwaitedOK'
  BY <1>1, <1>6, PollStartShape DEF AwaitedOK, Reports
<1>7. ASSUME NEW n \in Nodes, PollHandle(n)
      PROVE  AwaitedOK'
  BY <1>1, <1>7, PollHandleShape DEF AwaitedOK, Reports
<1>8. ASSUME NEW n \in Nodes, Crash(n)
      PROVE  AwaitedOK'
  <2>1. \A k \in wire' : k.awaited => k \in wire /\ k.from # n
    <3>1. \A m \in Reports : ~[m EXCEPT !.awaited = FALSE].awaited
      BY DEF Reports
    <3> QED
      BY <1>1, <1>8, <3>1 DEF Crash
  <2>2. \A k \in wire' : k.awaited => exec'[k.from][k.task] = exec[k.from][k.task]
    BY <1>1, <1>8, <2>1, CrashShape DEF Reports
  <2> QED
    BY <1>1, <2>1, <2>2 DEF AwaitedOK
<1>9. ASSUME NEW n \in Nodes, NEW t \in Tasks, Supervise(n, t)
      PROVE  AwaitedOK'
  <2>1. PICK s : wire' = wire \cup {Report(n, t, s)}
    BY <1>1, <1>9, SuperviseShape
  <2>2. Report(n, t, s).from = n /\ Report(n, t, s).task = t
    BY DEF Report
  <2>3. \A k \in wire : k.awaited => ~ (k.from = n /\ k.task = t)
    BY <1>1, <1>9, SuperviseShape DEF AwaitedOK
  <2> HIDE DEF Report
  <2> QED
    BY <1>1, <1>9, <2>1, <2>2, <2>3, SuperviseShape DEF AwaitedOK, Reports
<1>10. ASSUME NEW m \in wire, Deliver(m) \/ GiveUp(m)
       PROVE  AwaitedOK'
  <2>1. Resume(m) /\ \A k \in wire' : k.awaited => k \in wire \ {m}
    BY <1>1, <1>10, DeliverShape, GiveUpShape
  <2>2. \A k \in wire' : k.awaited => exec'[k.from][k.task] = exec[k.from][k.task]
    BY <1>1, <2>1, ResumeShape DEF AwaitedOK, Reports
  <2> QED
    BY <1>1, <2>1, <2>2 DEF AwaitedOK
<1>11. CASE UNCHANGED vars
  BY <1>2, <1>11 DEF vars
<1> QED
  BY <1>3, <1>4, <1>5, <1>6, <1>7, <1>8, <1>9, <1>10, <1>11 DEF Next, TickStep

(***************************************************************************)
(* Where an agent has a task, the store has it, as long as no lapse is     *)
(* spent: the store moves only tasks whose node is dead, and only the node *)
(* of a crashed agent dies then, whose agent has nothing any more.         *)
(***************************************************************************)
LEMMA HostsStep ==
    ASSUME IInv, [Next]_vars
    PROVE  HostsOK'
<1>1. /\ db \in Stores /\ IInv /\ TypeOK /\ AgentsOK /\ AwaitedOK /\ HostsOK /\ Unplaced(db)
      /\ wire \subseteq Reports /\ faults \in [lapses : Nat, lost : Nat, crashes : Nat]
  BY DEF IInv, StoreOK, TypeOK
<1>3. ASSUME NEW t \in Tasks, RequeueOrphan(t)
      PROVE  HostsOK'
  <2>1. faults.lapses = 0 => \A n \in Nodes : ~Has(n, t)
    BY <1>1, <1>3, RequeueOrphanShape DEF HostsOK, AgentsOK, Has, NoPoll
  <2> QED
    BY <1>1, <1>3, <2>1, RequeueOrphanShape DEF HostsOK, Has
<1>4. ASSUME NEW t \in Tasks, NEW n \in Nodes, PlaceNext(t, n)
      PROVE  HostsOK'
  <2>1. faults.lapses = 0 => \A k \in Nodes : ~Has(k, t)
    <3>1. None \notin Nodes
      BY IdsAssumption, NoneAssumption
    <3> QED
      BY <1>1, <1>4, <3>1, PlaceNextShape DEF HostsOK, Unplaced
  <2> QED
    BY <1>1, <1>4, <2>1, PlaceNextShape DEF HostsOK, Has
<1>5. ASSUME NEW job \in SUBSET Tasks, SubmitJob(job)
      PROVE  HostsOK'
  BY <1>1, <1>5, SubmitJobShape DEF HostsOK, Has
<1>6. ASSUME NEW n \in Nodes, Register(n)
      PROVE  HostsOK'
  BY <1>1, <1>6, RegisterShape DEF HostsOK, Has
<1>7. ASSUME NEW n \in Nodes, HandleHeartbeat(n)
      PROVE  HostsOK'
  <2>1. db.alive \subseteq db'.alive
    BY <1>1, <1>7, HandleHeartbeatShape
  <2>2. UNCHANGED <<agent, poll, exec, faults>> /\ db'.node = db.node
    BY <1>1, <1>7, HandleHeartbeatShape
  <2> QED
    BY <1>1, <2>1, <2>2 DEF HostsOK, Has
<1>8. ASSUME NEW n \in Nodes, MissHeartbeats(n)
      PROVE  HostsOK'
  <2>1. CASE agent[n] = "crashed"
    BY <1>1, <1>8, <2>1, MissHeartbeatsShape DEF HostsOK, Has
  <2>2. CASE agent[n] # "crashed"
    BY <1>1, <1>8, <2>2, MissHeartbeatsShape DEF HostsOK
  <2> QED
    BY <2>1, <2>2
<1>9. ASSUME NEW n \in Nodes, PollStart(n)
      PROVE  HostsOK'
  <2>1. \A k \in Nodes : \A t \in Tasks : Has(k, t)' => Has(k, t)
    BY <1>1, <1>9, PollStartShape DEF Has
  <2> QED
    BY <1>1, <1>9, <2>1, PollStartShape DEF HostsOK
<1>10. ASSUME NEW n \in Nodes, PollServe(n)
       PROVE  HostsOK'
  <2>1. \A k \in Nodes : \A t \in Tasks :
            Has(k, t)' => Has(k, t) \/ (k = n /\ t \in Assignments(db, n))
    BY <1>1, <1>10, PollServeShape DEF Has
  <2>2. \A t \in Assignments(db, n) : db.node[t] = n
    BY DEF Assignments
  <2> QED
    BY <1>1, <1>10, <2>1, <2>2, PollServeShape DEF HostsOK
<1>11. ASSUME NEW n \in Nodes, PollHandle(n)
       PROVE  HostsOK'
  <2>1. \A k \in Nodes : \A t \in Tasks : Has(k, t)' => Has(k, t)
    BY <1>1, <1>11, PollHandleShape DEF Has, NoPoll
  <2> QED
    BY <1>1, <1>11, <2>1, PollHandleShape DEF HostsOK
<1>12. ASSUME NEW n \in Nodes, PollFail(n)
       PROVE  HostsOK'
  <2>1. \A k \in Nodes : \A t \in Tasks : Has(k, t)' => Has(k, t)
    BY <1>1, <1>12, PollFailShape DEF Has, NoPoll
  <2>2. faults'.lapses = faults.lapses
    BY <1>1, <1>12, PollFailShape
  <2> QED
    BY <1>1, <1>12, <2>1, <2>2, PollFailShape DEF HostsOK
<1>13. ASSUME NEW n \in Nodes, Crash(n)
       PROVE  HostsOK'
  <2>1. \A k \in Nodes : \A t \in Tasks : Has(k, t)' => Has(k, t)
    BY <1>1, <1>13, CrashShape DEF Has, NoPoll
  <2>2. faults'.lapses = faults.lapses
    BY <1>1, <1>13, CrashShape
  <2> QED
    BY <1>1, <1>13, <2>1, <2>2, CrashShape DEF HostsOK
<1>14. ASSUME NEW n \in Nodes, NEW t \in Tasks, Supervise(n, t)
       PROVE  HostsOK'
  <2>1. \A k \in Nodes : \A u \in Tasks : Has(k, u)' => Has(k, u)
    BY <1>1, <1>14, SuperviseShape DEF Has
  <2> QED
    BY <1>1, <1>14, <2>1, SuperviseShape DEF HostsOK
<1>15. ASSUME NEW m \in wire, Deliver(m) \/ GiveUp(m)
       PROVE  HostsOK'
  <2>1. /\ Resume(m) /\ UNCHANGED <<agent, poll>> /\ faults'.lapses = faults.lapses
        /\ db'.alive = db.alive /\ db'.node = db.node
    BY <1>1, <1>15, DeliverShape, GiveUpShape
  <2>2. \A k \in Nodes : \A t \in Tasks : Has(k, t)' => Has(k, t)
    BY <1>1, <2>1, ResumeShape DEF Has
  <2> QED
    BY <1>1, <2>1, <2>2 DEF HostsOK
<1>16. CASE UNCHANGED vars
  BY <1>1, <1>16 DEF vars, HostsOK, Has
<1>17. CASE Recount \/ \E t \in Tasks : SkipNext(t)
  BY <1>1, <1>17 DEF Recount, SkipNext, HostsOK, Has
<1> QED
  BY <1>3, <1>4, <1>5, <1>6, <1>7, <1>8, <1>9, <1>10, <1>11, <1>12, <1>13,
     <1>14, <1>15, <1>16, <1>17 DEF Next, TickStep

-----------------------------------------------------------------------------
(***************************************************************************)
(* The credit of a task. A step may take a stale answer and pay for it     *)
(* with a start, leave one behind and pay with what made it stale, or not  *)
(* add any.                                                                *)
(***************************************************************************)
LEMMA CreditCases ==
    ASSUME NEW S, IsFiniteSet(S), NEW T,
           NEW a \in Nat, NEW b \in Nat, NEW p \in Nat, NEW q \in Nat,
           a + Cardinality(S) =< 1 + p,
           \/ T \subseteq S /\ b + p =< a + q
           \/ \E x : T \subseteq S \cup {x} /\ b + 1 + p =< a + q
           \/ \E x \in S : T \subseteq S \ {x} /\ b + p =< a + 1 + q
    PROVE  IsFiniteSet(T) /\ b + Cardinality(T) =< 1 + q
<1>1. Cardinality(S) \in Nat
  BY FS_CardinalityType
<1>2. CASE T \subseteq S /\ b + p =< a + q
  <2>1. IsFiniteSet(T) /\ Cardinality(T) =< Cardinality(S) /\ Cardinality(T) \in Nat
    BY <1>2, FS_Subset, FS_CardinalityType
  <2> QED
    BY <1>1, <1>2, <2>1
<1>3. ASSUME NEW x, T \subseteq S \cup {x}, b + 1 + p =< a + q
      PROVE  IsFiniteSet(T) /\ b + Cardinality(T) =< 1 + q
  <2>1. IsFiniteSet(S \cup {x}) /\ Cardinality(S \cup {x}) =< Cardinality(S) + 1
    <3>1. /\ IsFiniteSet(S \cup {x})
          /\ Cardinality(S \cup {x}) = IF x \in S THEN Cardinality(S) ELSE Cardinality(S) + 1
      BY FS_AddElement
    <3> QED
      BY <1>1, <3>1
  <2>2. Cardinality(S \cup {x}) \in Nat
    BY <2>1, FS_CardinalityType
  <2>3. IsFiniteSet(T) /\ Cardinality(T) =< Cardinality(S \cup {x}) /\ Cardinality(T) \in Nat
    BY <1>3, <2>1, FS_Subset, FS_CardinalityType
  <2> QED
    BY <1>1, <1>3, <2>1, <2>2, <2>3
<1>4. ASSUME NEW x \in S, T \subseteq S \ {x}, b + p =< a + 1 + q
      PROVE  IsFiniteSet(T) /\ b + Cardinality(T) =< 1 + q
  <2>1. IsFiniteSet(S \ {x}) /\ Cardinality(S \ {x}) = Cardinality(S) - 1
    BY FS_RemoveElement
  <2>2. Cardinality(S \ {x}) \in Nat
    BY <2>1, FS_CardinalityType
  <2>3. IsFiniteSet(T) /\ Cardinality(T) =< Cardinality(S \ {x}) /\ Cardinality(T) \in Nat
    BY <1>4, <2>1, FS_Subset, FS_CardinalityType
  <2> QED
    BY <1>1, <1>4, <2>1, <2>2, <2>3
<1> QED
  BY <1>2, <1>3, <1>4

\* The credit of t after a step, from what the step does to its parts
LEMMA CreditOfStep ==
    ASSUME TypeOK, TypeOK', CreditOK, NEW t \in Tasks,
           \/ Stale(t)' \subseteq Stale(t) /\ Spent(t)' + Paid =< Spent(t) + Paid'
           \/ \E n : /\ Stale(t)' \subseteq Stale(t) \cup {n}
                     /\ Spent(t)' + 1 + Paid =< Spent(t) + Paid'
           \/ \E n \in Stale(t) : /\ Stale(t)' \subseteq Stale(t) \ {n}
                                  /\ Spent(t)' + Paid =< Spent(t) + 1 + Paid'
    PROVE  IsFiniteSet(Stale(t)') /\ Spent(t)' + Cardinality(Stale(t)') =< 1 + Paid'
<1>1. Spent(t) \in Nat /\ Paid \in Nat
  BY DEF Spent, Paid, TypeOK, Waits, Dying, Due
<1>2. Spent(t)' \in Nat /\ Paid' \in Nat
  BY DEF Spent, Paid, TypeOK, Waits, Dying, Due
<1>3. IsFiniteSet(Stale(t)) /\ Spent(t) + Cardinality(Stale(t)) =< 1 + Paid
  BY DEF CreditOK
<1> DEFINE S == Stale(t)
           T == Stale(t)'
           a == Spent(t)
           b == Spent(t)'
           p == Paid
           q == Paid'
<1>4. IsFiniteSet(S) /\ a \in Nat /\ b \in Nat /\ p \in Nat /\ q \in Nat
      /\ a + Cardinality(S) =< 1 + p
  BY <1>1, <1>2, <1>3
<1>5. \/ T \subseteq S /\ b + p =< a + q
      \/ \E x : T \subseteq S \cup {x} /\ b + 1 + p =< a + q
      \/ \E x \in S : T \subseteq S \ {x} /\ b + p =< a + 1 + q
  OBVIOUS
<1> HIDE DEF S, T, a, b, p, q
<1>6. IsFiniteSet(T) /\ b + Cardinality(T) =< 1 + q
  BY <1>4, <1>5, CreditCases
<1> QED
  BY <1>6 DEF T, b, q

\* A step of t that does not overdraw: what it adds, it pays for
Earned(t) ==
    \/ Stale(t)' \subseteq Stale(t) /\ Spent(t)' + Paid =< Spent(t) + Paid'
    \/ \E n : /\ Stale(t)' \subseteq Stale(t) \cup {n}
              /\ Spent(t)' + 1 + Paid =< Spent(t) + Paid'
    \/ \E n \in Stale(t) : /\ Stale(t)' \subseteq Stale(t) \ {n}
                           /\ Spent(t)' + Paid =< Spent(t) + 1 + Paid'

(***************************************************************************)
(* Every step is one of these. A requeue turns a dying task into a waiting *)
(* one, a pass a waiting one into one that is due, the answer to a poll    *)
(* one that is due into a start; every step that goes back in this order   *)
(* is a fault.                                                             *)
(***************************************************************************)
LEMMA CreditStep ==
    ASSUME IInv, [Next]_vars, NEW t \in Tasks
    PROVE  Earned(t)
<1>1. /\ db \in Stores /\ IInv /\ TypeOK /\ AgentsOK /\ AwaitedOK /\ Unplaced(db)
      /\ wire \subseteq Reports /\ faults \in [lapses : Nat, lost : Nat, crashes : Nat]
      /\ starts \in [Tasks -> Nat] /\ None \notin Nodes
  BY IdsAssumption, NoneAssumption DEF IInv, StoreOK, TypeOK
<1>2. Spent(t) \in Nat /\ Paid \in Nat /\ starts[t] \in Nat
  BY <1>1 DEF Spent, Paid, TypeOK, Waits, Dying, Due
<1>3. ASSUME NEW u \in Tasks, RequeueOrphan(u)
      PROVE  Earned(t)
  <2>1. CASE t # u
    <3>1. Stale(t)' = Stale(t)
      BY <1>1, <1>3, <2>1, RequeueOrphanShape DEF Stale
    <3>2. Spent(t)' = Spent(t) /\ Paid' = Paid
      BY <1>1, <1>3, <2>1, RequeueOrphanShape DEF Spent, Waits, Dying, Due, Paid, IsLive
    <3> QED
      BY <1>2, <3>1, <3>2 DEF Earned
  <2>2. CASE t = u
    <3>1. /\ IsLive(db, t) /\ db.node[t] \in db.nodes \ db.alive
          /\ db'.state[t] = "pending" /\ UNCHANGED <<starts, faults, poll, exec, agent>>
      BY <1>1, <1>3, <2>2, RequeueOrphanShape
    <3>2. Waits(t) = 0 /\ Dying(t) = 1 /\ Waits(t)' = 1 /\ Dying(t)' = 0 /\ Due(t)' = 0
      BY <3>1 DEF Waits, Dying, Due, IsLive, Live
    <3>3. Due(t) \in {0, 1} /\ Paid' = Paid
      BY <3>1 DEF Due, Paid
    <3>4. Stale(t)' \subseteq Stale(t) \cup {db.node[t]}
      BY <3>1 DEF Stale
    <3>5. CASE Due(t) = 1
      <4>1. Spent(t)' + 1 + Paid =< Spent(t) + Paid'
        BY <1>2, <3>1, <3>2, <3>3, <3>5 DEF Spent
      <4> QED
        BY <3>4, <4>1, Zenon DEF Earned
    <3>6. CASE Due(t) = 0
      <4>1. Stale(t)' \subseteq Stale(t)
        <5>1. \A n \in Nodes : t \in poll[n].tasks => agent[n] = "up"
          BY <1>1 DEF AgentsOK, NoPoll
        <5>2. ASSUME NEW n \in Nodes, t \in poll[n].tasks, exec[n][t] = "none"
              PROVE  ~ (db.state[t] = "assigned" /\ db.node[t] = n)
          BY <3>1, <3>6, <5>1, <5>2 DEF Due
        <5> QED
          BY <3>1, <5>2 DEF Stale
      <4> QED
        BY <1>2, <3>1, <3>2, <3>3, <3>6, <4>1 DEF Earned, Spent
    <3> QED
      BY <3>3, <3>5, <3>6
  <2> QED
    BY <2>1, <2>2
<1>4. ASSUME NEW u \in Tasks, NEW n \in Nodes, PlaceNext(u, n)
      PROVE  Earned(t)
  <2>1. /\ UNCHANGED <<agent, poll, exec, starts, faults>>
        /\ db'.nodes = db.nodes /\ db'.alive = db.alive /\ n \in db.alive
    BY <1>1, <1>4, PlaceNextShape
  <2>2. CASE db'.state[t] = db.state[t] /\ db'.node[t] = db.node[t]
    <3>1. Stale(t)' = Stale(t)
      BY <2>1, <2>2 DEF Stale
    <3>2. Spent(t)' = Spent(t) /\ Paid' = Paid
      BY <2>1, <2>2 DEF Spent, Waits, Dying, Due, Paid, IsLive
    <3> QED
      BY <1>2, <3>1, <3>2 DEF Earned
  <2>3. CASE db.state[t] = "pending" /\ db'.state[t] = "assigned" /\ db'.node[t] = n
    <3>1. Stale(t)' \subseteq Stale(t)
      BY <2>1, <2>3 DEF Stale
    <3>2. Waits(t) = 1 /\ Dying(t) = 0 /\ Due(t) = 0
      BY <2>3 DEF Waits, Dying, Due, IsLive, Live
    <3>3. Waits(t)' = 0 /\ Dying(t)' + Due(t)' =< 1
      BY <2>1, <2>3 DEF Waits, Dying, Due
    <3>4. Dying(t)' \in Nat /\ Due(t)' \in Nat /\ Paid' = Paid
      BY <2>1 DEF Dying, Due, Paid
    <3> QED
      BY <1>2, <2>1, <3>1, <3>2, <3>3, <3>4 DEF Earned, Spent
  <2> QED
    BY <1>1, <1>4, <2>2, <2>3, PlaceNextShape
<1>5. ASSUME NEW job \in SUBSET Tasks, SubmitJob(job)
      PROVE  Earned(t)
  <2>1. /\ UNCHANGED <<agent, poll, exec, starts, faults>>
        /\ db'.nodes = db.nodes /\ db'.alive = db.alive /\ db'.node = db.node
        /\ db'.state[t] = db.state[t] \/ (db.state[t] = "absent" /\ db'.state[t] = "pending")
    BY <1>1, <1>5, SubmitJobShape
  <2>2. Stale(t)' = Stale(t)
    BY <2>1 DEF Stale
  <2>3. Spent(t)' = Spent(t) /\ Paid' = Paid
    BY <2>1 DEF Spent, Waits, Dying, Due, Paid, IsLive, Live
  <2> QED
    BY <1>2, <2>2, <2>3 DEF Earned
<1>6. ASSUME NEW n \in Nodes, Register(n)
      PROVE  Earned(t)
  <2>1. /\ UNCHANGED <<poll, exec, starts, faults>>
        /\ db'.state = db.state /\ db'.node = db.node
        /\ db'.nodes = db.nodes \cup {n} /\ db'.alive = db.alive \cup {n}
        /\ \A k \in Nodes : agent'[k] = IF k = n THEN "up" ELSE agent[k]
    BY <1>1, <1>6, RegisterShape
  <2>2. n \notin db.nodes
    BY <1>1, <1>6, RegisterShape DEF AgentsOK
  <2>3. Stale(t)' = Stale(t)
    BY <2>1 DEF Stale
  <2>4. db.node[t] = None \/ (db.node[t] \in db.nodes /\ db.node[t] # n /\ db.node[t] \in Nodes)
    BY <1>1, <2>2 DEF Unplaced, Stores
  <2>5. Spent(t)' = Spent(t) /\ Paid' = Paid
    <3>1. CASE db.node[t] = None
      <4>1. None \notin db.nodes /\ None \notin db'.nodes
        BY <1>1, <2>1 DEF Stores
      <4> QED
        BY <2>1, <3>1, <4>1 DEF Spent, Waits, Dying, Due, Paid, IsLive
    <3>2. CASE db.node[t] \in db.nodes /\ db.node[t] # n /\ db.node[t] \in Nodes
      BY <2>1, <3>2 DEF Spent, Waits, Dying, Due, Paid, IsLive
    <3> QED
      BY <2>4, <3>1, <3>2
  <2> QED
    BY <1>2, <2>3, <2>5 DEF Earned
<1>7. ASSUME NEW n \in Nodes, HandleHeartbeat(n)
      PROVE  Earned(t)
  <2>1. db.alive \subseteq db'.alive
    BY <1>1, <1>7, HandleHeartbeatShape
  <2>2. /\ UNCHANGED <<agent, poll, exec, starts, faults>>
        /\ db'.state = db.state /\ db'.node = db.node /\ db'.nodes = db.nodes
    BY <1>1, <1>7, HandleHeartbeatShape
  <2>3. Stale(t)' = Stale(t) /\ Paid' = Paid
    BY <2>2 DEF Stale, Paid
  <2>4. Waits(t)' = Waits(t) /\ Due(t)' = Due(t) /\ Dying(t)' =< Dying(t)
    BY <2>1, <2>2 DEF Waits, Dying, Due, IsLive
  <2>5. Waits(t) \in Nat /\ Due(t) \in Nat /\ Dying(t) \in Nat /\ Dying(t)' \in Nat
    BY DEF Waits, Due, Dying
  <2> QED
    BY <1>2, <2>2, <2>3, <2>4, <2>5 DEF Earned, Spent
<1>8. ASSUME NEW n \in Nodes, MissHeartbeats(n)
      PROVE  Earned(t)
  <2>1. /\ UNCHANGED <<agent, poll, exec, starts>>
        /\ db'.state = db.state /\ db'.node = db.node /\ db'.nodes = db.nodes
        /\ db'.alive = db.alive \ {n}
        /\ faults' = IF agent[n] = "crashed" THEN faults ELSE [faults EXCEPT !.lapses = @ + 1]
    BY <1>1, <1>8, MissHeartbeatsShape
  <2>2. Stale(t)' = Stale(t)
    BY <2>1 DEF Stale
  <2>3. Waits(t)' = Waits(t) /\ Due(t)' = Due(t)
    BY <2>1 DEF Waits, Due
  <2>4. Waits(t) \in Nat /\ Due(t) \in Nat /\ Dying(t) \in {0, 1} /\ Dying(t)' \in {0, 1}
    BY DEF Waits, Due, Dying
  <2>5. CASE agent[n] = "crashed"
    <3>1. Dying(t)' = Dying(t) /\ Paid' = Paid
      BY <2>1, <2>5 DEF Dying, IsLive, Paid
    <3> QED
      BY <1>2, <2>1, <2>2, <2>3, <2>4, <3>1 DEF Earned, Spent
  <2>6. CASE agent[n] # "crashed"
    <3>1. Paid' = Paid + 1
      BY <1>1, <2>1, <2>6 DEF Paid
    <3> QED
      BY <1>2, <2>1, <2>2, <2>3, <2>4, <3>1 DEF Earned, Spent
  <2> QED
    BY <2>5, <2>6
<1>9. ASSUME NEW n \in Nodes, PollStart(n)
      PROVE  Earned(t)
  <2>1. /\ UNCHANGED <<db, agent, starts, faults>>
        /\ poll[n].tasks = {}
        /\ \A k \in Nodes : poll'[k].tasks = poll[k].tasks
        /\ \A k \in Nodes : exec'[k][t] = IF k = n /\ exec[k][t] = "finished" THEN "none"
                                                                   ELSE exec[k][t]
    BY <1>1, <1>9, PollStartShape DEF AgentsOK
  <2>2. Stale(t)' \subseteq Stale(t)
    BY <2>1 DEF Stale
  <2>3. Spent(t)' = Spent(t) /\ Paid' = Paid
    <3>1. db.nodes \subseteq Nodes
      BY <1>1 DEF Stores
    <3>2. Due(t)' = Due(t)
      BY <2>1, <3>1 DEF Due
    <3> QED
      BY <2>1, <3>2 DEF Spent, Waits, Dying, Paid, IsLive
  <2> QED
    BY <1>2, <2>2, <2>3 DEF Earned
<1>10. ASSUME NEW n \in Nodes, PollServe(n)
       PROVE  Earned(t)
  <2>1. /\ UNCHANGED <<db, agent, exec, starts, faults>>
        /\ \A k \in Nodes \ {n} : poll'[k] = poll[k]
        /\ poll'[n].tasks = Assignments(db, n)
    BY <1>1, <1>10, PollServeShape
  <2>2. Stale(t)' \subseteq Stale(t)
    BY <2>1 DEF Stale, Assignments
  <2>3. Spent(t)' = Spent(t) /\ Paid' = Paid
    BY <2>1 DEF Spent, Waits, Dying, Due, Paid, IsLive
  <2> QED
    BY <1>2, <2>2, <2>3 DEF Earned
<1>11. ASSUME NEW n \in Nodes, PollHandle(n)
       PROVE  Earned(t)
  <2>1. /\ UNCHANGED <<db, agent, faults>>
        /\ agent[n] = "up"
        /\ \A k \in Nodes \ {n} : poll'[k] = poll[k]
        /\ poll'[n].tasks = {}
        /\ \A k \in Nodes : 
              exec'[k][t] = IF k = n /\ t \in poll[n].tasks /\ exec[k][t] = "none"
                            THEN "starting" ELSE exec[k][t]
        /\ starts'[t] = IF t \in poll[n].tasks /\ exec[n][t] = "none"
                        THEN starts[t] + 1 ELSE starts[t]
    BY <1>1, <1>11, PollHandleShape DEF AgentsOK, NoPoll
  <2>2. Stale(t)' \subseteq Stale(t) \ {n}
    BY <2>1 DEF Stale
  <2>3. Waits(t)' = Waits(t) /\ Dying(t)' = Dying(t) /\ Paid' = Paid
    BY <2>1 DEF Waits, Dying, IsLive, Paid
  <2>4. Waits(t) \in Nat /\ Dying(t) \in Nat /\ Due(t) \in {0, 1} /\ Due(t)' \in {0, 1}
    BY DEF Waits, Due, Dying
  <2>5. db.nodes \subseteq Nodes
    BY <1>1 DEF Stores
  <2>6. Due(t)' =< Due(t)
    BY <2>1, <2>5 DEF Due
  <2>7. CASE ~ (t \in poll[n].tasks /\ exec[n][t] = "none")
    BY <1>2, <2>1, <2>2, <2>3, <2>4, <2>6, <2>7 DEF Earned, Spent
  <2>8. CASE t \in poll[n].tasks /\ exec[n][t] = "none" /\ n \in Stale(t)
    BY <1>2, <2>1, <2>2, <2>3, <2>4, <2>6, <2>8 DEF Earned, Spent
  <2>9. CASE t \in poll[n].tasks /\ exec[n][t] = "none" /\ n \notin Stale(t)
    <3>1. db.state[t] = "assigned" /\ db.node[t] = n
      BY <2>9 DEF Stale
    <3>2. n \in db.nodes
      BY <1>1, <2>1 DEF AgentsOK
    <3>3. Due(t) = 1 /\ Due(t)' = 0
      BY <2>1, <2>9, <3>1, <3>2 DEF Due
    <3> QED
      BY <1>2, <2>1, <2>2, <2>3, <2>4, <2>9, <3>3 DEF Earned, Spent
  <2> QED
    BY <2>7, <2>8, <2>9
<1>12. ASSUME NEW n \in Nodes, PollFail(n)
       PROVE  Earned(t)
  <2>1. /\ UNCHANGED <<db, agent, exec, starts>>
        /\ \A k \in Nodes \ {n} : poll'[k] = poll[k]
        /\ poll'[n].tasks = {}
        /\ faults' = [faults EXCEPT !.lost = @ + 1]
    BY <1>1, <1>12, PollFailShape DEF NoPoll
  <2>2. Stale(t)' \subseteq Stale(t)
    BY <2>1 DEF Stale
  <2>3. Spent(t)' = Spent(t)
    BY <2>1 DEF Spent, Waits, Dying, Due, IsLive
  <2>4. Paid' = Paid + 1
    BY <1>1, <2>1 DEF Paid
  <2> QED
    BY <1>2, <2>2, <2>3, <2>4 DEF Earned
<1>13. ASSUME NEW n \in Nodes, Crash(n)
       PROVE  Earned(t)
  <2>1. /\ UNCHANGED <<db, starts>>
        /\ faults' = [faults EXCEPT !.crashes = @ + 1]
        /\ \A k \in Nodes \ {n} : poll'[k] = poll[k]
        /\ poll'[n].tasks = {}
        /\ \A k \in Nodes : exec'[k][t] = IF k = n THEN "none" ELSE exec[k][t]
        /\ \A k \in Nodes : agent'[k] = IF k = n THEN "crashed" ELSE agent[k]
        /\ agent[n] = "up"
    BY <1>1, <1>13, CrashShape DEF NoPoll
  <2>2. Stale(t)' \subseteq Stale(t)
    BY <2>1 DEF Stale
  <2>3. db.nodes \subseteq Nodes
    BY <1>1 DEF Stores
  <2>4. Waits(t)' = Waits(t) /\ Waits(t) \in Nat
    BY <2>1 DEF Waits
  <2>5. Due(t)' =< Due(t)
    BY <2>1, <2>3 DEF Due
  <2>6. Due(t) \in Nat /\ Due(t)' \in Nat /\ Dying(t) \in {0, 1} /\ Dying(t)' \in {0, 1}
    BY DEF Due, Dying
  <2>7. Paid' = Paid + 1
    BY <1>1, <2>1 DEF Paid
  <2> QED
    BY <1>2, <2>1, <2>2, <2>4, <2>5, <2>6, <2>7 DEF Earned, Spent
<1>14. ASSUME NEW n \in Nodes, NEW u \in Tasks, Supervise(n, u)
       PROVE  Earned(t)
  <2>1. /\ UNCHANGED <<db, agent, poll, starts, faults>>
        /\ \A k \in Nodes : \/ exec'[k][t] = exec[k][t]
                            \/ exec'[k][t] \notin {"none", "finished"}
    BY <1>1, <1>14, SuperviseShape
  <2>2. Stale(t)' \subseteq Stale(t)
    BY <2>1 DEF Stale
  <2>3. Waits(t)' = Waits(t) /\ Dying(t)' = Dying(t) /\ Paid' = Paid
    BY <2>1 DEF Waits, Dying, IsLive, Paid
  <2>4. Waits(t) \in Nat /\ Dying(t) \in Nat /\ Due(t) \in {0, 1} /\ Due(t)' \in {0, 1}
    BY DEF Waits, Due, Dying
  <2>5. db.nodes \subseteq Nodes
    BY <1>1 DEF Stores
  <2>6. Due(t)' =< Due(t)
    BY <2>1, <2>5 DEF Due
  <2> QED
    BY <1>2, <2>1, <2>2, <2>3, <2>4, <2>6 DEF Earned, Spent
<1>15. ASSUME NEW m \in wire, Deliver(m)
       PROVE  Earned(t)
  <2>1. /\ UNCHANGED <<agent, poll, starts, faults>>
        /\ db'.nodes = db.nodes /\ db'.alive = db.alive /\ db'.node = db.node
        /\ db'.state[t] = IF t = m.task /\ ~Refused(db, t) THEN m.state ELSE db.state[t]
        /\ m.state \in {"running"} \cup Terminal
    BY <1>1, <1>15, DeliverShape DEF Reports
  <2>2. \A k \in Nodes :
            /\ exec'[k][t] = "none" <=> exec[k][t] = "none"
            /\ exec'[k][t] = exec[k][t] \/ t = m.task
    BY <1>1, <1>15, DeliverShape, ResumeShape
  <2>3. db.nodes \subseteq Nodes /\ db.state[t] \in TaskStates
    BY <1>1 DEF Stores
  <2>4. CASE t # m.task
    <3>1. Stale(t)' = Stale(t)
      BY <2>1, <2>2, <2>4 DEF Stale
    <3>2. Due(t)' = Due(t)
      BY <2>1, <2>2, <2>3, <2>4 DEF Due
    <3>3. Spent(t)' = Spent(t) /\ Paid' = Paid
      BY <2>1, <2>4, <3>2 DEF Spent, Waits, Dying, IsLive, Paid
    <3> QED
      BY <1>2, <3>1, <3>3 DEF Earned
  <2>5. CASE t = m.task /\ Refused(db, t)
    <3>1. db'.state[t] = db.state[t] /\ db.state[t] # "assigned"
      BY <2>1, <2>5 DEF Refused, IsTerminal, Terminal
    <3>2. Stale(t)' = Stale(t)
      BY <2>1, <2>2, <3>1 DEF Stale
    <3>3. Spent(t)' = Spent(t) /\ Paid' = Paid
      BY <2>1, <3>1 DEF Spent, Waits, Dying, Due, IsLive, Paid
    <3> QED
      BY <1>2, <3>2, <3>3 DEF Earned
  <2>6. CASE t = m.task /\ ~Refused(db, t)
    <3>1. db'.state[t] = m.state /\ db.state[t] \in {"pending", "assigned", "running"}
      BY <2>1, <2>3, <2>6 DEF Refused, IsTerminal, Terminal, TaskStates, Live
    <3>2. Waits(t)' = 0 /\ Due(t)' = 0 /\ Paid' = Paid
      BY <2>1, <3>1 DEF Waits, Due, Terminal, Paid
    <3>3. Dying(t)' =< Dying(t) + Waits(t)
      BY <1>1, <2>1, <3>1 DEF Dying, Waits, IsLive, Live, Terminal
    <3>4. Waits(t) \in Nat /\ Dying(t) \in Nat /\ Dying(t)' \in Nat /\ Due(t) \in {0, 1}
      BY DEF Waits, Due, Dying
    <3>5. Stale(t)' \subseteq Stale(t) \cup {db.node[t]}
      BY <2>1, <2>2 DEF Stale
    <3>6. CASE Due(t) = 1
      <4>1. Spent(t)' + 1 + Paid =< Spent(t) + Paid'
        BY <1>2, <2>1, <3>2, <3>3, <3>4, <3>6 DEF Spent
      <4> QED
        BY <3>5, <4>1, Zenon DEF Earned
    <3>7. CASE Due(t) = 0
      <4>1. \A n \in Nodes : t \in poll[n].tasks => agent[n] = "up" /\ n \in db.nodes
        BY <1>1 DEF AgentsOK, NoPoll
      <4>2. ASSUME NEW n \in Nodes, t \in poll[n].tasks, exec[n][t] = "none"
            PROVE  ~ (db.state[t] = "assigned" /\ db.node[t] = n)
        BY <3>7, <4>1, <4>2 DEF Due
      <4>3. Stale(t)' \subseteq Stale(t)
        BY <2>1, <2>2, <4>2 DEF Stale
      <4> QED
        BY <1>2, <2>1, <3>2, <3>3, <3>4, <3>7, <4>3 DEF Earned, Spent
    <3> QED
      BY <3>4, <3>6, <3>7
  <2> QED
    BY <2>4, <2>5, <2>6
<1>16. ASSUME NEW m \in wire, GiveUp(m)
       PROVE  Earned(t)
  <2>1. /\ UNCHANGED <<db, agent, poll, starts>>
        /\ faults' = [faults EXCEPT !.lost = @ + 1]
        /\ \A k \in Nodes : exec'[k][t] = "none" <=> exec[k][t] = "none"
    BY <1>1, <1>16, GiveUpShape, ResumeShape
  <2>2. Stale(t)' = Stale(t)
    BY <2>1 DEF Stale
  <2>3. Waits(t)' = Waits(t) /\ Dying(t)' = Dying(t)
    BY <2>1 DEF Waits, Dying, IsLive
  <2>4. Waits(t) \in Nat /\ Dying(t) \in Nat /\ Due(t) \in {0, 1} /\ Due(t)' \in {0, 1}
    BY DEF Waits, Due, Dying
  <2>5. Paid' = Paid + 1
    BY <1>1, <2>1 DEF Paid
  <2> QED
    BY <1>2, <2>1, <2>2, <2>3, <2>4, <2>5 DEF Earned, Spent
<1>17. CASE UNCHANGED <<db, agent, poll, exec, starts, faults>>
  <2>1. Stale(t)' = Stale(t)
    BY <1>17 DEF Stale
  <2>2. Spent(t)' = Spent(t) /\ Paid' = Paid
    BY <1>17 DEF Spent, Waits, Dying, Due, Paid, IsLive
  <2> QED
    BY <1>2, <2>1, <2>2 DEF Earned
<1>18. CASE UNCHANGED vars
  BY <1>17, <1>18 DEF vars
<1>19. CASE Recount \/ \E u \in Tasks : SkipNext(u)
  BY <1>17, <1>19 DEF Recount, SkipNext
<1> QED
  BY <1>3, <1>4, <1>5, <1>6, <1>7, <1>8, <1>9, <1>10, <1>11, <1>12, <1>13,
     <1>14, <1>15, <1>16, <1>18, <1>19 DEF Next, TickStep

LEMMA CreditKept ==
    ASSUME IInv, [Next]_vars, TypeOK'
    PROVE  CreditOK'
<1>1. TypeOK /\ CreditOK
  BY DEF IInv
<1> SUFFICES ASSUME NEW t \in Tasks
             PROVE  IsFiniteSet(Stale(t)') /\ Spent(t)' + Cardinality(Stale(t)') =< 1 + Paid'
  BY DEF CreditOK
<1>2. Earned(t)
  BY CreditStep
<1> QED
  BY <1>1, <1>2, CreditOfStep DEF Earned

-----------------------------------------------------------------------------
\* A node with fewer tasks, or the same, is still accounted for
LEMMA FewerAccounted ==
    ASSUME NEW s, NEW after, NEW n, NEW r \in Resources,
           FitsIn(Held(TasksOn(s, n)), r, NoResources), TasksOn(after, n) \subseteq TasksOn(s, n)
    PROVE  FitsIn(Held(TasksOn(after, n)), r, NoResources)
<1>1. TasksOn(s, n) \in SUBSET Tasks /\ IsFiniteSet(TasksOn(s, n))
  <2>1. TasksOn(s, n) \in SUBSET Tasks
    BY DEF TasksOn
  <2> QED
    BY <2>1, TasksAssumption, FS_Subset
<1> DEFINE ts == TasksOn(s, n)
           us == TasksOn(after, n)
<1>2. us \in SUBSET ts
  OBVIOUS
<1>3. FitsIn(Held(ts), r, NoResources)
  OBVIOUS
<1> HIDE DEF ts, us
<1>4. /\ Held(ts) \in Resources /\ Held(us) \in Resources
      /\ Held(us).cpu =< Held(ts).cpu /\ Held(us).mem =< Held(ts).mem
  BY <1>1, <1>2, HeldSubset DEF ts
<1>5. FitsIn(Held(us), r, NoResources)
  BY <1>3, <1>4 DEF FitsIn, NoResources, Resources
<1> QED
  BY <1>5 DEF us

\* What a node holds is some resources
LEMMA HeldIsResources ==
    ASSUME NEW s, NEW n
    PROVE  Held(TasksOn(s, n)) \in Resources
<1>1. TasksOn(s, n) \in SUBSET Tasks
  BY DEF TasksOn
<1>2. IsFiniteSet(TasksOn(s, n))
  BY <1>1, TasksAssumption, FS_Subset
<1> QED
  BY <1>1, <1>2, HeldSubset

(***************************************************************************)
(* The accounting. Recount makes it exact, a placement adds to it what it  *)
(* adds to the node, and every other step at most takes tasks from nodes;  *)
(* a node that registers had no tasks.                                     *)
(***************************************************************************)
LEMMA AccountStep ==
    ASSUME IInv, [Next]_vars
    PROVE  AccountOK'
<1>1. /\ db \in Stores /\ IInv /\ TypeOK /\ AgentsOK /\ AwaitedOK /\ Unplaced(db)
      /\ wire \subseteq Reports /\ None \notin Nodes
      /\ AccountOK /\ used \in [Nodes -> Resources] /\ Total \in [Nodes -> Resources]
  BY IdsAssumption, NoneAssumption, SpecAssumption DEF IInv, StoreOK, TypeOK, AccountOK
<1>2. \A n \in Nodes : /\ FitsIn(Held(TasksOn(db, n)), used[n], NoResources)
                       /\ FitsIn(used[n], Total[n], NoResources)
  BY <1>1 DEF AccountOK, NoOvercommit
<1>3. CASE used' = used /\ \A n \in Nodes : TasksOn(db', n) \subseteq TasksOn(db, n)
  <2>1. \A n \in Nodes : FitsIn(Held(TasksOn(db', n)), used[n], NoResources)
    BY <1>1, <1>2, <1>3, FewerAccounted
  <2> QED
    BY <1>1, <1>2, <1>3, <2>1 DEF AccountOK, NoOvercommit
<1>4. ASSUME NEW t \in Tasks, RequeueOrphan(t)
      PROVE  AccountOK'
  <2>1. \A n \in Nodes : TasksOn(db', n) \subseteq TasksOn(db, n)
    BY <1>1, <1>4, RequeueOrphanShape DEF TasksOn, IsLive, Live
  <2>2. used' = used
    BY <1>4 DEF RequeueOrphan
  <2> QED
    BY <1>3, <2>1, <2>2
<1>5. CASE Recount
  <2>1. used' = [n \in Nodes |-> Held(TasksOn(db, n))] /\ db' = db
    BY <1>5 DEF Recount, RecountUsed
  <2>2. \A n \in Nodes : /\ Held(TasksOn(db, n)) \in Resources /\ used[n] \in Resources
                         /\ Total[n] \in Resources
    BY <1>1, HeldIsResources
  <2>3. used' \in [Nodes -> Resources]
    BY <2>1, <2>2
  <2>4. \A n \in Nodes : /\ FitsIn(Held(TasksOn(db, n)), Held(TasksOn(db, n)), NoResources)
                         /\ FitsIn(Held(TasksOn(db, n)), Total[n], NoResources)
    BY <1>2, <2>2 DEF FitsIn, NoResources, Resources
  <2>5. NoOvercommit'
    BY <2>1, <2>4 DEF NoOvercommit
  <2> QED
    BY <2>3, <2>5 DEF AccountOK
<1>6. ASSUME NEW t \in Tasks, NEW n \in Nodes, PlaceNext(t, n)
      PROVE  AccountOK'
  <2>1. /\ used' = IF db'.state[t] = "assigned" THEN Commit(used, t, n) ELSE used
        /\ FitsIn(Need[t], Total[n], used[n])
    BY <1>6 DEF PlaceNext, Picks, Eligible
  <2>2. db.state[t] = "pending" /\ t \notin TasksOn(db, n)
    BY <1>1, <1>6, PlaceNextShape DEF TasksOn, IsLive, Live
  <2>3. CASE db'.state = db.state /\ db'.node = db.node
    <3>1. used' = used
      BY <2>1, <2>2, <2>3
    <3>2. \A m \in Nodes : TasksOn(db', m) \subseteq TasksOn(db, m)
      BY <2>3 DEF TasksOn, IsLive
    <3> QED
      BY <1>3, <3>1, <3>2
  <2>4. CASE \A u \in Tasks : /\ db'.state[u] = IF u = t THEN "assigned" ELSE db.state[u]
                              /\ db'.node[u] = IF u = t THEN n ELSE db.node[u]
    <3>1. used' = [used EXCEPT ![n] = Plus(used[n], Need[t])]
      BY <2>1, <2>4 DEF Commit
    <3>2. TasksOn(db', n) = TasksOn(db, n) \cup {t}
      BY <2>4 DEF TasksOn, IsLive, Live
    <3>3. \A m \in Nodes \ {n} : TasksOn(db', m) = TasksOn(db, m)
      BY <2>2, <2>4 DEF TasksOn, IsLive, Live
    <3>4. TasksOn(db, n) \in SUBSET Tasks
      BY DEF TasksOn
    <3>5. IsFiniteSet(TasksOn(db, n))
      BY <3>4, TasksAssumption, FS_Subset
    <3>6. Held(TasksOn(db, n) \cup {t}) = Plus(Held(TasksOn(db, n)), Need[t])
      BY <2>2, <3>4, <3>5, HeldAdd
    <3>7. Held(TasksOn(db', n)) = Plus(Held(TasksOn(db, n)), Need[t])
      BY <3>2, <3>6, Zenon
    <3>8. /\ Held(TasksOn(db, n)) \in Resources /\ Need[t] \in Resources
          /\ used[n] \in Resources /\ Total[n] \in Resources
      BY <1>1, HeldIsResources, NeedTypes
    <3>9. Plus(used[n], Need[t]) \in Resources
      BY <3>8 DEF Plus, Resources
    <3>10. used' \in [Nodes -> Resources]
      BY <1>1, <3>1, <3>9
    <3>11. FitsIn(Plus(Held(TasksOn(db, n)), Need[t]), Plus(used[n], Need[t]), NoResources)
      BY <1>2, <3>8 DEF FitsIn, NoResources, Resources, Plus
    <3>12. FitsIn(Plus(used[n], Need[t]), Total[n], NoResources)
      BY <2>1, <3>8 DEF FitsIn, NoResources, Resources, Plus
    <3>13. used'[n] = Plus(used[n], Need[t]) /\ \A m \in Nodes \ {n} : used'[m] = used[m]
      BY <1>1, <3>1
    <3>14. ASSUME NEW m \in Nodes
           PROVE  /\ FitsIn(Held(TasksOn(db', m)), used'[m], NoResources)
                  /\ FitsIn(used'[m], Total[m], NoResources)
      <4>1. CASE m = n
        BY <3>7, <3>11, <3>12, <3>13, <4>1
      <4>2. CASE m # n
        <5>1. TasksOn(db', m) = TasksOn(db, m) /\ used'[m] = used[m]
          BY <3>3, <3>13, <4>2
        <5> QED
          BY <1>2, <5>1, Zenon
      <4> QED
        BY <4>1, <4>2
    <3>15. NoOvercommit'
      BY <3>14 DEF NoOvercommit
    <3> QED
      BY <3>10, <3>15 DEF AccountOK
  <2> QED
    BY <1>1, <1>6, <2>3, <2>4, PlaceNextShape
<1>7. ASSUME NEW n \in Nodes, Register(n)
      PROVE  AccountOK'
  <2>1. used' = [used EXCEPT ![n] = NoResources]
    BY <1>7 DEF Register
  <2>2. db'.state = db.state /\ db'.node = db.node /\ n \notin db.nodes
    BY <1>1, <1>7, RegisterShape DEF AgentsOK
  <2>3. \A m \in Nodes : TasksOn(db', m) = TasksOn(db, m)
    BY <2>2 DEF TasksOn, IsLive
  <2>4. TasksOn(db, n) = {}
    BY <1>1, <2>2 DEF TasksOn, Unplaced
  <2>6. Held(TasksOn(db', n)) = NoResources
    BY <2>3, <2>4, HeldNothing, Zenon
  <2>7. NoResources \in Resources /\ Total[n] \in Resources
    BY <1>1 DEF NoResources, Resources
  <2>8. used' \in [Nodes -> Resources] /\ used'[n] = NoResources
        /\ \A m \in Nodes \ {n} : used'[m] = used[m]
    BY <1>1, <2>1, <2>7
  <2>9. ASSUME NEW m \in Nodes
        PROVE  /\ FitsIn(Held(TasksOn(db', m)), used'[m], NoResources)
               /\ FitsIn(used'[m], Total[m], NoResources)
    <3>1. CASE m = n
      BY <2>6, <2>7, <2>8, <3>1 DEF FitsIn, NoResources, Resources
    <3>2. CASE m # n
      <4>1. TasksOn(db', m) = TasksOn(db, m) /\ used'[m] = used[m]
        BY <2>3, <2>8, <3>2
      <4> QED
        BY <1>2, <4>1, Zenon
    <3> QED
      BY <3>1, <3>2
  <2>10. NoOvercommit'
    BY <2>9 DEF NoOvercommit
  <2> QED
    BY <2>8, <2>10 DEF AccountOK
<1>8. ASSUME NEW job \in SUBSET Tasks, SubmitJob(job)
      PROVE  AccountOK'
  <2>1. \A n \in Nodes : TasksOn(db', n) \subseteq TasksOn(db, n)
    BY <1>1, <1>8, SubmitJobShape DEF TasksOn, IsLive, Live
  <2>2. used' = used
    BY <1>8 DEF SubmitJob
  <2> QED
    BY <1>3, <2>1, <2>2
<1>9. ASSUME NEW n \in Nodes, HandleHeartbeat(n) \/ MissHeartbeats(n)
      PROVE  AccountOK'
  <2>1. db'.state = db.state /\ db'.node = db.node
    BY <1>1, <1>9, HandleHeartbeatShape, MissHeartbeatsShape
  <2>2. \A m \in Nodes : TasksOn(db', m) \subseteq TasksOn(db, m)
    BY <2>1 DEF TasksOn, IsLive
  <2>3. used' = used
    BY <1>9 DEF HandleHeartbeat, MissHeartbeats
  <2> QED
    BY <1>3, <2>2, <2>3
<1>10. ASSUME NEW m \in wire, Deliver(m)
       PROVE  AccountOK'
  <2>1. /\ db'.node = db.node
        /\ \A u \in Tasks : db'.state[u] = IF u = m.task /\ ~Refused(db, u)
                                           THEN m.state ELSE db.state[u]
    BY <1>1, <1>10, DeliverShape
  <2>2. \A u \in Tasks : db.node[u] # None /\ ~Refused(db, u) => IsLive(db, u)
    BY <1>1 DEF Unplaced, Refused, IsTerminal, IsLive, Live, Terminal, Stores, TaskStates
  <2>3. \A n \in Nodes : TasksOn(db', n) \subseteq TasksOn(db, n)
    BY <1>1, <2>1, <2>2 DEF TasksOn, IsLive
  <2>4. used' = used
    BY <1>10 DEF Deliver
  <2> QED
    BY <1>3, <2>3, <2>4
<1>11. CASE UNCHANGED <<db, used>>
  BY <1>3, <1>11
<1>12. ASSUME NEW n \in Nodes,
              PollStart(n) \/ PollServe(n) \/ PollHandle(n) \/ PollFail(n) \/ Crash(n)
       PROVE  AccountOK'
  BY <1>11, <1>12 DEF PollStart, PollServe, PollHandle, PollFail, Crash
<1>13. ASSUME NEW n \in Nodes, NEW t \in Tasks, Supervise(n, t)
       PROVE  AccountOK'
  BY <1>11, <1>13 DEF Supervise, Boot, BootFails, End, Exit, SendReport
<1>14. ASSUME NEW m \in wire, GiveUp(m)
       PROVE  AccountOK'
  BY <1>11, <1>14 DEF GiveUp
<1>15. CASE UNCHANGED vars
  BY <1>11, <1>15 DEF vars
<1>16. CASE \E t \in Tasks : SkipNext(t)
  BY <1>11, <1>16 DEF SkipNext
<1> QED
  BY <1>4, <1>5, <1>6, <1>7, <1>8, <1>9, <1>10, <1>12, <1>13, <1>14, <1>15, <1>16
     DEF Next, TickStep

-----------------------------------------------------------------------------

(***************************************************************************)
(* IInv is an invariant of the system: no order of reports, polls, passes, *)
(* missed heartbeats, lost messages and crashes breaks it.                 *)
(***************************************************************************)
THEOREM IInvHolds == Spec => []IInv
<1>1. ASSUME IInv, [Next]_vars PROVE IInv'
  BY <1>1, StoreStep, QueueStep, TypeStep, UnplacedStep, AgentsStep, AwaitedStep,
     HostsStep, CreditKept, AccountStep DEF IInv, Sound
<1> QED
  BY <1>1, InitIInv, PTL DEF Spec

(***************************************************************************)
(* Type correctness.                                                       *)
(***************************************************************************)
THEOREM TypeCorrect == Spec => []TypeOK
<1>1. IInv => TypeOK
  BY DEF IInv
<1> QED
  BY <1>1, IInvHolds, PTL

(***************************************************************************)
(* Two live tasks never have the same address: the IPAM holds the address  *)
(* of each, and holds no address twice.                                    *)
(***************************************************************************)
THEOREM AddressesAreDistinct == Spec => []LiveAddressesDistinct
<1>1. ASSUME IInv PROVE LiveAddressesDistinct
  <2> SUFFICES ASSUME NEW t \in Tasks, NEW u \in Tasks, t # u,
                      Addressed(db, t), Addressed(db, u)
               PROVE  db.net[t].ip # db.net[u].ip
    BY DEF LiveAddressesDistinct
  <2>1. db.net[t].ip \in Addresses
    BY <1>1 DEF IInv, StoreOK, Stores, Networks, Addressed
  <2>2. db.ipam.ip[t] = db.net[t].ip /\ db.ipam.ip[u] = db.net[u].ip
    BY <1>1 DEF IInv, StoreOK, Accounted
  <2> QED
    BY <1>1, <2>1, <2>2, NoneIsNoOctet DEF IInv, StoreOK, HeldDistinct
<1> QED
  BY <1>1, IInvHolds, PTL

(***************************************************************************)
(* A live task's address is in its node's /24, the IPAM's table is exactly *)
(* the live tasks' addresses, two nodes never share a /24, and the list of *)
(* a pass is never stale.                                                  *)
(***************************************************************************)
THEOREM AddressesOnNodes ==
    Spec => [](AddressOnNode /\ AddressesAccounted /\ SubnetsDistinct /\ QueueFresh)
<1>1. IInv => AddressOnNode /\ AddressesAccounted /\ SubnetsDistinct /\ QueueFresh
  BY DEF IInv, StoreOK, AddressOnNode, AddressesAccounted, SubnetsDistinct
<1> QED
  BY <1>1, IInvHolds, PTL

(***************************************************************************)
(* Service discovery lists only addresses that the IPAM holds for the task *)
(* they are listed for.                                                    *)
(***************************************************************************)
THEOREM EndpointsAreHeld == Spec => []EndpointsHeld
<1>1. ASSUME IInv PROVE EndpointsHeld
  <2> SUFFICES ASSUME NEW s \in Services, NEW e \in ServiceEndpoints(db, s)
               PROVE  db.ipam.ip[e[1]] = e[2]
    BY DEF EndpointsHeld
  <2>1. PICK t \in Tasks : /\ db.state[t] = "running"
                           /\ db.net[t] # None
                           /\ e = <<t, db.net[t].ip>>
    BY DEF ServiceEndpoints
  <2>2. Accounted(db)
    BY <1>1 DEF IInv, StoreOK
  <2> QED
    BY <2>1, <2>2 DEF Accounted, Addressed, IsLive, Live
<1> QED
  BY <1>1, IInvHolds, PTL

(***************************************************************************)
(* No step takes a task out of a terminal state: neither a late report nor *)
(* a pass (SPEC.md:506, types.rs:169).                                     *)
(***************************************************************************)
THEOREM TerminalStatesAreFinal == Spec => TerminalFinal
<1>1. ASSUME IInv, [Next]_vars
      PROVE  [\A t \in Tasks : IsTerminal(db, t) => db'.state[t] = db.state[t]]_vars
  BY <1>1, StoreStep DEF Sound
<1> QED
  BY <1>1, IInvHolds, PTL DEF Spec, TerminalFinal

(***************************************************************************)
(* The tasks on a node never need more than the server has accounted for,  *)
(* and never more than the node has: what PlaceNext adds is what the node  *)
(* had left, and a report never brings a task to life on a node that does  *)
(* not hold it already (scheduler.rs, state.rs set_task_state).            *)
(***************************************************************************)
THEOREM NeverOvercommitted == Spec => []NoOvercommit
<1>1. IInv => NoOvercommit
  BY DEF IInv, AccountOK
<1> QED
  BY <1>1, IInvHolds, PTL

(***************************************************************************)
(* A task is started again only for a fault: what may still start it is    *)
(* bounded by the faults there were (CreditOK), and so is what did.        *)
(***************************************************************************)
THEOREM RerunsArePaid == Spec => []RerunsNeedFaults
<1>1. ASSUME IInv PROVE RerunsNeedFaults
  <2> SUFFICES ASSUME NEW t \in Tasks
               PROVE  starts[t] =< 1 + faults.lapses + faults.lost + faults.crashes
    BY DEF RerunsNeedFaults
  <2>1. IsFiniteSet(Stale(t)) /\ Spent(t) + Cardinality(Stale(t)) =< 1 + Paid
    BY <1>1 DEF IInv, CreditOK
  <2>2. Cardinality(Stale(t)) \in Nat
    BY <2>1, FS_CardinalityType
  <2>3. starts[t] \in Nat /\ faults \in [lapses : Nat, lost : Nat, crashes : Nat]
    BY <1>1 DEF IInv, TypeOK
  <2>4. Waits(t) \in {0, 1} /\ Dying(t) \in {0, 1} /\ Due(t) \in {0, 1}
    BY DEF Waits, Dying, Due
  <2>5. starts[t] =< Spent(t)
    BY <2>3, <2>4 DEF Spent
  <2>6. Spent(t) \in Nat /\ Paid = faults.lapses + faults.lost + faults.crashes
    BY <2>3, <2>4 DEF Spent, Paid
  <2> QED
    BY <2>1, <2>2, <2>3, <2>5, <2>6
<1> QED
  BY <1>1, IInvHolds, PTL

(***************************************************************************)
(* While no agent that runs is declared dead, no task is executed by two   *)
(* agents at once: an executor is where the store has the task (HostsOK).  *)
(***************************************************************************)
THEOREM OneExecutorHolds == Spec => []OneExecutor
<1>1. ASSUME IInv PROVE OneExecutor
  BY <1>1 DEF IInv, HostsOK, Has, Executing, OneExecutor
<1> QED
  BY <1>1, IInvHolds, PTL
=============================================================================
