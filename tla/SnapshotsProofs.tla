-------------------------- MODULE SnapshotsProofs --------------------------
(***************************************************************************)
(* What Snapshots promises, for any number of nodes and snapshots: files   *)
(* are where a restore looks for them, no record is stranded without a     *)
(* crash or a lost report, each handler takes a snapshot once, and an      *)
(* outcome is final.                                                       *)
(***************************************************************************)
EXTENDS Snapshots, TLAPS

\* The steps that leave every handler where it is
Bystanders ==
    \/ Requeue
    \/ \E n \in Nodes : Start(n) \/ Running(n) \/ GuestEnds(n) \/ Ended(n)
    \/ \E id \in Ids : Create(id) \/ Restore(id)
    \/ \E n \in Nodes : PollServe(n) \/ Signal(n) \/ WatcherGivesUp(n)
    \/ \E n \in Nodes, id \in Ids : WatcherRequest(n, id)

LEMMA InitIInv == Init => IInv
BY SnapshotsAssumption
   DEF Init, IInv, TypeOK, Records, NoRecord, Jobs, HandlersClaim, IdsRecorded,
       WatchersOnce, CallsCounted, Begun, Who, DoneHasFiles, RestoreFindsFiles,
       NotStranded, Open

LEMMA TypeStep ==
    ASSUME IInv, [Next]_vars
    PROVE  TypeOK'
<1> USE DEF TypeOK
<1>1. TypeOK
  BY DEF IInv
<1>2. CASE Bystanders
  <2>a. \A id \in Ids : Request(id) => rec' \in [Ids -> Records]
    BY <1>1 DEF Request, Snapshottable, Records
  <2>1. CASE Requeue
    BY <1>1, <2>1 DEF Requeue, agents, claims, history
  <2>2. ASSUME NEW n \in Nodes, Start(n) \/ Running(n) \/ GuestEnds(n) \/ Ended(n)
        PROVE  TypeOK'
    BY <1>1, <2>2 DEF Start, Running, GuestEnds, Ended, server, agents, claims, history
  <2>3. ASSUME NEW id \in Ids, Create(id) \/ Restore(id)
        PROVE  TypeOK'
    <3>1. CASE Create(id)
      BY <1>1, <2>a, <3>1 DEF Create, agents, claims, history
    <3>2. CASE Restore(id)
      BY <1>1, <3>2 DEF Restore, Records, NoRecord, server, agents, claims, history
    <3> QED
      BY <2>3, <3>1, <3>2
  <2>4. ASSUME NEW n \in Nodes, PollServe(n) \/ Signal(n) \/ WatcherGivesUp(n)
        PROVE  TypeOK'
    <3>1. CASE PollServe(n)
      BY <1>1, <3>1 DEF PollServe, PendingFor, server, agents, history
    <3>2. CASE Signal(n) \/ WatcherGivesUp(n)
      BY <1>1, <3>2 DEF Signal, WatcherGivesUp, server, agents, history
    <3> QED
      BY <2>4, <3>1, <3>2
  <2>5. ASSUME NEW n \in Nodes, NEW id \in Ids, WatcherRequest(n, id)
        PROVE  TypeOK'
    BY <1>1, <2>a, <2>5 DEF WatcherRequest, agents, history
  <2> QED
    BY <1>2, <2>1, <2>2, <2>3, <2>4, <2>5 DEF Bystanders
<1>3. ASSUME NEW n \in Nodes, Crash(n)
      PROVE  TypeOK'
  BY <1>1, <1>3 DEF Crash, Jobs, server, history
<1>4. ASSUME NEW n \in Nodes, PollHandle(n) \/ WatcherClaim(n)
      PROVE  TypeOK'
  <2>1. CASE PollHandle(n)
    BY <1>1, <2>1 DEF PollHandle, server, agents, history
  <2>2. CASE WatcherClaim(n)
    BY <1>1, <2>2 DEF WatcherClaim, server, agents, history
  <2> QED
    BY <1>4, <2>1, <2>2
<1>5. ASSUME NEW n \in Nodes, NEW id \in Ids, NEW who \in Who, Handle(n, id, who)
      PROVE  TypeOK'
  <2>1. \A state \in {"inprogress", "done", "failed"} :
           Report(id, n, state) \in [Ids -> Records]
    BY <1>1 DEF Report, Records, Legal
  <2>2. <<n, id, who>> \in Jobs /\ <<n, id>> \in Nodes \X Ids
    BY DEF Jobs
  <2>3. CASE Decline(n, id, who)
    BY <1>1, <2>1, <2>2, <2>3 DEF Decline, Delivered, Lost, agents, claims
  <2>4. CASE Begin(n, id, who)
    BY <1>1, <2>1, <2>2, <2>4 DEF Begin, agents, claims
  <2>5. CASE Take(n, id, who) \/ TakeFails(n, id, who)
    BY <1>1, <2>2, <2>5 DEF Take, TakeFails, server, agents, claims, history
  <2>6. CASE Finish(n, id, who)
    BY <1>1, <2>1, <2>2, <2>6 DEF Finish, Outcome, Delivered, Lost, agents, claims
  <2> QED
    BY <1>5, <2>3, <2>4, <2>5, <2>6 DEF Handle
<1>6. CASE UNCHANGED vars
  BY <1>1, <1>6 DEF vars, server, agents, claims, history
<1> QED
  BY <1>2, <1>3, <1>4, <1>5, <1>6 DEF Next, Bystanders

(***************************************************************************)
(* What the steps do to handlers: an agent's crash ends them, claims start *)
(* fresh ones, and a handler's own step moves only itself.                 *)
(***************************************************************************)
LEMMA BystandersKeepJobs ==
    ASSUME Bystanders
    PROVE  /\ job' = job
           /\ seen' = seen
           /\ files' = files
           /\ calls' = calls
           /\ lost' = lost
           /\ crashed' = crashed
BY DEF Bystanders, Requeue, Start, Running, GuestEnds, Ended, Create, Restore,
       PollServe, Signal, WatcherGivesUp, WatcherRequest, agents, claims, history

LEMMA CrashEndsJobs ==
    ASSUME NEW n \in Nodes, Crash(n),
           NEW m \in Nodes, NEW id \in Ids, NEW who \in Who
    PROVE  job'[<<m, id, who>>] =
              IF m = n /\ job[<<m, id, who>>] # "none"
              THEN "over" ELSE job[<<m, id, who>>]
<1>1. <<m, id, who>> \in Jobs
  BY DEF Jobs
<1> QED
  BY <1>1 DEF Crash

LEMMA PollHandleStarts ==
    ASSUME NEW n \in Nodes, PollHandle(n),
           NEW m \in Nodes, NEW id \in Ids, NEW who \in Who
    PROVE  job'[<<m, id, who>>] =
              IF m = n /\ id \in poll[n] \ seen[n] /\ who = "poll"
              THEN "claimed" ELSE job[<<m, id, who>>]
<1>1. <<m, id, who>> \in Jobs
  BY DEF Jobs
<1> QED
  BY <1>1 DEF PollHandle

LEMMA WatcherClaimStarts ==
    ASSUME NEW n \in Nodes, WatcherClaim(n),
           NEW m \in Nodes, NEW id \in Ids, NEW who \in Who
    PROVE  job'[<<m, id, who>>] =
              IF m = n /\ id \in asked[n] /\ who = "watcher"
              THEN "claimed" ELSE job[<<m, id, who>>]
<1>1. <<m, id, who>> \in Jobs
  BY DEF Jobs
<1> QED
  BY <1>1 DEF WatcherClaim

Moves(j, stages) == \E stage \in stages : job' = [job EXCEPT ![j] = stage]

LEMMA HandleMoves ==
    ASSUME NEW n \in Nodes, NEW id \in Ids, NEW who \in Who, Handle(n, id, who)
    PROVE  /\ \/ job[<<n, id, who>>] = "claimed"
                 /\ Moves(<<n, id, who>>, {"taking", "over"})
              \/ job[<<n, id, who>>] = "taking"
                 /\ Moves(<<n, id, who>>, {"taken", "untaken"})
              \/ job[<<n, id, who>>] \in {"taken", "untaken"}
                 /\ Moves(<<n, id, who>>, {"over"})
           /\ task' = task /\ restored' = restored
           /\ crashed' = crashed /\ guest' = guest
           /\ watch' = watch /\ asked' = asked /\ poll' = poll /\ seen' = seen
BY DEF Handle, Decline, Begin, Take, TakeFails, Finish, Moves, server, agents, claims

LEMMA HandleMovesOne ==
    ASSUME TypeOK, NEW n \in Nodes, NEW id \in Ids, NEW who \in Who,
           Handle(n, id, who),
           NEW m \in Nodes, NEW i \in Ids, NEW w \in Who
    PROVE  \/ job'[<<m, i, w>>] = job[<<m, i, w>>]
           \/ m = n /\ i = id /\ w = who
<1>1. <<m, i, w>> \in Jobs
  BY DEF Jobs
<1>2. \E stage : job' = [job EXCEPT ![<<n, id, who>>] = stage]
  BY HandleMoves DEF Moves
<1> QED
  BY <1>1, <1>2 DEF TypeOK

(***************************************************************************)
(* A record is made once and then follows the legal transitions.           *)
(***************************************************************************)
LEMMA RecordsAdvance ==
    ASSUME TypeOK, [Next]_vars, NEW id \in Ids
    PROVE  \/ rec'[id] = rec[id]
           \/ rec[id].state = "absent" /\ rec'[id].state = "requested"
           \/ <<rec[id].state, rec'[id].state>> \in Legal
<1>1. \A i \in Ids : Request(i) =>
          \/ rec'[id] = rec[id]
          \/ rec[id].state = "absent" /\ rec'[id].state = "requested"
  BY DEF Request, TypeOK
<1>2. ASSUME NEW i \in Ids, Create(i) \/ Restore(i)
      PROVE  \/ rec'[id] = rec[id]
             \/ rec[id].state = "absent" /\ rec'[id].state = "requested"
  BY <1>1, <1>2 DEF Create, Restore, server
<1>3. ASSUME NEW n \in Nodes, NEW i \in Ids, WatcherRequest(n, i)
      PROVE  \/ rec'[id] = rec[id]
             \/ rec[id].state = "absent" /\ rec'[id].state = "requested"
  BY <1>1, <1>3 DEF WatcherRequest
<1>4. ASSUME NEW n \in Nodes, NEW i \in Ids, NEW who \in Who, Handle(n, i, who)
      PROVE  rec'[id] = rec[id] \/ <<rec[id].state, rec'[id].state>> \in Legal
  <2>1. \/ rec' = rec
        \/ \E state \in {"inprogress", "done", "failed"} : rec' = Report(i, n, state)
    <3>1. CASE Decline(n, i, who)
      BY <3>1 DEF Decline, Delivered, Lost
    <3>2. CASE Begin(n, i, who)
      BY <3>2 DEF Begin
    <3>3. CASE Take(n, i, who) \/ TakeFails(n, i, who)
      BY <3>3 DEF Take, TakeFails, server
    <3>4. CASE Finish(n, i, who)
      <4>1. Outcome[job[<<n, i, who>>]] \in {"done", "failed"}
        BY <3>4 DEF Finish, Outcome
      <4> QED
        BY <3>4, <4>1 DEF Finish, Delivered, Lost
    <3> QED
      BY <1>4, <3>1, <3>2, <3>3, <3>4 DEF Handle
  <2>2. CASE rec' = rec
    BY <2>2
  <2>3. ASSUME NEW state \in {"inprogress", "done", "failed"},
               rec' = Report(i, n, state)
        PROVE  rec'[id] = rec[id] \/ <<rec[id].state, rec'[id].state>> \in Legal
    <3>1. \/ rec'[id] = rec[id]
          \/ /\ <<rec[id].state, state>> \in Legal
             /\ rec'[id] = [state |-> state, node |-> n]
      BY <1>4, <2>3 DEF Report, TypeOK
    <3> QED
      BY <3>1
  <2> QED
    BY <2>1, <2>2, <2>3
<1>5. CASE Requeue
  BY <1>5 DEF Requeue
<1>6. ASSUME NEW n \in Nodes,
             \/ Start(n) \/ Running(n) \/ GuestEnds(n) \/ Ended(n) \/ Crash(n)
             \/ PollServe(n) \/ PollHandle(n)
             \/ Signal(n) \/ WatcherGivesUp(n) \/ WatcherClaim(n)
      PROVE  rec' = rec
  BY <1>6 DEF Start, Running, GuestEnds, Ended, Crash, PollServe, PollHandle,
              Signal, WatcherGivesUp, WatcherClaim, server
<1>7. CASE UNCHANGED vars
  BY <1>7 DEF vars, server
<1> QED
  BY <1>2, <1>3, <1>4, <1>5, <1>6, <1>7 DEF Next

(***************************************************************************)
(* An id is claimed by a handler before it is reported on, and has a       *)
(* record before anybody knows it.                                         *)
(***************************************************************************)
LEMMA ClaimStep ==
    ASSUME IInv, [Next]_vars
    PROVE  HandlersClaim'
<1> SUFFICES ASSUME NEW n \in Nodes, NEW id \in Ids, NEW who \in Who,
                    job'[<<n, id, who>>] # "none"
             PROVE  id \in seen'[n]
  BY DEF HandlersClaim
<1>1. TypeOK /\ (job[<<n, id, who>>] # "none" => id \in seen[n])
  BY DEF IInv, HandlersClaim
<1>2. CASE Bystanders
  BY <1>1, <1>2, BystandersKeepJobs
<1>3. ASSUME NEW m \in Nodes, Crash(m)
      PROVE  id \in seen'[n]
  <2>1. seen' = seen
    BY <1>3 DEF Crash
  <2>2. job'[<<n, id, who>>] = job[<<n, id, who>>] \/ job[<<n, id, who>>] # "none"
    BY <1>3, CrashEndsJobs
  <2> QED
    BY <1>1, <2>1, <2>2 DEF TypeOK
<1>4. ASSUME NEW m \in Nodes, PollHandle(m)
      PROVE  id \in seen'[n]
  <2>1. seen' = [seen EXCEPT ![m] = @ \cup poll[m]]
    BY <1>4 DEF PollHandle
  <2>2. job'[<<n, id, who>>] = job[<<n, id, who>>] \/ (n = m /\ id \in poll[n])
    BY <1>4, PollHandleStarts
  <2> QED
    BY <1>1, <2>1, <2>2 DEF TypeOK
<1>5. ASSUME NEW m \in Nodes, WatcherClaim(m)
      PROVE  id \in seen'[n]
  <2>1. seen' = [seen EXCEPT ![m] = @ \cup asked[m]]
    BY <1>5 DEF WatcherClaim
  <2>2. job'[<<n, id, who>>] = job[<<n, id, who>>] \/ (n = m /\ id \in asked[n])
    BY <1>5, WatcherClaimStarts
  <2> QED
    BY <1>1, <2>1, <2>2 DEF TypeOK
<1>6. ASSUME NEW m \in Nodes, NEW i \in Ids, NEW w \in Who, Handle(m, i, w)
      PROVE  id \in seen'[n]
  <2>1. seen' = seen /\ job[<<m, i, w>>] # "none"
    BY <1>1, <1>6, HandleMoves
  <2>2. \/ job'[<<n, id, who>>] = job[<<n, id, who>>]
        \/ n = m /\ id = i /\ who = w
    BY <1>1, <1>6, HandleMovesOne
  <2> QED
    BY <1>1, <2>1, <2>2
<1>7. CASE UNCHANGED vars
  BY <1>1, <1>7 DEF vars, claims
<1> QED
  BY <1>2, <1>3, <1>4, <1>5, <1>6, <1>7 DEF Next, Bystanders

LEMMA RecordedStep ==
    ASSUME IInv, [Next]_vars
    PROVE  IdsRecorded'
<1> SUFFICES ASSUME NEW n \in Nodes,
                    NEW id \in seen'[n] \cup poll'[n] \cup asked'[n]
             PROVE  rec'[id].state # "absent"
  BY DEF IdsRecorded
<1>1. TypeOK /\ TypeOK' /\ id \in Ids
  BY TypeStep DEF IInv, TypeOK
<1>2. CASE id \in seen[n] \cup poll[n] \cup asked[n]
  BY <1>1, <1>2, RecordsAdvance DEF IInv, IdsRecorded, Legal
<1>3. ASSUME NEW m \in Nodes, PollServe(m), id \notin seen[n] \cup poll[n] \cup asked[n]
      PROVE  rec'[id].state # "absent"
  BY <1>1, <1>3 DEF PollServe, PendingFor, TypeOK, server
<1>4. ASSUME NEW m \in Nodes, NEW i \in Ids, WatcherRequest(m, i),
             id \notin seen[n] \cup poll[n] \cup asked[n]
      PROVE  rec'[id].state # "absent"
  BY <1>1, <1>4 DEF WatcherRequest, Request, TypeOK
<1>5. ASSUME NEW m \in Nodes,
             PollHandle(m) \/ WatcherClaim(m) \/ WatcherGivesUp(m) \/ Crash(m)
      PROVE  id \in seen[n] \cup poll[n] \cup asked[n]
  BY <1>1, <1>5 DEF PollHandle, WatcherClaim, WatcherGivesUp, Crash, TypeOK
<1>6. ASSUME \/ Requeue
             \/ \E m \in Nodes :
                   Start(m) \/ Running(m) \/ GuestEnds(m) \/ Ended(m) \/ Signal(m)
             \/ \E i \in Ids : Create(i) \/ Restore(i)
             \/ UNCHANGED vars
      PROVE  id \in seen[n] \cup poll[n] \cup asked[n]
  BY <1>6 DEF Requeue, Start, Running, GuestEnds, Ended, Signal, Create, Restore,
              vars, claims
<1>7. ASSUME NEW m \in Nodes, NEW i \in Ids, NEW w \in Who, Handle(m, i, w)
      PROVE  id \in seen[n] \cup poll[n] \cup asked[n]
  BY <1>1, <1>7, HandleMoves
<1> QED
  BY <1>2, <1>3, <1>4, <1>5, <1>6, <1>7 DEF Next

(***************************************************************************)
(* Each agent's watcher starts one handler, and each handler calls         *)
(* take_snapshot once: a fresh id has no handler yet.                      *)
(***************************************************************************)
LEMMA WatchersStep ==
    ASSUME IInv, [Next]_vars
    PROVE  WatchersOnce'
<1> DEFINE Quiet(n) ==
        /\ guest'[n] = "none" /\ n \notin crashed' => watch'[n] = "none"
        /\ watch'[n] # "over" =>
              \A id \in Ids : job'[<<n, id, "watcher">>] = "none"
<1> SUFFICES ASSUME NEW n \in Nodes
             PROVE  Quiet(n)
  BY DEF WatchersOnce
<1>1. /\ TypeOK
      /\ guest[n] = "none" /\ n \notin crashed => watch[n] = "none"
      /\ watch[n] # "over" => \A id \in Ids : job[<<n, id, "watcher">>] = "none"
      /\ "watcher" \in Who
  BY DEF IInv, WatchersOnce, Who
<1>2. ASSUME NEW m \in Nodes,
             Start(m) \/ GuestEnds(m) \/ Signal(m) \/ WatcherGivesUp(m)
      PROVE  Quiet(n)
  <2>1. job' = job
    BY <1>2 DEF Start, GuestEnds, Signal, WatcherGivesUp
  <2>2. CASE Start(m)
    BY <1>1, <2>1, <2>2 DEF Start, TypeOK
  <2>3. CASE GuestEnds(m)
    BY <1>1, <2>1, <2>3 DEF GuestEnds, TypeOK, claims
  <2>4. CASE Signal(m) \/ WatcherGivesUp(m)
    BY <1>1, <2>1, <2>4 DEF Signal, WatcherGivesUp, TypeOK, agents
  <2> QED
    BY <1>2, <2>2, <2>3, <2>4
<1>3. ASSUME NEW m \in Nodes, Crash(m)
      PROVE  Quiet(n)
  <2>1. /\ crashed' = crashed \cup {m}
        /\ guest'[n] = "none" => guest[n] = "none"
        /\ watch'[n] = IF n = m THEN "over" ELSE watch[n]
    BY <1>1, <1>3 DEF Crash, TypeOK
  <2>2. n # m => \A id \in Ids :
           job'[<<n, id, "watcher">>] = job[<<n, id, "watcher">>]
    BY <1>1, <1>3, CrashEndsJobs
  <2> QED
    BY <1>1, <2>1, <2>2
<1>4. ASSUME NEW m \in Nodes, PollHandle(m)
      PROVE  Quiet(n)
  <2>1. guest' = guest /\ crashed' = crashed /\ watch' = watch
    BY <1>4 DEF PollHandle, agents
  <2>2. \A id \in Ids : job'[<<n, id, "watcher">>] = job[<<n, id, "watcher">>]
    BY <1>1, <1>4, PollHandleStarts
  <2> QED
    BY <1>1, <2>1, <2>2
<1>5. ASSUME NEW m \in Nodes, WatcherClaim(m)
      PROVE  Quiet(n)
  <2>1. /\ guest' = guest /\ crashed' = crashed
        /\ watch[m] = "fired"
        /\ watch'[n] = IF n = m THEN "over" ELSE watch[n]
    BY <1>1, <1>5 DEF WatcherClaim, agents, TypeOK
  <2>2. n # m => \A id \in Ids :
           job'[<<n, id, "watcher">>] = job[<<n, id, "watcher">>]
    BY <1>1, <1>5, WatcherClaimStarts
  <2> QED
    BY <1>1, <2>1, <2>2
<1>6. ASSUME NEW m \in Nodes, NEW i \in Ids, NEW w \in Who, Handle(m, i, w)
      PROVE  Quiet(n)
  <2>1. /\ guest' = guest /\ crashed' = crashed /\ watch' = watch
        /\ job[<<m, i, w>>] # "none"
    BY <1>6, HandleMoves
  <2>2. \A id \in Ids :
           \/ job'[<<n, id, "watcher">>] = job[<<n, id, "watcher">>]
           \/ n = m /\ id = i /\ "watcher" = w
    BY <1>1, <1>6, HandleMovesOne
  <2> QED
    BY <1>1, <2>1, <2>2
<1>7. ASSUME UNCHANGED <<guest, crashed, watch, job>>
      PROVE  Quiet(n)
  BY <1>1, <1>7
<1>8. ASSUME \/ Requeue
             \/ \E m \in Nodes : Running(m) \/ Ended(m) \/ PollServe(m)
             \/ \E i \in Ids : Create(i) \/ Restore(i)
             \/ \E m \in Nodes, i \in Ids : WatcherRequest(m, i)
             \/ UNCHANGED vars
      PROVE  UNCHANGED <<guest, crashed, watch, job>>
  BY <1>8 DEF Requeue, Running, Ended, PollServe, Create, Restore, WatcherRequest,
              vars, agents, claims
<1> QED
  BY <1>2, <1>3, <1>4, <1>5, <1>6, <1>7, <1>8 DEF Next

LEMMA CallsStep ==
    ASSUME IInv, [Next]_vars
    PROVE  CallsCounted'
<1> SUFFICES ASSUME NEW n \in Nodes, NEW id \in Ids
             PROVE  calls'[<<n, id>>] =<
                        Begun(n, id, "poll")' + Begun(n, id, "watcher")'
  BY DEF CallsCounted
<1> DEFINE Counted ==
        calls'[<<n, id>>] =< Begun(n, id, "poll")' + Begun(n, id, "watcher")'
<1>1. /\ TypeOK
      /\ calls[<<n, id>>] =< Begun(n, id, "poll") + Begun(n, id, "watcher")
      /\ calls[<<n, id>>] \in Nat
      /\ "watcher" \in Who /\ "poll" \in Who
      /\ \A w \in Who : job[<<n, id, w>>] # "none" => id \in seen[n]
      /\ watch[n] # "over" => job[<<n, id, "watcher">>] = "none"
  BY DEF IInv, CallsCounted, HandlersClaim, WatchersOnce, TypeOK, Who
<1>2. ASSUME calls' = calls,
             Begun(n, id, "poll") =< Begun(n, id, "poll")',
             Begun(n, id, "watcher") =< Begun(n, id, "watcher")'
      PROVE  Counted
  BY <1>1, <1>2 DEF Begun
<1>3. CASE Bystanders \/ UNCHANGED vars
  <2>1. calls' = calls /\ job' = job
    BY <1>3, BystandersKeepJobs DEF vars, history
  <2> QED
    BY <1>1, <2>1 DEF Begun
<1>4. ASSUME NEW m \in Nodes, Crash(m)
      PROVE  Counted
  <2>1. calls' = calls
    BY <1>4 DEF Crash, history
  <2>2. \A w \in Who : Begun(n, id, w) =< Begun(n, id, w)'
    BY <1>4, CrashEndsJobs DEF Begun
  <2> QED
    BY <1>1, <1>2, <2>1, <2>2
<1>5. ASSUME NEW m \in Nodes, PollHandle(m)
      PROVE  Counted
  <2>1. calls' = calls
    BY <1>5 DEF PollHandle, history
  <2>2. \A w \in Who : Begun(n, id, w) =< Begun(n, id, w)'
    BY <1>1, <1>5, PollHandleStarts DEF Begun
  <2> QED
    BY <1>1, <1>2, <2>1, <2>2
<1>6. ASSUME NEW m \in Nodes, WatcherClaim(m)
      PROVE  Counted
  <2>1. calls' = calls /\ watch[m] = "fired"
    BY <1>6 DEF WatcherClaim, history
  <2>2. \A w \in Who : Begun(n, id, w) =< Begun(n, id, w)'
    BY <1>1, <1>6, <2>1, WatcherClaimStarts DEF Begun
  <2> QED
    BY <1>1, <1>2, <2>1, <2>2
<1>7. ASSUME NEW m \in Nodes, NEW i \in Ids, NEW w \in Who, Handle(m, i, w)
      PROVE  Counted
  <2>1. <<m, i, w>> \in Jobs /\ <<n, id, "poll">> \in Jobs
        /\ <<n, id, "watcher">> \in Jobs /\ <<m, i>> \in Nodes \X Ids
    BY <1>1 DEF Jobs
  <2>2. \A v \in Who : job'[<<n, id, v>>] = job[<<n, id, v>>]
                       \/ (n = m /\ id = i /\ v = w)
    BY <1>1, <1>7, HandleMovesOne
  <2>3. CASE Begin(m, i, w)
    <3>1. /\ job[<<m, i, w>>] = "claimed" /\ job'[<<m, i, w>>] = "taking"
          /\ calls'[<<n, id>>] = IF n = m /\ id = i
                                 THEN calls[<<n, id>>] + 1 ELSE calls[<<n, id>>]
      BY <1>1, <2>1, <2>3 DEF Begin, TypeOK
    <3>2. w = "poll" \/ w = "watcher"
      BY <1>7 DEF Who
    <3> QED
      BY <1>1, <2>2, <3>1, <3>2 DEF Begun
  <2>4. CASE Decline(m, i, w) \/ Take(m, i, w) \/ TakeFails(m, i, w) \/ Finish(m, i, w)
    <3>1. calls' = calls
      BY <2>4 DEF Decline, Take, TakeFails, Finish, history
    <3>2. job[<<m, i, w>>] # "none"
          /\ job'[<<m, i, w>>] \in {"taken", "untaken", "over"}
      BY <1>1, <2>1, <2>4 DEF Decline, Take, TakeFails, Finish, TypeOK
    <3>3. \A v \in Who : Begun(n, id, v) =< Begun(n, id, v)'
      BY <2>2, <3>2 DEF Begun
    <3> QED
      BY <1>1, <1>2, <3>1, <3>3
  <2> QED
    BY <1>7, <2>3, <2>4 DEF Handle
<1> QED
  BY <1>3, <1>4, <1>5, <1>6, <1>7 DEF Next, Bystanders

(***************************************************************************)
(* Files.  They are never removed, a handler reports Done only after they  *)
(* were made on its node, and with the outcome the record takes that node. *)
(***************************************************************************)
LEMMA FilesKept == ASSUME [Next]_vars PROVE files \subseteq files'
<1>1. CASE Bystanders \/ UNCHANGED vars
  BY <1>1, BystandersKeepJobs DEF vars
<1>2. ASSUME NEW n \in Nodes, Crash(n) \/ PollHandle(n) \/ WatcherClaim(n)
      PROVE  files' = files
  BY <1>2 DEF Crash, PollHandle, WatcherClaim
<1>3. ASSUME NEW n \in Nodes, NEW id \in Ids, NEW who \in Who, Handle(n, id, who)
      PROVE  files \subseteq files'
  BY <1>3 DEF Handle, Decline, Begin, Take, TakeFails, Finish
<1> QED
  BY <1>1, <1>2, <1>3 DEF Next, Bystanders

LEMMA TakenStep ==
    ASSUME IInv, [Next]_vars,
           NEW n \in Nodes, NEW id \in Ids, NEW who \in Who,
           job'[<<n, id, who>>] = "taken"
    PROVE  <<n, id>> \in files'
<1>1. /\ TypeOK /\ files \subseteq files'
      /\ job[<<n, id, who>>] = "taken" => <<n, id>> \in files
  BY FilesKept DEF IInv, DoneHasFiles
<1>2. CASE Bystanders \/ UNCHANGED vars
  <2>1. job' = job
    BY <1>2, BystandersKeepJobs DEF vars
  <2> QED
    BY <1>1, <2>1
<1>3. ASSUME NEW m \in Nodes, Crash(m)
      PROVE  job[<<n, id, who>>] = "taken"
  BY <1>3, CrashEndsJobs
<1>4. ASSUME NEW m \in Nodes, PollHandle(m)
      PROVE  job[<<n, id, who>>] = "taken"
  BY <1>4, PollHandleStarts
<1>5. ASSUME NEW m \in Nodes, WatcherClaim(m)
      PROVE  job[<<n, id, who>>] = "taken"
  BY <1>5, WatcherClaimStarts
<1>6. ASSUME NEW m \in Nodes, NEW i \in Ids, NEW w \in Who, Handle(m, i, w)
      PROVE  <<n, id>> \in files'
  <2>1. \/ job'[<<n, id, who>>] = job[<<n, id, who>>]
        \/ n = m /\ id = i /\ who = w
    BY <1>1, <1>6, HandleMovesOne
  <2>2. CASE n = m /\ id = i /\ who = w
    <3>1. <<m, i, w>> \in Jobs
      BY DEF Jobs
    <3>2. CASE Take(m, i, w)
      BY <2>2, <3>2 DEF Take
    <3>3. CASE \/ Decline(m, i, w) \/ Begin(m, i, w)
               \/ TakeFails(m, i, w) \/ Finish(m, i, w)
      BY <1>1, <2>2, <3>1, <3>3 DEF Decline, Begin, TakeFails, Finish, TypeOK
    <3> QED
      BY <1>6, <3>2, <3>3 DEF Handle
  <2> QED
    BY <1>1, <2>1, <2>2
<1> QED
  BY <1>1, <1>2, <1>3, <1>4, <1>5, <1>6 DEF Next, Bystanders

\* The steps that change a record, and how
LEMMA RecordSteps ==
    ASSUME TypeOK, [Next]_vars, NEW id \in Ids, rec'[id] # rec[id]
    PROVE  \/ /\ rec[id].state = "absent"
              /\ rec'[id] = [state |-> "requested", node |-> task.node]
              /\ job' = job /\ seen' = seen
           \/ \E n \in Nodes, who \in Who :
                 /\ rec'[id] = [state |-> rec'[id].state, node |-> n]
                 /\ <<rec[id].state, rec'[id].state>> \in Legal
                 /\ \/ Decline(n, id, who) /\ rec'[id].state = "failed"
                    \/ Begin(n, id, who) /\ rec'[id].state = "inprogress"
                    \/ /\ Finish(n, id, who)
                       /\ rec'[id].state = Outcome[job[<<n, id, who>>]]
<1> DEFINE Made == /\ rec[id].state = "absent"
                   /\ rec'[id] = [state |-> "requested", node |-> task.node]
                   /\ job' = job /\ seen' = seen
<1> DEFINE Advanced(n, who, state) ==
        /\ rec'[id] = [state |-> state, node |-> n]
        /\ <<rec[id].state, state>> \in Legal
<1>1. ASSUME NEW i \in Ids, Create(i) \/ \E n \in Nodes : WatcherRequest(n, i)
      PROVE  Made
  <2>1. Request(i) /\ job' = job /\ seen' = seen
    BY <1>1 DEF Create, WatcherRequest, claims
  <2> QED
    BY <2>1 DEF Request, TypeOK
<1>2. ASSUME NEW n \in Nodes, NEW i \in Ids, NEW who \in Who, Handle(n, i, who)
      PROVE  /\ i = id
             /\ \/ Decline(n, id, who) /\ Advanced(n, who, "failed")
                \/ Begin(n, id, who) /\ Advanced(n, who, "inprogress")
                \/ /\ Finish(n, id, who)
                   /\ Advanced(n, who, Outcome[job[<<n, id, who>>]])
  <2>1. ASSUME NEW state, rec' = Report(i, n, state)
        PROVE  i = id /\ Advanced(n, who, state)
    BY <2>1 DEF Report, TypeOK
  <2>2. CASE Decline(n, i, who)
    BY <2>1, <2>2 DEF Decline, Delivered, Lost
  <2>3. CASE Begin(n, i, who)
    BY <2>1, <2>3 DEF Begin
  <2>4. CASE Take(n, i, who) \/ TakeFails(n, i, who)
    BY <2>4 DEF Take, TakeFails, server
  <2>5. CASE Finish(n, i, who)
    <3>1. rec' = Report(i, n, Outcome[job[<<n, i, who>>]])
      BY <2>5 DEF Finish, Delivered, Lost
    <3> QED
      BY <2>1, <2>5, <3>1
  <2> QED
    BY <1>2, <2>2, <2>3, <2>4, <2>5 DEF Handle
<1>3. ASSUME \/ Requeue
             \/ \E n \in Nodes :
                   \/ Start(n) \/ Running(n) \/ GuestEnds(n) \/ Ended(n) \/ Crash(n)
                   \/ PollServe(n) \/ PollHandle(n)
                   \/ Signal(n) \/ WatcherGivesUp(n) \/ WatcherClaim(n)
             \/ \E i \in Ids : Restore(i)
             \/ UNCHANGED vars
      PROVE  FALSE
  <2>1. rec' = rec
    BY <1>3 DEF Requeue, Start, Running, GuestEnds, Ended, Crash, PollServe,
                PollHandle, Signal, WatcherGivesUp, WatcherClaim, Restore, vars, server
  <2> QED
    BY <2>1
<1>4. ASSUME NEW n \in Nodes, NEW who \in Who, NEW state, Advanced(n, who, state)
      PROVE  /\ rec'[id] = [state |-> rec'[id].state, node |-> n]
             /\ rec'[id].state = state
             /\ <<rec[id].state, rec'[id].state>> \in Legal
  BY <1>4
<1> HIDE DEF Made, Advanced
<1>5. CASE Made
  BY <1>5 DEF Made
<1>6. ASSUME NEW n \in Nodes, NEW who \in Who,
             \/ Decline(n, id, who) /\ Advanced(n, who, "failed")
             \/ Begin(n, id, who) /\ Advanced(n, who, "inprogress")
             \/ /\ Finish(n, id, who)
                /\ Advanced(n, who, Outcome[job[<<n, id, who>>]])
      PROVE  /\ rec'[id] = [state |-> rec'[id].state, node |-> n]
             /\ <<rec[id].state, rec'[id].state>> \in Legal
             /\ \/ Decline(n, id, who) /\ rec'[id].state = "failed"
                \/ Begin(n, id, who) /\ rec'[id].state = "inprogress"
                \/ /\ Finish(n, id, who)
                   /\ rec'[id].state = Outcome[job[<<n, id, who>>]]
  BY <1>4, <1>6
<1>7. \/ Made
      \/ \E n \in Nodes, who \in Who :
            \/ Decline(n, id, who) /\ Advanced(n, who, "failed")
            \/ Begin(n, id, who) /\ Advanced(n, who, "inprogress")
            \/ /\ Finish(n, id, who)
               /\ Advanced(n, who, Outcome[job[<<n, id, who>>]])
  BY <1>1, <1>2, <1>3 DEF Next
<1> QED
  BY <1>5, <1>6, <1>7

LEMMA FilesStep ==
    ASSUME IInv, [Next]_vars
    PROVE  DoneHasFiles'
<1>1. TypeOK /\ TypeOK' /\ files \subseteq files' /\ DoneHasFiles
  BY FilesKept, TypeStep DEF IInv
<1>2. ASSUME NEW n \in Nodes, NEW id \in Ids, NEW who \in Who,
             job'[<<n, id, who>>] = "taken"
      PROVE  <<n, id>> \in files'
  BY <1>2, TakenStep
<1>3. ASSUME NEW id \in Ids, rec'[id].state = "done"
      PROVE  <<rec'[id].node, id>> \in files'
  <2>1. CASE rec'[id] = rec[id]
    BY <1>1, <1>3, <2>1 DEF DoneHasFiles
  <2>2. CASE rec'[id] # rec[id]
    <3>a. rec'[id] # [state |-> "requested", node |-> task.node]
      BY <1>3
    <3>1. PICK n \in Nodes, who \in Who :
             /\ rec'[id] = [state |-> rec'[id].state, node |-> n]
             /\ \/ Decline(n, id, who) /\ rec'[id].state = "failed"
                \/ Begin(n, id, who) /\ rec'[id].state = "inprogress"
                \/ /\ Finish(n, id, who)
                   /\ rec'[id].state = Outcome[job[<<n, id, who>>]]
      BY <1>1, <2>2, <3>a, RecordSteps
    <3>2. job[<<n, id, who>>] = "taken" /\ rec'[id].node = n
      BY <1>3, <3>1 DEF Finish, Outcome
    <3> QED
      BY <1>1, <3>2 DEF DoneHasFiles
  <2> QED
    BY <2>1, <2>2
<1>4. ASSUME NEW id \in Ids, restored'[id] # None
      PROVE  <<restored'[id], id>> \in files'
  <2>1. CASE restored' = restored
    BY <1>1, <1>4, <2>1 DEF DoneHasFiles, RestoreFindsFiles
  <2>2. ASSUME NEW i \in Ids, Restore(i)
        PROVE  <<restored'[id], id>> \in files'
    <3>1. /\ rec[i].state = "done"
          /\ restored' = [restored EXCEPT ![i] = rec[i].node]
      BY <2>2 DEF Restore
    <3>2. <<rec[i].node, i>> \in files
      BY <1>1, <3>1 DEF DoneHasFiles
    <3> QED
      BY <1>1, <1>4, <3>1, <3>2 DEF DoneHasFiles, RestoreFindsFiles, TypeOK
  <2>3. ASSUME NEW n \in Nodes, NEW i \in Ids, NEW who \in Who, Handle(n, i, who)
        PROVE  restored' = restored
    BY <2>3, HandleMoves
  <2>4. ASSUME \/ Requeue
               \/ \E n \in Nodes :
                     \/ Start(n) \/ Running(n) \/ GuestEnds(n) \/ Ended(n) \/ Crash(n)
                     \/ PollServe(n) \/ PollHandle(n)
                     \/ Signal(n) \/ WatcherGivesUp(n) \/ WatcherClaim(n)
               \/ \E i \in Ids : Create(i) \/ \E n \in Nodes : WatcherRequest(n, i)
               \/ UNCHANGED vars
        PROVE  restored' = restored
    BY <2>4 DEF Requeue, Start, Running, GuestEnds, Ended, Crash, Create, PollServe,
                PollHandle, Signal, WatcherRequest, WatcherGivesUp, WatcherClaim, vars
  <2> QED
    BY <2>1, <2>2, <2>3, <2>4 DEF Next
<1> QED
  BY <1>2, <1>3, <1>4 DEF DoneHasFiles, RestoreFindsFiles

(***************************************************************************)
(* No record is stranded.  A new one is on a node whose poll loop does not *)
(* know it; what claims it makes a handler; and a handler ends with a      *)
(* final report, which an open record never refuses.                       *)
(***************************************************************************)
Attended(id) ==
    \/ Excused(id)
    \/ Active(rec[id].node, id)
    \/ rec[id].state = "requested" /\ id \notin seen[rec[id].node]

LEMMA ExcusesKept ==
    ASSUME TypeOK, [Next]_vars
    PROVE  crashed \subseteq crashed' /\ lost \subseteq lost'
<1>1. CASE Bystanders \/ UNCHANGED vars
  BY <1>1, BystandersKeepJobs DEF vars, agents, history
<1>2. ASSUME NEW n \in Nodes, Crash(n) \/ PollHandle(n) \/ WatcherClaim(n)
      PROVE  crashed \subseteq crashed' /\ lost' = lost
  BY <1>2 DEF Crash, PollHandle, WatcherClaim, agents, history
<1>3. ASSUME NEW n \in Nodes, NEW id \in Ids, NEW who \in Who, Handle(n, id, who)
      PROVE  crashed' = crashed /\ lost \subseteq lost'
  <2>1. crashed' = crashed
    BY <1>3, HandleMoves
  <2>2. lost \subseteq lost'
    BY <1>3 DEF Handle, Decline, Begin, Take, TakeFails, Finish, Delivered, Lost,
                history
  <2> QED
    BY <2>1, <2>2
<1> QED
  BY <1>1, <1>2, <1>3 DEF Next, Bystanders

LEMMA ChangedAttended ==
    ASSUME IInv, [Next]_vars, NEW id \in Ids, rec'[id] # rec[id], Open(id)'
    PROVE  Attended(id)'
<1>1. TypeOK /\ TypeOK' /\ IdsRecorded
  BY TypeStep DEF IInv
<1>2. CASE /\ rec[id].state = "absent"
           /\ rec'[id] = [state |-> "requested", node |-> task.node]
           /\ job' = job /\ seen' = seen
  <2>1. rec'[id].state = "requested" /\ rec'[id].node \in Nodes
    BY <1>1, <1>2, SnapshotsAssumption DEF TypeOK, Records, NoRecord
  <2>2. id \notin seen'[rec'[id].node]
    BY <1>2, <1>1, <2>1 DEF IdsRecorded
  <2> QED
    BY <2>1, <2>2 DEF Attended
<1>3. ASSUME NEW n \in Nodes, NEW who \in Who,
             rec'[id] = [state |-> rec'[id].state, node |-> n],
             Begin(n, id, who)
      PROVE  Attended(id)'
  <2>1. rec'[id].node = n
    BY <1>3
  <2>2. <<n, id, who>> \in Jobs
    BY <1>3 DEF Jobs
  <2>3. job'[<<n, id, who>>] = "taking"
    BY <1>1, <1>3, <2>2 DEF Begin, TypeOK
  <2> QED
    BY <1>3, <2>1, <2>3 DEF Attended, Active
<1>4. ASSUME NEW n \in Nodes, NEW who \in Who,
             \/ rec'[id].state = "failed"
             \/ Finish(n, id, who) /\ rec'[id].state = Outcome[job[<<n, id, who>>]]
      PROVE  FALSE
  <2>1. rec'[id].state \in {"requested", "inprogress"}
    BY DEF Open
  <2> QED
    BY <1>4, <2>1 DEF Finish, Outcome
<1> QED
  BY <1>1, <1>2, <1>3, <1>4, RecordSteps

LEMMA ActiveAttended ==
    ASSUME IInv, [Next]_vars, NEW id \in Ids, rec'[id] = rec[id], Open(id),
           Active(rec[id].node, id), ~ Excused(id)
    PROVE  Attended(id)'
<1>1. TypeOK /\ rec[id].node \in Nodes
  BY SnapshotsAssumption DEF IInv, TypeOK, Records, NoRecord, Open
<1> DEFINE n == rec[id].node
           Stages == {"claimed", "taking", "taken", "untaken"}
<1>2. PICK who \in Who : job[<<n, id, who>>] \in Stages
  BY DEF Active
<1>3. rec'[id].node = n
  OBVIOUS
<1> HIDE DEF n
<1>4. ASSUME job'[<<n, id, who>>] \in Stages
      PROVE  Attended(id)'
  BY <1>2, <1>3, <1>4 DEF Attended, Active
<1>5. CASE Bystanders \/ UNCHANGED vars
  <2>1. job' = job
    BY <1>5, BystandersKeepJobs DEF vars
  <2> QED
    BY <1>2, <1>4, <2>1
<1>6. ASSUME NEW m \in Nodes, Crash(m)
      PROVE  Attended(id)'
  <2>1. CASE m = n
    BY <1>3, <1>6, <2>1 DEF Crash, Attended, Excused
  <2>2. CASE m # n
    <3>1. job'[<<n, id, who>>] = job[<<n, id, who>>]
      BY <1>1, <1>2, <1>6, <2>2, CrashEndsJobs DEF n
    <3> QED
      BY <1>2, <1>4, <3>1
  <2> QED
    BY <2>1, <2>2
<1>7. ASSUME NEW m \in Nodes, PollHandle(m)
      PROVE  job'[<<n, id, who>>] \in Stages
  BY <1>1, <1>2, <1>7, PollHandleStarts DEF n
<1>8. ASSUME NEW m \in Nodes, WatcherClaim(m)
      PROVE  job'[<<n, id, who>>] \in Stages
  BY <1>1, <1>2, <1>8, WatcherClaimStarts DEF n
<1>9. ASSUME NEW m \in Nodes, NEW i \in Ids, NEW w \in Who, Handle(m, i, w)
      PROVE  Attended(id)'
  <2>1. \/ job'[<<n, id, who>>] = job[<<n, id, who>>]
        \/ n = m /\ id = i /\ who = w
    BY <1>1, <1>2, <1>9, HandleMovesOne DEF n
  <2>2. CASE n = m /\ id = i /\ who = w
    <3>1. /\ <<n, id, who>> \in Jobs
          /\ job \in [Jobs -> {"none", "claimed", "taking", "taken", "untaken", "over"}]
      BY <1>1, <1>2 DEF Jobs, TypeOK, n
    <3>2. CASE Begin(m, i, w) \/ Take(m, i, w) \/ TakeFails(m, i, w)
      <4>1. job'[<<n, id, who>>] \in Stages
        BY <2>2, <3>1, <3>2 DEF Begin, Take, TakeFails
      <4> QED
        BY <1>4, <4>1
    <3>3. ASSUME NEW state \in {"done", "failed"}, rec' = Report(id, n, state)
          PROVE  FALSE
      <4>1. <<rec[id].state, state>> \in Legal
        BY DEF Open, Legal
      <4>2. rec'[id].state = state
        BY <1>1, <3>3, <4>1 DEF Report, TypeOK
      <4> QED
        BY <4>2 DEF Open
    <3>4. CASE Decline(m, i, w) \/ Finish(m, i, w)
      <4>1. Lost(id)
        BY <2>2, <3>3, <3>4 DEF Decline, Finish, Outcome, Delivered
      <4> QED
        BY <4>1 DEF Lost, Attended, Excused
    <3> QED
      BY <1>9, <3>2, <3>4 DEF Handle
  <2> QED
    BY <1>2, <1>4, <2>1, <2>2
<1> QED
  BY <1>4, <1>5, <1>6, <1>7, <1>8, <1>9 DEF Next, Bystanders

LEMMA PollableAttended ==
    ASSUME IInv, [Next]_vars, NEW id \in Ids, rec'[id] = rec[id], Open(id),
           rec[id].state = "requested", id \notin seen[rec[id].node]
    PROVE  Attended(id)'
<1>1. TypeOK /\ rec[id].node \in Nodes
  BY SnapshotsAssumption DEF IInv, TypeOK, Records, NoRecord, Open
<1> DEFINE n == rec[id].node
<1>2. rec'[id].node = n /\ rec'[id].state = "requested"
  OBVIOUS
<1> HIDE DEF n
<1>3. ASSUME seen'[n] = seen[n]
      PROVE  Attended(id)'
  BY <1>2, <1>3 DEF Attended, n
<1>4. CASE Bystanders \/ UNCHANGED vars
  <2>1. seen' = seen
    BY <1>4, BystandersKeepJobs DEF vars, claims
  <2> QED
    BY <1>3, <2>1
<1>5. ASSUME NEW m \in Nodes, Crash(m)
      PROVE  seen' = seen
  BY <1>5 DEF Crash
<1>6. ASSUME NEW m \in Nodes, PollHandle(m)
      PROVE  Attended(id)'
  <2>1. seen'[n] = seen[n] \/ (m = n /\ seen'[n] = seen[n] \cup poll[n])
    BY <1>1, <1>6 DEF PollHandle, TypeOK, n
  <2>2. CASE m = n /\ id \in poll[n]
    <3>1. job'[<<n, id, "poll">>] = "claimed"
      BY <1>1, <1>6, <2>2, PollHandleStarts DEF n, Who
    <3> QED
      BY <1>2, <3>1 DEF Attended, Active, Who
  <2> QED
    BY <1>2, <2>1, <2>2 DEF Attended, n
<1>7. ASSUME NEW m \in Nodes, WatcherClaim(m)
      PROVE  Attended(id)'
  <2>1. seen'[n] = seen[n] \/ (m = n /\ seen'[n] = seen[n] \cup asked[n])
    BY <1>1, <1>7 DEF WatcherClaim, TypeOK, n
  <2>2. CASE m = n /\ id \in asked[n]
    <3>1. job'[<<n, id, "watcher">>] = "claimed"
      BY <1>1, <1>7, <2>2, WatcherClaimStarts DEF n, Who
    <3> QED
      BY <1>2, <3>1 DEF Attended, Active, Who
  <2> QED
    BY <1>2, <2>1, <2>2 DEF Attended, n
<1>8. ASSUME NEW m \in Nodes, NEW i \in Ids, NEW w \in Who, Handle(m, i, w)
      PROVE  seen' = seen
  BY <1>8, HandleMoves
<1> QED
  BY <1>3, <1>4, <1>5, <1>6, <1>7, <1>8 DEF Next, Bystanders

LEMMA StrandedStep ==
    ASSUME IInv, [Next]_vars
    PROVE  NotStranded'
<1> SUFFICES ASSUME NEW id \in Ids, Open(id)'
             PROVE  Attended(id)'
  BY DEF NotStranded, Attended
<1>1. CASE rec'[id] # rec[id]
  BY <1>1, ChangedAttended
<1>2. CASE rec'[id] = rec[id]
  <2>1. Open(id) /\ Attended(id)
    BY <1>2 DEF IInv, NotStranded, Attended, Open
  <2>2. CASE Excused(id)
    BY <1>2, <2>2, ExcusesKept DEF IInv, Excused, Attended
  <2>3. CASE Active(rec[id].node, id) /\ ~ Excused(id)
    BY <1>2, <2>1, <2>3, ActiveAttended
  <2>4. CASE rec[id].state = "requested" /\ id \notin seen[rec[id].node]
    BY <1>2, <2>1, <2>4, PollableAttended
  <2> QED
    BY <2>1, <2>2, <2>3, <2>4 DEF Attended
<1> QED
  BY <1>1, <1>2

-----------------------------------------------------------------------------
(* The theorems *)

\* IInv is an invariant of the specification: it holds at first and is inductive
THEOREM SnapshotsIInvHolds == Spec => []IInv
<1>1. IInv /\ [Next]_vars => IInv'
  BY TypeStep, ClaimStep, RecordedStep, WatchersStep, CallsStep, FilesStep,
     StrandedStep DEF IInv
<1> QED
  BY InitIInv, <1>1, PTL DEF Spec

(***************************************************************************)
(* A restore finds its files on the node it is pinned to, however the task *)
(* was requeued and whoever took the snapshot.                             *)
(***************************************************************************)
THEOREM RestoresFindFiles == Spec => []RestoreFindsFiles
<1>1. IInv => RestoreFindsFiles
  BY DEF IInv, DoneHasFiles
<1> QED
  BY SnapshotsIInvHolds, <1>1, PTL

(***************************************************************************)
(* Only a crash of its agent or the loss of a final report leaves an open  *)
(* record without a handler and without a poll that will find it.          *)
(***************************************************************************)
THEOREM NoneStranded == Spec => []NotStranded
<1>1. IInv => NotStranded
  BY DEF IInv
<1> QED
  BY SnapshotsIInvHolds, <1>1, PTL

\* An agent takes a snapshot once for its poll loop and once for its watcher
THEOREM EachOnce == Spec => []OnceEach
<1>1. IInv => OnceEach
  <2> SUFFICES ASSUME IInv, NEW n \in Nodes, NEW id \in Ids
               PROVE  calls[<<n, id>>] =<
                         IF job[<<n, id, "watcher">>] = "none" THEN 1 ELSE 2
    BY DEF OnceEach
  <2>1. /\ calls[<<n, id>>] \in Nat
        /\ calls[<<n, id>>] =< Begun(n, id, "poll") + Begun(n, id, "watcher")
    BY DEF IInv, TypeOK, CallsCounted
  <2> QED
    BY <2>1 DEF Begun
<1> QED
  BY SnapshotsIInvHolds, <1>1, PTL

\* The outcome of a snapshot, and the node of its files, are final
THEOREM OutcomesAreFinal == Spec => OutcomeFinal
<1>1. IInv /\ [Next]_vars =>
          [\A id \in Ids :
              rec[id].state \in {"done", "failed"} => rec'[id] = rec[id]]_vars
  <2> SUFFICES ASSUME IInv, [Next]_vars, NEW id \in Ids,
                      rec[id].state \in {"done", "failed"}
               PROVE  rec'[id] = rec[id]
    OBVIOUS
  <2>1. TypeOK
    BY DEF IInv
  <2> QED
    BY <2>1, RecordsAdvance DEF Legal
<1> QED
  BY SnapshotsIInvHolds, <1>1, PTL DEF Spec, OutcomeFinal
=============================================================================
