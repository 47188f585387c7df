------------------------------ MODULE Journal ------------------------------
(***************************************************************************)
(* The journal of the server's store (journal.rs): its operations, what    *)
(* replay makes of them, and the file they are in.  Left out, as in        *)
(* ControlPlane: jobs, snapshots of microVMs, the discovery environment.   *)
(***************************************************************************)
EXTENDS ControlPlane, Sequences, SequencesExt

(* JournalOp *)

OpCreateJob(job) == [op |-> "create_job", tasks |-> job]
OpSetTaskState(t, s) == [op |-> "set_task_state", task |-> t, state |-> s]
OpTaskAssigned(t, n, network) ==
    [op |-> "task_assigned", task |-> t, node |-> n, network |-> network]
OpTaskRequeued(t) == [op |-> "task_requeued", task |-> t]
OpRegisterNode(n) == [op |-> "register_node", node |-> n]
OpIpamAllocate(n, t, ip) == [op |-> "ipam_allocate", node |-> n, task |-> t, ip |-> ip]
OpIpamRelease(t) == [op |-> "ipam_release", task |-> t]

Operations ==
    [op : {"create_job"}, tasks : SUBSET Tasks]
        \cup [op : {"set_task_state"}, task : Tasks, state : {"running"} \cup Terminal]
        \cup [op : {"task_assigned"}, task : Tasks, node : Nodes,
              network : Networks \cup {None}]
        \cup [op : {"task_requeued"}, task : Tasks]
        \cup [op : {"register_node"}, node : Nodes]
        \cup [op : {"ipam_allocate"}, node : Nodes, task : Tasks, ip : Addresses]
        \cup [op : {"ipam_release"}, task : Tasks]

-----------------------------------------------------------------------------
(* What a mutation journals, in this order *)

\* Only a release that released something is journaled
ReleaseOps(db, t) == IF db.ipam.ip[t] = None THEN <<>> ELSE <<OpIpamRelease(t)>>

SetTaskStateOps(db, t, s) ==
    IF Refused(db, t) THEN <<>>
    ELSE (IF s \in Terminal THEN ReleaseOps(db, t) ELSE <<>>) \o <<OpSetTaskState(t, s)>>

\* Mutant: the release is not journaled
RequeueOpsBare(db, t) == <<OpTaskRequeued(t)>>

\* Mutant: the release is journaled by the IPAM and by the scheduler
RequeueOpsTwice(db, t) == ReleaseOps(db, t) \o ReleaseOps(db, t) \o <<OpTaskRequeued(t)>>

RequeueOps(db, t) == ReleaseOps(db, t) \o <<OpTaskRequeued(t)>>

\* placed: the store after Place(db, t, n); nothing when t was not placed
PlaceOps(placed, t, n) ==
    IF placed.state[t] # "assigned" THEN <<>>
    ELSE (IF placed.net[t] = None THEN <<>>
          ELSE <<OpIpamAllocate(n, t, placed.net[t].ip)>>)
         \o <<OpTaskAssigned(t, n, placed.net[t])>>

-----------------------------------------------------------------------------
(* Replay *)

Known(db, t) == db.state[t] # "absent"

(***************************************************************************)
(* apply_one.  create_job inserts whole tasks, over those there may be;    *)
(* task_assigned and task_requeued overwrite the state whatever it is;     *)
(* set_task_state is the handler's, and ignored where that refuses; and    *)
(* ipam_allocate allocates afresh, whatever address was journaled: only a  *)
(* debug build compares the two (Disagrees).                               *)
(***************************************************************************)
ApplyOne(db, op) ==
    CASE op.op = "create_job" ->
           [db EXCEPT !.state = [t \in Tasks |-> IF t \in op.tasks THEN "pending" ELSE @[t]],
                      !.node = [t \in Tasks |-> IF t \in op.tasks THEN None ELSE @[t]],
                      !.net = [t \in Tasks |-> IF t \in op.tasks THEN None ELSE @[t]]]
      [] op.op = "set_task_state" -> SetTaskState(db, op.task, op.state)
      [] op.op = "task_assigned" ->
           IF Known(db, op.task) THEN Assign(db, op.task, op.node, op.network) ELSE db
      [] op.op = "task_requeued" ->
           IF Known(db, op.task)
           THEN [db EXCEPT !.state[op.task] = "pending", !.node[op.task] = None,
                           !.net[op.task] = None]
           ELSE db
      [] op.op = "register_node" -> RegisterNode(db, op.node)
      [] op.op = "ipam_allocate" ->
           [db EXCEPT !.ipam = Allocate(@, op.node, op.task)]
      [] op.op = "ipam_release" -> [db EXCEPT !.ipam = Release(@, op.task)]

\* capture and restore: every node's last heartbeat is the time of the boot
Restored(db) == [db EXCEPT !.alive = @ \cup db.nodes]

\* apply_ops onto a base, one after the other; no replayed operation looks at
\* who is alive
Replay(base, ops) ==
    LET after[i \in 0 .. Len(ops)] ==
            IF i = 0 THEN Restored(base) ELSE ApplyOne(after[i - 1], ops[i])
    IN  after[Len(ops)]

\* debug_assert_eq!: an allocation gets another address than the journaled one
Disagrees(db, op) ==
    /\ op.op = "ipam_allocate"
    /\ ApplyOne(db, op).ipam.ip[op.task] \notin {None, op.ip}

\* No assertion fails while the operations are replayed
Agrees(base, ops) ==
    \A i \in DOMAIN ops : ~Disagrees(Replay(base, SubSeq(ops, 1, i - 1)), ops[i])

-----------------------------------------------------------------------------
(* journal.jsonl: terminated lines, and bytes behind the last newline.     *)
(* tail is <<>>, or what those bytes are: a whole operation, or less.      *)

Fragment == [op |-> "fragment"]

Files == [lines : Seq(Operations \cup {Fragment}), tail : Seq(Operations \cup {Fragment})]

EmptyFile == [lines |-> <<>>, tail |-> <<>>]

\* A line that starts with what was left behind is no operation
Line(file, op) == IF file.tail = <<>> THEN op ELSE Fragment

\* append: the operation, then the newline, then fsync
Appended(file, op) == [lines |-> Append(file.lines, Line(file, op)), tail |-> <<>>]

(***************************************************************************)
(* What an append that fails, or that the process dies in, leaves: nothing,*)
(* a part of the operation, all of it but the newline, or all of it.       *)
(***************************************************************************)
Interrupted(file, op) ==
    { file, [file EXCEPT !.tail = <<Fragment>>], [file EXCEPT !.tail = <<Line(file, op)>>],
      Appended(file, op) }

\* Mutant: only a part of an operation is repaired: a whole one stays unterminated
RepairedNot(file) == IF file.tail = <<Fragment>> THEN [file EXCEPT !.tail = <<>>] ELSE file

\* load_journal_ops repairs the end of the file ...
Repaired(file) ==
    IF file.tail \in {<<>>, <<Fragment>>} THEN [file EXCEPT !.tail = <<>>]
    ELSE Appended([file EXCEPT !.tail = <<>>], file.tail[1])

\* ... and refuses a file with a line in it that is no operation
Readable(file) == \A i \in DOMAIN file.lines : file.lines[i] # Fragment
=============================================================================
