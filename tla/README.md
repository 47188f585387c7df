# BigTop: formal models

TLA+ models of BigTop (a Rust orchestrator: one server process, one agent per
machine, every task a microVM or a child process), the TLC configurations that check
them on small instances, and TLAPS proofs of the results that hold for every
instance. Paths below are relative to the repository root.

## 1. The system

| Part | Source | State it keeps | Operations that change it |
|---|---|---|---|
| Control-plane store | `crates/bigtop-server/src/state.rs`, `api.rs` | `StateInner`: jobs, tasks (state, node, network), nodes (heartbeat, used), logs, snapshots, IPAM; one `RwLock` | `create_job`, `register_node`, `heartbeat`, `set_task_state`, `request_snapshot`, `report_snapshot_result`, `push_logs` |
| Scheduler | `scheduler.rs` | none of its own; mutates the store under the write lock every 500 ms | `tick` = `requeue_dead_nodes`; `recount_used`; `place_pending` |
| Placement | `scheduler.rs`, `bigtop-core/src/types.rs` | pure | `pick_node`, `cmp_load`, `fits_in` |
| IPAM | `ipam.rs` | node -> /24, task -> address | `allocate`, `release`, `subnet_octet` |
| Journal | `journal.rs`, start and stop in `lib.rs` | `journal.jsonl`, `snapshot.json`, `bigtop.lock` | `append`, `load_journal_ops`, `apply_ops`, `compact`, `DirLock` |
| Agent | `bigtop-agent/src/lib.rs` | `running` map of supervisor handles, `snapshots_seen` | register, heartbeat loop, poll loop, `execute_task`, `supervise`, snapshot handlers |
| Runtimes | `runtime.rs`, `firecracker.rs`, `snapshot.rs`, `jailer.rs`, `tap.rs` | child processes, sockets, TAP devices | `spawn`, `take_snapshot` |
| vsock log hub | `vsock.rs` | senders, completion subscribers per task | `register`, `unregister`, `subscribe_completion`, `handle_connection` |
| Overlay | `overlay.rs`, `overlay_peers` in `api.rs` | `applied`; the host's devices and forwarding entries (FDB), which outlive the agent | `setup`, `reconcile` |
| Harvest shadow | `harvest_shadow.rs` | mirror of snapshot records, verdict table, Harvest workflows | `mirror_snapshot`, `notify_requested`, `track`, `tick`, `sweep`, `judge` |
| CLI, auth, metrics, status page, DTOs | `bigtop/src/main.rs`, `auth.rs`, `metrics.rs`, `api.rs`, `bigtop-core` | none | read-only views, formatting, configuration |

How they interact. Agents call the server over HTTP; the server never calls an
agent. Every handler takes the store's lock once, so a handler is atomic with
respect to other handlers and to the whole scheduler tick. Nothing else is atomic:
an agent's poll is a request, a response and a loop over the response; each task it
runs is a separate tokio task that reports `Running` and a terminal state by HTTP,
logs a failed report and goes on. Reports carry a task id and a state, and no node
id and no attempt number. The journal is appended to inside the lock, once per
operation record, and one mutation may append two.

What makes the behaviour hard:

* A report that was sent by a run of a task may be handled after the task was
  requeued, placed elsewhere, or has ended. Nothing in it says which run it is of.
* A node is dead for the scheduler when its heartbeats are late, whether or not its
  agent still runs what was handed to it.
* A poll's answer is older than the state it is handled in, on both sides.
* Addresses, `/24`s and the nodes' accounting are kept in several places (task,
  IPAM, `NodeInfo.used`) that handlers and passes must change together.
* The server may be killed between two writes to its files, in a write, and between
  the two records of one mutation; an append may fail and the server goes on.
* What an agent makes on its host (devices, forwarding entries, TAPs, sockets, VMMs)
  outlives it; every command that makes or removes one may fail, and the next run
  starts from what it finds.
* The shadow's mirror is written after the lock is released, and its workflows and
  rows are durable where the server's channel and mirror are not.
* A task's output goes through pipes, two bounded channels and batches, and its end
  is known only when every sender of a channel is gone.

What makes each part correct:

| Part | Properties |
|---|---|
| Store, scheduler, IPAM | addresses are leased: a free one to a task that has none, until it gives it back; terminal states are final; addresses of live tasks differ, are in their node's `/24` and are exactly those the IPAM has given out; a service lists no address given back; no node is overcommitted; every task ends, but those nobody can end and those that wait for them |
| Agents and server together | no second run of a task without a fault; no two executors while heartbeats are on time; what a crashed agent left is run again |
| Journal, lock | replay gives back the store; a server that was only killed boots, once its lock is removed, as a debug build unless the kill cut a mutation or a compaction in two; an acknowledged end is not forgotten |
| Supervisor, vsock hub | order of the lines; what was read is with the server before the terminal report, and what was written was read, if no read failed; an exit is reported once the pipes are done; a subscribed watcher gets the completion |
| Snapshots of microVMs | an outcome is final and a restore finds its files; an agent takes a snapshot once; a requested one ends, whatever happens to its task |
| Overlay | what is applied is on the device, and nothing else but what is accounted for; an entry goes only when all that are wanted are there; the mesh converges |
| MicroVM launch | no failure leaks a TAP; what a killed agent left keeps a task from booting only in the cases that are named; a guest that was booted afresh is on the mesh |
| Harvest shadow | an audit that agrees is right for good; nothing that is journaled goes missing; "stuck" has a cause; an audit that has a row ends |

## 2. The modules

```
Ipam      Placement
   \        /
  ControlPlane            the store and the operations on it: pure operators
   /        \
Cluster    Journal        the server with agents / operations, replay, file
   |          |
MCCluster  Persistence    the server with its files, killed and booted
              |
          MCPersistence

Cluster ==> AddressPool   what the server promises about addresses, and that it does

Overlay <- Microvm <- Host <- MCHost        one host: its mesh, a task's VM, its agents

Supervise (one task on its agent)    Snapshots (those of one task)
HarvestShadow (the audit of one snapshot request)

ControlPlaneProofs <- ClusterProofs <- ClusterRefinement
ControlPlaneProofs <- PersistenceProofs
SuperviseProofs      SnapshotsProofs      HarvestShadowProofs      HostProofs
```

| Module | Stands for | State | Actions or operators |
|---|---|---|---|
| `Ipam` | `ipam.rs` | a record `[subnet, ip]` that is passed around | `Allocate`, `Release`, `SubnetOctet`, `GatewayFor` |
| `Placement` | `Resources`, `cmp_load`, the order of `min_by` | none | `FitsIn`, `LessLoaded`, `Ahead` |
| `ControlPlane` | `state.rs`, the loops of `scheduler.rs`, `assignments` of `api.rs` | a store record; `used` apart | one operator from store to store per operation |
| `AddressPool` | the promise of `ipam.rs` and its callers; no code | the address each task has | `Acquire`, `GiveBack` |
| `Cluster` | server, scheduler, agents, HTTP | store, accounting, where the pass is, agents, polls, supervisors, reports under way | one action per round of a loop of the pass, handler, and step of an agent's loop |
| `Journal` | `journal.rs` | operations and a file `[lines, tail]` | what a mutation journals, `ApplyOne`, `Replay`, `Repaired`, `Interrupted` |
| `Persistence` | `journal_op` in every mutation; start, kill and stop in `lib.rs` | store, pass, operations still to be appended, files | the handlers and the pass as in `Cluster`, `AppendNext`, `AppendFails`, `Boot` of a release or debug build, `RemoveLock`, `Kill`, `Compact`, `Truncate` |
| `Supervise` | `execute_task`, `supervise`, `pump_stream` and `vsock.rs` | pipes, channels and who holds a sender | one action per tokio task's step; `Close` of a pipe, `PumpBreaks` at a read that fails |
| `Snapshots` | snapshot records in `state.rs` and `api.rs`, the second half of `poll_loop`, `handle_snapshot_request`, `snapshot_on_success`, the CLI's restore | records, answers under way, `seen`, watchers, handlers, files | one action per request, claim and step of a handler |
| `HarvestShadow` | `harvest_shadow.rs`, its hooks in `api.rs`, its start in `lib.rs` | one record in memory, in the journal and in the mirror; driver, workflow, row | the record's changes, `Mirror`, one action per step of the driver's loop, `Kill`, `Boot` |
| `Overlay` | `overlay.rs`, `spawn_fdb_reconcile`, `overlay_peers` | the server's node list, devices, entries, `applied`, the reconcile in progress | one action per command; peers that come and go |
| `Microvm` | `FirecrackerRuntime::spawn` with `tap.rs`, `jailer.rs` and the vsock listener | TAPs, socket files, VMM of one task, where its launch is | one action per command or call, with its failure: `PutVsock` and `Attach` of a fresh boot, `LoadSnapshot` of a restore; the VMM's own steps |
| `Host` | `run_agent`: registration, start of the loops, kill | that of the two before | theirs, `Register`, `RegisterUnanswered`, `Kill` |

Choices that matter.

* *The lock.* A handler is one action. A scheduling pass is cut into the rounds of
  its loops (`RequeueOrphan`, `Recount`, `PlaceNext`, `SkipNext`) and keeps the lock
  through `tick`: no handler has a step while `tick # "idle"`. The cut makes the
  rounds visible to invariants, and in `Persistence` to kills.
* *Time.* `alive` is the set of nodes whose last heartbeat is at most 10 s old.
  `MissHeartbeats` takes a node out of it: of a crashed agent always, of a running
  one as a counted fault. A pass has one `now`, so it happens between passes only.
* *Reports* stay in `wire` until they are handled; `GiveUp` is a failed request,
  whose report is lost or still handled later. `from`, `try` and `awaited` of a
  report are for the sender's side; `Deliver` uses `task` and `state` alone, like
  the handler.
* *Nodes.* A node id is one run of `run_agent`. `run_agent` registers once; a
  restarted agent is another node. (SPEC.md:511-515 speaks of agents that register
  again after a server crash; nothing in the agent does, its heartbeats and polls
  simply go on under the old id.)
* *Ids* are naturals and ordered; a new id is an unused one.
* *Addresses* are pairs of the last two octets; `MaxOctet` and `LastHost` are 255
  and 254 in the code.
* *The journal's file* is a sequence of operations and what is behind the last
  newline. An operation that was cut off, or glued to such a rest, is a `Fragment`.
  What cannot be told apart by replay is left out: byte positions, JSON, job names,
  exit codes.
* *The lock file.* A server that finds one does not boot, and a server that ends
  cleanly removes its own; so at most one acts on the files, and one is modelled. A
  kill leaves the lock behind; `RemoveLock` is the operator, whom `journal.rs:15-21`
  asks to remove it after a kill.
* *Snapshots of one task.* Records of different tasks do not meet: every operation
  on a record looks at it and, when it is requested, at its task. The task's own
  life is an environment here (`Start`, `Running`, `Ended`, `Requeue`) that lets it
  be placed again while a partitioned agent still runs its first VM. On a
  Firecracker node `supervise` does not return (see `SuperviseVmm`): there is no
  terminal report, the watcher is not aborted, and `running` keeps the task, so that
  the agent starts it once. On another node a second start is left out; its
  snapshots are declined all the same. Boots that fail are left out: no VM and no
  watcher's signal comes of them.
* *A snapshot's handlers.* A poll's answer is one step, its handling the next; from
  the handling on each handler is on its own. `poll` and `watcher` tell the two
  kinds apart that `handle_snapshot_request` and `snapshot_on_success` are; from the
  claim on they do the same. A report is handled or lost. Firecracker answers
  `take_snapshot` as it likes while the VM is up, and fails after.
* *A shadow for one request.* Audits of different requests share the driver's time
  and nothing else, so there is one; what another one's failure does to it is
  `TickFails`. Harvest and SQLite are external: what a call of theirs wrote is
  durable when the call returns, and a call may fail. `MaxPolls` stands for 72.
  Without a data directory (`durable`) the record is gone with the process, the
  workflow and the row are not. What an observation says besides the state, the
  counters and the read surface are left out.
* *A host.* Its runs are 1, 2, ...: each is a node of its own, and the peers are the
  runs of other hosts. A VTEP's MAC is a function of the node's id and its underlay
  address does not change, so an entry is a node's id; MACs that collide are left
  out. Device, bridge, entries, TAPs and socket files are the kernel's and survive
  `Kill`; `applied` and the reconcile in progress do not. A command is one step, and
  done or failed. Lists of peers and entries have no order in the code (hash sets),
  nor here.
* *The build.* `debug_assert_eq!` at `journal.rs:433` is compiled into debug builds
  (`demo.sh` runs one) and not into release builds, so `Boot` has the build as a
  parameter, and an operator may use either each time. A boot that panics has
  repaired the file and unwound: the lock is gone, nothing else has changed.
* *Pipes.* A pump ends at the end of its pipe. That is not the child's exit: a
  process it left in the background may hold the pipe open for longer, and the child
  may close it before (`open`, `Close`). A pump also ends, with lines unread, at a
  read that fails or a line that is not UTF-8 (`PumpBreaks`, `lib.rs:695` of the
  agent); `broken` remembers which.
* *A launch.* Tasks share nothing on a host but the bridge, so one is modelled, in
  five configurations: in a jail, in a jail with a network namespace, on the mesh,
  from a snapshot with a network, from a snapshot in a jail without one. It may be
  dispatched again, after a failure whose report was lost or after a requeue, a poll
  later at the earliest: a listener that was told to stop is gone by then. The VMM
  is external: it serves its socket at some time, or ends, and it ends when a file
  is where it would bind the socket.
* *Three socket files.* The API socket, which the VMM binds and `spawn` removes
  first unless it is in a jail; the listener's, which the agent binds and removes;
  and the one at `uds_path`, which the VMM binds at `PUT /vsock` and nobody removes
  (`uds`). A killed agent may also leave the VMM itself: one that has no guest yet
  goes on to take PUTs on its socket (`orphan`).
* *Restored guests.* `SnapshotManager::load` sends the snapshot's paths and no
  device (`snapshot.rs:36-45`): the guest opens the TAP and the vsock file that the
  snapshot recorded, those of the task it was taken of. Whether they are free is the
  environment's choice; a load that fails for them is put down to `recorded`.
* *After a launch.* With a vsock hub `supervise` never returns (`SuperviseVmm`), so
  what `execute_task` does after it, the destruction of the TAP at `lib.rs:449-456`
  of the agent included, is never reached and not modelled.
* *Channels* have `Capacity` instead of 512, pipes and connections the same.

An operator preceded by a comment `Mutant:` is no part of the model. It is a
plausible mistake in the definition that follows it, and is there to see that the
property that is about the mistake notices it when the definition is exchanged for
it.

## 3. The runs

| Run | Question | Instance |
|---|---|---|
| `ClusterStore` | Are addresses, accounting and services consistent in every interleaving? Does the cluster implement `AddressPool`? | 2 nodes (room for 2 tasks and for 1), 2 networked tasks, 2 octets, 2 hosts each, one late heartbeat |
| `ClusterFaults` | Who runs a task how often, and is an end final? Is `IInv` invariant? | 1 task, 2 nodes, 1 late heartbeat, 2 lost messages, 1 crash |
| `ClusterLive` | Does every task end? | 2 tasks, the second pinned to node 1, 2 nodes with 1 address each, 1 lost message, 1 crash, only node 1's agent reports ends |
| `ClusterAbandoned` | SPEC.md:510 on crashed agents (violated) | 1 task, 1 node, 1 crash |
| `Supervise` | Order, completeness, exit and completion; is `IInv` invariant? | both runtimes, capacity 1, 3 lines together, 1 refused push, pipes closed at any time, reads that fail |
| `SuperviseVmm` | SPEC.md:194 on a VMM's exit (violated) | Firecracker, 1 line |
| `Persistence` | Does the journal replay to the store in memory, does the server boot, are acknowledged ends kept? Is `IInv` invariant? | 1 node, 2 tasks, 2 hosts, 1 late heartbeat, 2 of: a failed append, a kill, a stop; release and debug builds |
| `PersistenceKilled` | SPEC.md:479 on recovery (violated) | 2 nodes, 2 tasks, 1 kill |
| `Snapshots` | Does a snapshot end once and for all, where its files are? | 1 task, 1 snapshot, 2 nodes with any runtime, any number of requeues, crashes and losses |
| `SnapshotsTwice` | lib.rs:152 of the agent on a snapshot that is never taken twice (violated) | 1 node, 1 snapshot |
| `HarvestShadow` | Are the shadow's verdicts right, and does an audit end? | with and without a data directory, up to 3 observations, 2 failed calls, 2 kills |
| `Host` | Is what is on a host accounted for, does the mesh converge, does a launch fail only with a cause? | 2 peers, 2 runs of the agent, 2 errors, 1 lapse or server restart, 2 attempts, 5 configurations |

The largest are `Persistence` (2.5 million distinct states) and `Host` (0.9 million);
`Supervise` has 0.3 and `ClusterLive` 0.2 million.

Bounds and why they are enough.

* The conflicts over an address, a node's room or a report are between *two* tasks,
  or two runs of one, on at most *two* nodes.
* `ClusterLive`: the second task is pinned, so that the first may go where it is not
  in its way, or where it is; without the pin the states with a loss and a crash are
  too many for a liveness check. A late heartbeat is what a crash has as well.
* `LastHost = 2` is one address per `/24`, so exhaustion is met; `LastHost = 3` is
  two, so reuse of a released one is.
* No run has more nodes than `/24`s; the theorems are for any number of both.
* A late heartbeat can be followed by the node's return (`HandleHeartbeat`), and its
  effect (a requeue while the agent runs on) is over after the next heartbeat;
  `ClusterFaults` combines it with lost messages and a crash. `starts` is bounded by
  the faults, so the state space is finite.
* A capacity of 1 makes every channel full and empty; order needs two lines.
* Two outages are needed for a rest left by a failed append or a kill and a second
  one that leaves something behind it, and for a kill that follows a stop.
* Snapshots with different ids share nothing but a poll's answer, which claims each
  of them on its own; one id meets every race of two agents and their watchers. The
  proofs of `SnapshotsProofs` are for any number.
* `HarvestShadow`: three observations have a first, a middle and a last one, so an
  illegal transition and one that is overtaken and made up for can be seen, and the
  deadline reached. Two kills put one before and one after a workflow's end; two
  errors put a failed append and a failed tick, or boot, into one behaviour.
* `Host`: with two peers a stale entry and a missing one meet in one reconcile. The
  second run is the one that finds what a first one left; two errors are a failed
  command and its failed undoing, or two reconciles given up. One change is enough
  for a peer to go and come back.
* Where several tasks or nodes are alike no symmetry is used: ids are ordered.

Deadlock. The `Cluster` runs check it: the scheduler can always take a step.
`Persistence` may stop once its server has refused to boot or nothing is left to do,
`Supervise` ends with its task, `Snapshots` once every agent is gone or idle,
`HarvestShadow` with a record that has ended and a shadow that is disabled, and
`Host` when nothing is left to do and its bounds are used up, so they say
`CHECK_DEADLOCK FALSE`.

Fairness.

* `Cluster`: the ticker fires and a pass ends (weak fairness of `TickStep`; the pass
  has no await points). Handlers need a lock that passes take away again and again:
  tokio's `RwLock` is granted in the order of the requests, so they are strongly
  fair. An agent's loops and supervisors go on. A workload ends, and its end is
  reported, on the nodes in `Reporting` only: those with the process runtime whose
  workloads leave nobody with their pipes. A Firecracker agent never reports an end
  (`SuperviseVmm`), so nothing is promised of one. `EventuallyTerminal` therefore
  excuses a task that is `Endless`, which runs where ends are not reported or was
  abandoned (see below), and one that is `Blocked`: wherever it may go such a task
  is. A task that is pinned to the node of a crashed agent waits for ever. Of
  faults, lost messages and crashes there is never any obligation, except that the
  clock runs on for a crashed agent's node.
* `Supervise`: each tokio task that can go on does. `select!` takes its ready
  branches at random, hence a condition for each. Nothing obliges the guest to
  write, dial or end, anyone to close a pipe, or a read to fail or not to.
* `Snapshots`: an agent that has not crashed polls for ever (`PollServe`,
  `PollHandle`), whatever becomes of its task, and a spawned handler goes on: each
  of its requests is answered or fails. Whether a report is lost is open.
* `HarvestShadow`: a killed server is booted again, a handler that released the lock
  writes the mirror (there is no await in between), and the driver thread loops.
  `Observe` is strongly fair: a timer that is due stays due, and the driver polls
  again and again.
* `Host`: the agent's tasks go on and its commands end; a fetch of the peers
  succeeds in the end, for the ticker comes back after one that failed. Nobody has
  to start an agent, send heartbeats or place a task.
* `Persistence` has none: its properties are invariants.

### What disagrees with the documentation

1. *Abandoned tasks* (`ClusterAbandoned`). `set_task_state` looks at the task's own
   state only. A `Running` report that is handled after its node was declared dead
   and the task requeued makes a task `Running` with no node; when the agent has
   crashed, `requeue_dead_nodes` needs a node and `place_pending` a pending task, so
   the task stays `Running` for ever.
2. *A VMM's exit* (`SuperviseVmm`). With a vsock hub, `supervise` waits for its
   forwarder, the forwarder for the hub's sender to be dropped, and the hub drops it
   in `unregister`, after `supervise`. The exit is never reported.
3. *Two records for one mutation* (`PersistenceKilled`). A requeue and an end
   journal the address's release and then the change of state, each record on its
   own. A kill between them recovers a live task whose address is free.
4. *A snapshot taken twice* (`SnapshotsTwice`). The record that the watcher asks for
   is in the next poll's answer from the moment the server has it; the watcher
   claims its id only when the answer has come, and goes on whether the poll loop
   has claimed it or not. Both then call `take_snapshot` on one VM for the same
   files. `OnceEach` bounds it: once for the poll loop, once for the watcher.

More that the models show, and no run is about.

* *The picked node.* `pick_node` does not look at addresses, and `place_pending`
  tries only the node it returns: a node without a `/24` (they are never released)
  that is the least loaded is picked in every pass, also while another eligible node
  has addresses, where SPEC.md:321 has the task wait "until an address frees up".
* *A failed append* leaves its bytes in the file, the server goes on, the next
  record is glued to them, and the next boot refuses the journal
  (`KilledServerBoots` therefore supposes no failed append; `journal.rs:13` says
  that only the last line can be torn).
* *Replay onto a new snapshot.* `journal.rs:318-327` says that replaying the old
  journal onto the new snapshot, after a kill between the rename and the truncation,
  converges. Replay releases addresses that the snapshot has given to later tasks
  and allocates others: the store it ends with may differ from the snapshot's, and a
  debug build panics at `journal.rs:433`. Half a mutation may lead to the same panic.
  `KilledServerBoots` says that nothing else does.
* *Output that is lost without a word.* A line that is not UTF-8, or a read that
  fails, ends its pump (`lib.rs:695` of the agent): all that is written to that
  pipe afterwards is missing at the terminal report, although no push was refused
  (`OutputFirst` has the exception).
* *A pipe that is held open.* A background process that a task leaves behind keeps
  stdout or stderr open; the task has exited and is not reported until that process
  ends (`ExitReported` supposes that the pipes are done).
* *Ends that are lost.* A terminal report that fails after `Running` arrived is never
  sent again: the task is running for the server, with its address and its room, for
  as long as its node lives (`Abandoned`).
* *An early completion.* One that is signalled before `snapshot_on_success` has
  subscribed is lost (`CompletionSignalled` is about watchers that have).
* *Requests without an audit.* `harvest_shadow.rs:3` and SPEC.md:574 have one
  workflow per request. A server that is killed between the answer and `track`
  leaves none: the boot seeds the mirror and notifies nobody. A kill, or a failed
  insert, after `start_workflow` (`harvest_shadow.rs:425`) leaves one that no sweep
  looks at.
* *Missing records.* `harvest_shadow.rs:90` and `:202` explain "missing" by a crash
  between the insert in memory and the append. A request that was not appended is
  not audited: `MissingExcused` says that the verdict is possible without a data
  directory only.
* *Stuck records.* "Stuck" is also the verdict on a snapshot that is done, when a
  mirror write overtook an earlier one, or an append failed and the mirror was not
  told (`StuckExcused`).
* *Failed deletes.* `overlay.rs:256` and `:280` say that the next reconcile retries
  a delete that failed. It drops the entry from `applied`, and `diff_fdb` deletes
  only what is there: nothing retries it while the peer is gone (`residue`). A
  failed append, on the other hand, ends the reconcile before its deletes, which the
  next one does make up for.
* *Earlier runs as peers.* A host's node of an earlier run is listed to it as a
  peer, with the host's own underlay address, until it lapses; after a server
  restart it is alive again for 10 s.
* *TAPs in a jail.* `firecracker.rs:462` says that no path leaks a TAP. One that was
  moved into the jail's network namespace is looked for in the host's when a later
  step fails, and stays (`jailtap`); `NoTapLeaked` is about the host's namespace.
  The next attempt on that host then fails.
* *What a kill leaves.* After its agent was killed, a networked task that is placed
  on the same host again fails: its TAP exists (`FailureExcused` lists this case).
  In a jail a stale API socket is not removed (`firecracker.rs:450` looks at the
  path outside): `wait_for_socket` returns at once, the new VMM ends at the file in
  its place, and the first request finds nobody, or a VMM that outlived its agent.
* *What nobody removes.* The file at `uds_path` (`firecracker.rs:89` in a jail,
  `vsock.sock` in the task's directory outside) stays when its VMM ends. Every later
  fresh boot of the task on that host fails at `PUT /vsock`, in a jail or not, and
  after a launch that failed behind that call just as after a kill.
* *Restored guests off the mesh.* A task that is booted from a snapshot with a
  network has a TAP made and bridged for it, and its guest uses the one the snapshot
  recorded (SPEC.md:248-252 and 339-341 say that nothing is reconfigured): whether
  it is on the mesh is up to the first task's TAP. `RunningOnMesh` is about guests
  that were booted afresh.

## 4. The proofs

TLAPS checks, for any sets of nodes and tasks (of naturals), any address space, any
resources and any number of faults:

| Theorem (`ClusterProofs`) | Says |
|---|---|
| `IInvHolds` | `Spec => []IInv` |
| `TypeCorrect` | `Spec => []TypeOK` |
| `AddressesAreDistinct` | `Spec => []LiveAddressesDistinct` |
| `AddressesOnNodes` | `AddressOnNode`, `AddressesAccounted`, `SubnetsDistinct`, `QueueFresh` |
| `EndpointsAreHeld` | `Spec => []EndpointsHeld` |
| `TerminalStatesAreFinal` | `Spec => TerminalFinal` |
| `NeverOvercommitted` | `Spec => []NoOvercommit` |
| `RerunsArePaid` | `Spec => []RerunsNeedFaults` |
| `OneExecutorHolds` | `Spec => []OneExecutor` |
| `ImplementsAddressPool` (`ClusterRefinement`) | `Spec => AddressesAreLeased`, the specification of `AddressPool` under `Lease` |

for the server with its files, any number of kills, stops and failed appends:

| Theorem (`PersistenceProofs`) | Says |
|---|---|
| `Invariance`, `TypeCorrect` | `Spec => []IInv`, `Spec => []TypeOK` |
| `ReplaysExactly` | `Spec => []ReplayExact` |
| `AlwaysBoots` | `Spec => []KilledServerBoots` |
| `ReportsAreFinal` | `Spec => []AckedFinal` |

for one task on its agent, any capacity, any number of lines and refused pushes:

| Theorem (`SuperviseProofs`) | Says |
|---|---|
| `Invariance`, `TypeCorrect` | `Spec => []IInv`, `Spec => []TypeOK` |
| `LinesInOrder` | `Spec => []OrderKept` |
| `NothingIsMissing` | `Spec => []OutputFirst` |

for any sets of nodes and snapshots, with any number of requeues, crashes and
losses:

| Theorem (`SnapshotsProofs`) | Says |
|---|---|
| `SnapshotsIInvHolds` | `Spec => []IInv` |
| `RestoresFindFiles` | `Spec => []RestoreFindsFiles` |
| `NoneStranded` | `Spec => []NotStranded` |
| `EachOnce` | `Spec => []OnceEach` |
| `OutcomesAreFinal` | `Spec => OutcomeFinal` |

for one audit with any number of observations, failures and kills:

| Theorem (`HarvestShadowProofs`) | Says |
|---|---|
| `IInvHolds` | `Spec => []IInv` |
| `AgreesRightly` | `Spec => []AgreeIsRight` |
| `MissesRightly` | `Spec => []MissingExcused` |
| `StuckRightly` | `Spec => StuckExcused` |

and, for any peers, configurations, runs, attempts and failures:

| Theorem (`HostProofs`) | Says |
|---|---|
| `IInvHolds` | `Spec => []IInv` |
| `EntriesAreAccounted` | `Spec => []EntriesAccounted` |
| `NoTapIsLeaked` | `Spec => []NoTapLeaked` |
| `FailuresAreExcused` | `Spec => []FailureExcused` |
| `GuestsAreOnTheMesh` | `Spec => []RunningOnMesh` |
| `DeletesAreLast` | `Spec => DeletesComeLast` |

*Assumptions*: those the modules name (`IdsAssumption`, `OctetAssumption`,
`NoneAssumption`, `SpecAssumption`, `SnapshotsAssumption`, `NoNetworkAssumption`,
`BudgetAssumption`, `TasksAssumption`, `PersistenceAssumption`,
`SuperviseAssumption`, `ReportingAssumption`, `ShadowAssumption`,
`OverlayAssumption`, `ConfsAssumption`): the kinds of the constants, that `None` is
none of the values it stands in for, that there are finitely many tasks (their needs
are added up), that a `/24` has a host address at all (2 to 254 in the code), that a
channel has room for a line, that the nodes whose agents report ends are nodes, that
a host's runs are not among its peers, and that only a jail has a network namespace.
TLC evaluates them in every run.

*The invariant of the cluster*, for addresses: `TypeOK`, `QueueFresh`, `StoreOK(db)`
and `Unplaced(db)`. That two live tasks
have different addresses does not follow from itself: `Allocate` looks at the IPAM's
table, not at the tasks, so the table must be exactly the live tasks' addresses
(`Accounted`), and injective (`HeldDistinct`). `Allocate` gives a task that holds an
address the same one again, whatever the node; that this does not happen needs that
a task that waits holds none (`UnplacedBare` with `Accounted`), and that what is
placed is waiting, which is `QueueFresh`: the pass's list is not stale because every
other writer of the store waits for `tick = "idle"`. A late report that makes a
pending task running keeps `Accounted` because such a task shows no address.
`OnItsNode` and `OctetsDistinct` give the rest of the address properties.

For executions: `HostsOK` says that while no agent that runs has been declared dead,
what an agent runs or is about to start is on its node in the store, from which
`OneExecutor` follows; that a requeue does not break it needs that the requeued
task's node is dead and, no lapse having happened, crashed. `RerunsNeedFaults` is not
inductive, for a start has its cause many steps before it. `CreditOK` is: it adds to
the starts of a task those that are under way (`Waits`, `Dying`, `Due`, and the
answers that are `Stale`), and bounds the sum by one and the faults. A requeue turns
a dying task into a waiting one, a placement a waiting into one that is due, a poll's
handling what is due into a start; only a lapse, a lost message or a crash adds to
the sum, and each is counted. `AgentsOK` and `AwaitedOK` are what the agents'
bookkeeping has to guarantee for that: `PollHandle` starts nothing that is in
`running`, and a supervisor awaits one report at a time.

For resources: `AccountOK` is `NoOvercommit` with the type of `used`, and is
inductive: what `used` says is between what a node's tasks need and what the node
has. `Held` is a sum over a set, and the library's induction over finite sets takes
a formula as a parameter, which no backend instantiates. Two devices stand in for
it: a sum is the number of its units (`Units`, `CountAdds`), which the library's
theorems on cardinalities add up, and what fails of some finite set fails of a
smallest one (`MinimalSubset`, by the well-foundedness of the strict subsets). So a
placement adds the task's need and a task that ends takes its own away, whatever the
order of the fold (`HeldAdd`, `HeldSubset`).

*The invariant of the server with its files.* Replay is a recursive function, and is
shown to be the last store of a run over the journal (`ReplayIsRun`; a least length
for which there is none does not exist). The argument is about one mutation at a time:
`Journaled(s, after, ops)` says that `ops`, replayed onto a store that was restored
from `s`, gives what was restored from `after`, and is proved of each operation of
the store (`SubmitJournaled`, `JoinJournaled`, `ReportJournaled`, `RequeueJournaled`,
`PlaceJournaled`). Replay allocates addresses afresh, so the last one needs that the
journaled address is the one that `Allocate` finds, and that a store between two
mutations is `StoreOK` and `Unplaced` (`Whole`). `ReplayExact` then survives an
append, because what is appended was in `todo`; a kill, because what it leaves of an
append is, repaired, the append or nothing (`InterruptedRepaired`); and a boot,
because unless the file ends in half a mutation, what is on the disk is `Whole`
(`ExactOK`; `clean` is false from then on in the other case, which is what
`PersistenceKilled` shows to be harmful). `AckedFinal` is not conditional on `clean`.
It needs that states, unlike addresses, are right after half a mutation as well
(the last operation alone changes a task, `TodoOK`), and that a journal replayed onto
a snapshot that has it already ends every task it ended before (`TerminalTwice`), for
a kill between a compaction's two writes. `KilledServerBoots` has two halves.
`FileOK` carries the first, that the file can be read. The second, that a debug
build's assertion does not fail, is `AgreeOK`: unless a kill left half a mutation or
a snapshot with its journal, every allocation in the journal, and in what is still to
be appended, replays to the address it names (`Agrees`). `Journaled` says so of each
mutation's records as well, and `AgreesThrough` puts them together.

*The invariant of a task's output.* `OrderKept` and `OutputFirst` are about one
sequence, `Stream`: what the server has, the batch, and the log channel. A line that
enters the log channel is appended to it (`EnterStep`), `Receive` and an accepted
push leave it as it is, and a refused one takes a piece out of its middle
(`LeaveStep`). That the line that enters is the next of its source is `BuffersOK`:
buffers and the vsock channel hold consecutive numbers up to the last one written.
That nothing is behind when the terminal state is reported is `PhaseOK`: `Drain` needs
an empty channel and no sender, so both pumps have ended, and a pump ends at the end
of its pipe, with nothing in the buffer and nobody to write, or at a read that fails,
which `broken` remembers.

*The invariant of the snapshots.* `NotStranded` says that an open record has a
handler on its node, or is still requested and not yet claimed there. The second
half survives a step of that node's watcher only if an id that is claimed, polled or
answered has a record already (`IdsRecorded`), and the first only if a handler that
is over has reported, or lost, an outcome. That a new record is not taken for one
that was claimed before needs `IdsRecorded` too. `OnceEach` needs that a handler is
started once: a second poll handler needs an unclaimed id (`HandlersClaim`), and a
second watcher a second start of the task (`WatchersOnce`); `CallsCounted` then
counts the calls. `DoneHasFiles` carries `RestoreFindsFiles`: who reports `Done` has
the files and puts its own node in the record. `OutcomeFinal` follows from the steps
alone: `Report` is the only writer of a record that exists.

*The refinement.* `Lease` maps a store to the address each live task shows.
`LeaseStep` says that a step of `Cluster` leaves it alone, gives one task without an
address one that the IPAM had free, or takes one task's away. That the new address
is nobody's is `Accounted` again, and that two tasks never share one is
`LeasesDistinct`; `PoolStep` puts them together.

*The invariant of the shadow.* `CopiesOK` orders the four copies of the record: none
is ahead of the memory's, and a copy that says that the record ended is true of the
journal, for a handler mirrors only what it has appended. That is what makes
`AgreeIsRight` survive a kill: the last observation is of such a copy. `AuditOK`
says that the record of an audit was journaled and that its mirror is there whenever
the driver runs, which `MissingExcused` needs; `SightOK` is both of what was seen
already. `OrderOK` is for `StuckExcused`: if no append failed and no mirror write
was overtaken, the mirror is up to date but for what is on its way, and every
observation is followed by a later state.

*The invariant of a host.* `DeletesComeLast` needs `Reconciling`: while a reconcile
has something left to do, what is wanted is applied or is still to be added, and
nothing that is to be deleted is wanted; a delete comes when nothing is left to be
added, and what is applied is on the device (`EntriesAccounted`). `RunningOnMesh`
needs that the devices are as far as `setup` says (`SetUp`), that loops and launches
wait for it, and that from the launch on the TAP is where it belongs (`TapPlaced`);
of a restored guest, which opens another TAP, nothing is claimed. `NoTapLeaked`
needs that up to the command that creates it a TAP is one that was left (`TapHeld`),
and `FailureExcused` that a VMM that does not answer has ended badly or has a stale
socket before it (`VmmHeld`), and that up to `PUT /vsock` a file at `uds_path` was
there before the attempt (`UdsHeld`); that a launch that is being undone is excused
already is the last conjunct.

*Layout.* `ControlPlaneProofs`: what `Allocate` and `Release` return and preserve;
each operation is `Sound(before, after)`: it takes a store that is OK to one that is,
and leaves terminal tasks alone; what it does to states and nodes (the lemmas that end
in `Shape`); the sums. `ClusterProofs`: a step of `Next` is one of these operations on
`db` or leaves it alone (`StoreStep`), and one lemma for each other conjunct of `IInv`
(`QueueStep`, `TypeStep`, `HostsStep`, `CreditStep`, `AccountStep`, ...); the theorems
follow. `PersistenceProofs`: runs, types of the operations, what each record replays
to, `Journaled` of each mutation, the file, and a lemma for each step of the server.
`SuperviseProofs`: sequences of lines, then a lemma for each step that moves one.
`SnapshotsProofs`: a lemma for each conjunct of `IInv`, under it one step per action
that can disturb the conjunct. `HarvestShadowProofs` and `HostProofs`: a lemma for
each action or group of actions that preserves `IInv`.

*Model-checked only.* Every safety property that a passing run checks has its
theorem. What is left to TLC is liveness: `EventuallyTerminal`, `RequestsEnd`,
`PendingIsJudged`, `MeshConverges`, `ExitReported` and `CompletionSignalled`; fairness
and ENABLED are out of the prover's reach. So are the properties of the four runs that
find a violation.

## 5. What is not modelled

* Of snapshots: file paths, types, what the list command shows. Two handlers that
  write the same files at once are left to Firecracker.
* Of the shadow: its counters and read surface, and what is in an observation
  besides the state.
* Of a launch: request bodies, boot arguments, the jailer's and `ip`'s argument
  lists, images; the end of a guest that runs, which the agent does not report; which
  TAP and vsock file a snapshot recorded and whose they are (a restore may fail for
  them, and that is all).
  `ProcessRuntime::spawn` is one call; its outcomes are `Boot` and `BootFails` of
  `Cluster`.
* Of the overlay: MACs and addresses of entries beyond the node they lead to, and
  packets.
* Log tails, job names, exit codes, `BIGTOP_SERVICES`, metrics, the status page,
  authentication, the rest of the CLI: nothing that is modelled depends on them.
* A server without a data directory that restarts empty under running agents: they
  never register again (`lib.rs:316` of the agent logs and goes on).
* Requests that are never answered: the HTTP client and `fc_put` have no timeout,
  here a request ends.
* Requests that are handled while the shutdown hook compacts: whether there are any
  is up to the web framework.
* The saturation of `u64` in resources.

## 6. What is left

Modelled, checked and proved as above: all components but the read-only ones. Next
would come

1. a *task's life* (pending, assigned, running, ended, back to pending) that
   `Cluster` implements, and a *durable store* (a mutation is there after a restart,
   or not at all) that `Persistence` implements for mutations of one record;
2. the composition of `Microvm` with `Cluster`, so that re-placement on a host with
   remains is a step of the scheduler and not of the environment.
