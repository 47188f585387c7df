------------------------------ MODULE Microvm ------------------------------
(***************************************************************************)
(* One task's microVM on a host: FirecrackerRuntime::spawn (firecracker.rs,*)
(* jailer.rs, tap.rs), step by step, up to the report that the task runs.  *)
(*                                                                         *)
(* The TAP device, the socket files and a VMM process belong to the host:  *)
(* an agent that is killed leaves them to its next run, which starts from  *)
(* what it finds when the task is placed here again.  Tasks share nothing  *)
(* but the bridge, so one task is modelled.                                *)
(*                                                                         *)
(* Once a microVM runs its execute_task waits for ever (Supervise), so what*)
(* follows its end in the code, the TAP's destruction included, is never   *)
(* reached and is not modelled.                                            *)
(***************************************************************************)
EXTENDS Overlay

CONSTANTS
    Confs,       \* how agent and task may be configured
    MaxAttempts  \* how often the task may be placed on this host

\* netns: the jailer's namespace for the TAP; vni: the agent has an overlay;
\* restored: the task boots from a snapshot
ASSUME ConfsAssumption ==
    /\ Confs \subseteq [networked : BOOLEAN, jailed : BOOLEAN, netns : BOOLEAN, vni : BOOLEAN,
                        restored : BOOLEAN]
    /\ \A c \in Confs : c.netns => c.jailed
    /\ MaxAttempts \in Nat

VARIABLES
    conf,      \* the configuration
    pc,        \* where the task's spawn is
    tap,       \* the TAP of the task's name in the host's namespace: none, made, up, bridged
    jailtap,   \* there is one in the jail's namespace
    vmm,       \* the VMM of this attempt: none, started, serving its API, running the guest
    socket,    \* the API socket's file: none, live, stale (nobody takes a PUT
               \* there), orphan (a VMM that outlived its agent does)
    uds,       \* there is a file at uds_path, which backs the guest's vsock
    listener,  \* the file of the agent's vsock listener: none, live, stale
    stopping,  \* a listener was told to stop and has not removed its file yet
    attempts,  \* history: how often the task was placed here
    bad,       \* history: a command or call of this attempt failed
    left       \* history: what earlier runs and failed commands left to this attempt

files == <<socket, uds, listener, stopping>>
taps == <<tap, jailtap>>
history == <<attempts, bad, left>>
microvm == <<conf, pc, taps, vmm, files, history>>

MicrovmInit ==
    /\ conf \in Confs
    /\ pc = "none"
    /\ tap = "none" /\ jailtap = FALSE
    /\ vmm = "none"
    /\ socket = "none" /\ uds = FALSE /\ listener = "none" /\ stopping = FALSE
    /\ attempts = 0 /\ bad = FALSE /\ left = {}

\* Everything of Overlay that spawn leaves alone
host == <<server, run, agent, devices, mesh>>

\* A command or call fails
Bad == Err /\ bad' = TRUE
Good == UNCHANGED <<errors, bad>>

Goto(p) == pc' = p

-----------------------------------------------------------------------------
(* The poll loop starts execute_task; it does so again when the report of  *)
(* a failure was lost, and after a requeue.  That is a poll later at least:*)
(* by then a listener that was told to stop is gone.                       *)

Dispatch ==
    /\ agent = "up"
    /\ pc \in {"none", "failed"}
    /\ ~stopping
    /\ attempts < MaxAttempts
    /\ attempts' = attempts + 1
    /\ bad' = FALSE
    /\ left' = (IF tap # "none" THEN {"tap"} ELSE {})
               \cup (IF jailtap THEN {"jailtap"} ELSE {})
               \cup (IF socket # "none" THEN {"socket"} ELSE {})
               \cup (IF uds THEN {"vsock"} ELSE {})
    /\ Goto("prepare")
    /\ UNCHANGED <<host, errors, conf, taps, vmm, files>>

\* Images, directory, and the API socket's old file unless it is in a jail.
\* What an earlier VMM left at uds_path stays in any case.
Prepare ==
    /\ pc = "prepare"
    /\ \/ /\ Good
          /\ socket' = IF conf.jailed THEN socket ELSE "none"
          /\ Goto(IF conf.networked THEN "tap" ELSE "launch")
       \/ Bad /\ Goto("failed") /\ UNCHANGED socket
    /\ UNCHANGED <<host, conf, taps, vmm, uds, listener, stopping, attempts, left>>

-----------------------------------------------------------------------------
(* setup_tap *)

\* ip tuntap add fails when the name is taken, and then nothing is undone
CreateTap ==
    /\ pc = "tap"
    /\ IF tap # "none" THEN Good /\ Goto("failed") /\ UNCHANGED tap
       ELSE \/ Good /\ tap' = "made" /\ Goto("raise")
            \/ Bad /\ Goto("failed") /\ UNCHANGED tap
    /\ UNCHANGED <<host, conf, jailtap, vmm, files, attempts, left>>

\* What follows set_up
Placement == IF conf.netns THEN "move" ELSE IF conf.vni THEN "bridge" ELSE "launch"

RaiseTap ==
    /\ pc = "raise"
    /\ \/ Good /\ tap' = "up" /\ Goto(Placement)
       \/ Bad /\ Goto("undo") /\ UNCHANGED tap
    /\ UNCHANGED <<host, conf, jailtap, vmm, files, attempts, left>>

\* Mutant: the guest is booted off the mesh when the call fails
BridgeTapBestEffort ==
    /\ pc = "bridge"
    /\ \/ Good /\ link.bridge /\ tap' = "bridged"
       \/ Bad /\ UNCHANGED tap
    /\ Goto("launch")
    /\ UNCHANGED <<host, conf, jailtap, vmm, files, attempts, left>>

\* enslave_to_bridge: the bridge is there, for setup made it
BridgeTap ==
    /\ pc = "bridge"
    /\ \/ Good /\ link.bridge /\ tap' = "bridged" /\ Goto("launch")
       \/ Bad /\ Goto("undo") /\ UNCHANGED tap
    /\ UNCHANGED <<host, conf, jailtap, vmm, files, attempts, left>>

\* move_to_netns: fails, too, when the name is taken there
MoveTap ==
    /\ pc = "move"
    /\ \/ Good /\ ~jailtap /\ tap' = "none" /\ jailtap' = TRUE /\ Goto("launch")
       \/ Good /\ jailtap /\ Goto("undo") /\ UNCHANGED taps
       \/ Bad /\ Goto("undo") /\ UNCHANGED taps
    /\ UNCHANGED <<host, conf, vmm, files, attempts, left>>

\* Mutant: a device that was enslaved is not destroyed
UndoNot ==
    /\ pc = "undo"
    /\ Good
    /\ tap' = IF tap = "bridged" THEN tap ELSE "none"
    /\ Goto("failed")
    /\ UNCHANGED <<host, conf, jailtap, vmm, files, attempts, left>>

(***************************************************************************)
(* destroy, which setup_tap and spawn call when a later step has failed. It*)
(* looks for the device in the host's namespace.                           *)
(***************************************************************************)
Undo ==
    /\ pc = "undo"
    /\ \/ Good /\ tap' = "none" /\ UNCHANGED left
       \/ Bad /\ left' = left \cup {"tap"} /\ UNCHANGED tap
    /\ Goto("failed")
    /\ UNCHANGED <<host, conf, jailtap, vmm, files, attempts>>

-----------------------------------------------------------------------------
(* The VMM *)

AfterFailure == IF conf.networked THEN "undo" ELSE "failed"

\* What the end of the VMM leaves of its socket
SocketAfter == IF socket = "live" THEN "stale" ELSE socket

\* The launch is given up: the child is killed or dropped, which kills it
GiveUp == vmm' = "none" /\ socket' = SocketAfter /\ Goto(AfterFailure)

\* spawn_vmm
Launch ==
    /\ pc = "launch"
    /\ \/ Good /\ vmm' = "started" /\ Goto("wait") /\ UNCHANGED socket
       \/ Bad /\ GiveUp
    /\ UNCHANGED <<host, conf, taps, uds, listener, stopping, attempts, left>>

\* External: the VMM binds its API socket
VmmServes ==
    /\ vmm = "started"
    /\ socket = "none"
    /\ vmm' = "serving"
    /\ socket' = "live"
    /\ UNCHANGED <<host, errors, conf, pc, taps, uds, listener, stopping, history>>

\* External: it finds a file in its place, and ends
VmmRefuses ==
    /\ vmm = "started"
    /\ socket # "none"
    /\ vmm' = "none"
    /\ UNCHANGED <<host, errors, conf, pc, taps, files, history>>

\* External: the VMM ends, by a fault, or because the guest powered off
VmmEnds ==
    /\ vmm # "none"
    /\ IF vmm = "running" THEN Good ELSE Bad
    /\ vmm' = "none"
    /\ socket' = SocketAfter
    /\ UNCHANGED <<host, conf, pc, taps, uds, listener, stopping, attempts, left>>

\* External: a VMM that outlived its agent ends
OrphanEnds ==
    /\ socket = "orphan"
    /\ socket' = "stale"
    /\ UNCHANGED <<host, errors, conf, pc, taps, vmm, uds, listener, stopping, history>>

\* bigtop-vm.json is written, or that fails; then wait_for_socket: the file is
\* there, whoever it is of, or time is up
WaitForSocket ==
    /\ pc = "wait"
    /\ \/ socket # "none" /\ Good /\ Goto("listen") /\ UNCHANGED <<vmm, socket>>
       \/ socket = "none" /\ vmm = "none" /\ Good /\ GiveUp
       \/ Bad /\ GiveUp
    /\ UNCHANGED <<host, conf, taps, uds, listener, stopping, attempts, left>>

\* Mutant: a file an earlier listener left is not removed: bind fails
StartVsockServerOnce ==
    /\ pc = "listen"
    /\ \/ /\ Good /\ listener = "none"
          /\ listener' = "live" /\ Goto("configure") /\ UNCHANGED <<vmm, socket>>
       \/ Good /\ listener # "none" /\ GiveUp /\ UNCHANGED listener
       \/ Bad /\ GiveUp /\ UNCHANGED listener
    /\ UNCHANGED <<host, conf, taps, uds, stopping, attempts, left>>

\* start_vsock_server: an old file is removed first
StartVsockServer ==
    /\ pc = "listen"
    /\ \/ /\ Good
          /\ listener' = "live" /\ Goto("configure") /\ UNCHANGED <<vmm, socket>>
       \/ Bad /\ GiveUp /\ UNCHANGED listener
    /\ UNCHANGED <<host, conf, taps, uds, stopping, attempts, left>>

\* The device that PUT /network-interfaces names is where the VMM looks for it
TapAttached ==
    conf.networked => IF conf.netns THEN jailtap ELSE tap # "none"

\* fc_put: a PUT needs a VMM that takes it, whichever that is
PutAnswered == vmm = "serving" \/ socket = "orphan"

\* A PUT fails: spawn gives up, and drops the listener's stop signal
PutFails == GiveUp /\ stopping' = TRUE

\* The guest runs, in this attempt's VMM or in the one that outlived its agent
Boots ==
    /\ vmm' = IF vmm = "serving" THEN "running" ELSE vmm
    /\ socket' = IF socket = "orphan" THEN "stale" ELSE socket
    /\ Goto("up")
    /\ UNCHANGED stopping

(***************************************************************************)
(* configure, up to PUT /vsock: the VMM binds uds_path, and cannot where a *)
(* file is.  No one ever removes that file.                                *)
(***************************************************************************)
PutVsock ==
    /\ pc = "configure" /\ ~conf.restored
    /\ \/ /\ PutAnswered /\ ~uds
          /\ Good
          /\ uds' = TRUE /\ Goto("attach") /\ UNCHANGED <<vmm, socket, stopping>>
       \/ ~(PutAnswered /\ ~uds) /\ Good /\ PutFails /\ UNCHANGED uds
       \/ PutAnswered /\ Bad /\ PutFails /\ uds' \in {uds, TRUE}
    /\ UNCHANGED <<host, conf, taps, listener, attempts, left>>

\* configure, its end: PUT /network-interfaces and the start of the guest
Attach ==
    /\ pc = "attach"
    /\ \/ PutAnswered /\ TapAttached /\ Good /\ Boots
       \/ ~(PutAnswered /\ TapAttached) /\ Good /\ PutFails
       \/ PutAnswered /\ Bad /\ PutFails
    /\ UNCHANGED <<host, conf, taps, uds, listener, attempts, left>>

\* The file of a restored guest's vsock, if it has one.  The snapshot names it: in
\* a jail it is this task's uds_path, elsewhere that of the task it was taken of.
UdsRestored == IF conf.jailed THEN {uds, TRUE} ELSE {uds}

(***************************************************************************)
(* SnapshotManager::load names the snapshot's files only.  The guest's TAP *)
(* and its vsock file are those the snapshot recorded, of another task,    *)
(* which may be in use or gone: then the VMM refuses the load.             *)
(***************************************************************************)
LoadSnapshot ==
    /\ pc = "configure" /\ conf.restored
    /\ \/ PutAnswered /\ Good /\ Boots /\ uds' \in UdsRestored /\ UNCHANGED left
       \/ /\ PutAnswered
          /\ Good /\ PutFails /\ uds' \in UdsRestored
          /\ left' = left \cup {"recorded"}
       \/ ~PutAnswered /\ Good /\ PutFails /\ UNCHANGED <<uds, left>>
       \/ PutAnswered /\ Bad /\ PutFails /\ uds' \in UdsRestored /\ UNCHANGED left
    /\ UNCHANGED <<host, conf, taps, listener, attempts>>

\* The listener's task removes its file, and ends
ListenerStops ==
    /\ stopping
    /\ stopping' = FALSE
    /\ listener' = "none"
    /\ UNCHANGED <<host, errors, conf, pc, taps, vmm, socket, uds, history>>

\* The API socket after a kill of the agent, whose VMM may go on: one that had
\* no guest yet takes PUTs, and one that was about to bind may still do so
SocketLeft ==
    CASE vmm = "serving" -> {"stale", "orphan"}
      [] vmm = "started" /\ socket = "none" -> {"none", "stale", "orphan"}
      [] OTHER -> {SocketAfter}

\* What a kill of the agent leaves.  A VMM with a guest is of no use to a later
\* attempt.
LeaveMicrovm ==
    /\ pc' = "none"
    /\ vmm' = "none"
    /\ listener' = IF listener = "live" THEN "stale" ELSE listener
    /\ stopping' = FALSE
    /\ socket' \in SocketLeft
    /\ UNCHANGED <<conf, taps, uds, history>>

SpawnStep ==
    \/ Prepare
    \/ CreateTap \/ RaiseTap \/ BridgeTap \/ MoveTap \/ Undo
    \/ Launch \/ WaitForSocket \/ StartVsockServer
    \/ PutVsock \/ Attach \/ LoadSnapshot

VmStep ==
    \/ Dispatch \/ SpawnStep
    \/ VmmServes \/ VmmRefuses \/ VmmEnds \/ OrphanEnds \/ ListenerStops
=============================================================================
