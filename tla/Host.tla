-------------------------------- MODULE Host --------------------------------
(***************************************************************************)
(* A host: the runs of its agent one after the other (run_agent of         *)
(* bigtop-agent), the host's side of the mesh, and the microVM of one      *)
(* task, which is placed here again after an agent died.                   *)
(***************************************************************************)
EXTENDS Microvm

vars == <<overlay, microvm>>

Init == OverlayInit /\ MicrovmInit

-----------------------------------------------------------------------------
(* The agent *)

Joins(n) == known' = known \cup {n} /\ alive' = alive \cup {n}

\* register_with_retry; then the overlay is set up, if there is one
Register ==
    /\ agent = "down"
    /\ run < MaxRuns
    /\ run' = run + 1
    /\ Joins(run')
    /\ agent' = IF conf.vni THEN "starting" ELSE "up"
    /\ UNCHANGED <<changes, devices, mesh, errors, microvm>>

\* The answer is lost: the node exists, and the agent registers once more
RegisterUnanswered ==
    /\ agent = "down"
    /\ run < MaxRuns
    /\ Err
    /\ run' = run + 1
    /\ Joins(run')
    /\ UNCHANGED <<changes, agent, devices, mesh, microvm>>

\* The process is killed: what it knew of the host is gone
Kill ==
    /\ agent # "down"
    /\ agent' = "down"
    /\ setup' = 0
    /\ applied' = {} /\ todo' = Nothing /\ want' = {}
    /\ residue' = fdb
    /\ LeaveMicrovm
    /\ UNCHANGED <<server, run, link, fdb, errors>>

Next ==
    \/ Register \/ RegisterUnanswered \/ Kill
    \/ MeshStep /\ UNCHANGED microvm
    \/ VmStep

Spec == Init /\ [][Next]_vars

(***************************************************************************)
(* Fairness: the agent's tasks run, its commands end, and the server       *)
(* answers in the end: the ticker comes back after a fetch that failed.    *)
(* Nobody has to start an agent, to place the task or to send heartbeats.  *)
(***************************************************************************)
Fairness ==
    /\ WF_vars(SetupNext /\ UNCHANGED microvm)
    /\ WF_vars(FetchPeers /\ UNCHANGED microvm)
    /\ WF_vars((\E e \in todo.add : AppendEntry(e)) /\ UNCHANGED microvm)
    /\ WF_vars((\E e \in todo.del : DeleteEntry(e)) /\ UNCHANGED microvm)

FairSpec == Spec /\ Fairness

-----------------------------------------------------------------------------
(* Properties *)

Nodes == Peers \cup Runs

MeshTypeOK ==
    /\ known \subseteq Nodes /\ alive \subseteq known
    /\ run \in 0 .. MaxRuns
    /\ agent \in {"down", "starting", "up"}
    /\ link \in [vxlan : BOOLEAN, mac : 0 .. MaxRuns, bridge : BOOLEAN,
                 up : SUBSET {"vxlan", "bridge"}, joined : BOOLEAN]
    /\ setup \in 0 .. LastCommand
    /\ applied \subseteq Nodes /\ fdb \subseteq Nodes
    /\ want \subseteq Nodes /\ residue \subseteq Nodes
    /\ todo \in [add : SUBSET Nodes, del : SUBSET Nodes]
    /\ errors \in Nat

SpawnTypeOK ==
    /\ conf \in Confs
    /\ pc \in {"none", "prepare", "tap", "raise", "bridge", "move", "undo", "launch",
               "wait", "listen", "configure", "attach", "up", "failed"}
    /\ tap \in {"none", "made", "up", "bridged"} /\ jailtap \in BOOLEAN
    /\ vmm \in {"none", "started", "serving", "running"}
    /\ bad \in BOOLEAN
    /\ left \subseteq {"tap", "jailtap", "socket", "vsock", "recorded"}

FilesTypeOK ==
    /\ socket \in {"none", "live", "stale", "orphan"}
    /\ listener \in {"none", "live", "stale"}
    /\ uds \in BOOLEAN /\ stopping \in BOOLEAN

MicrovmTypeOK == SpawnTypeOK /\ FilesTypeOK

TypeOK == MeshTypeOK /\ MicrovmTypeOK

(***************************************************************************)
(* What the agent takes for applied is on the device, and what else is on  *)
(* the device was left by an earlier run or by a failed delete: no         *)
(* reconcile that ends half-way loses track of an entry.                   *)
(***************************************************************************)
EntriesAccounted == applied \subseteq fdb /\ fdb \subseteq applied \cup residue

(***************************************************************************)
(* overlay.rs:20: "add-before-delete, so the mesh never blackholes         *)
(* mid-reconcile".  An entry only goes when every peer of the list that    *)
(* made it stale has its entry, after a reconcile that failed half-way and *)
(* next to what earlier runs left, too.                                    *)
(***************************************************************************)
MeshWhole == fdb \ fdb' # {} => want \subseteq fdb'

DeletesComeLast == [][MeshWhole]_vars

(***************************************************************************)
(* A peer that stays has its entry in the end, although appends fail and   *)
(* reconciles are given up; and the entry of a peer that is gone for good  *)
(* goes, unless the agent has lost track of it.                            *)
(***************************************************************************)
MeshConverges ==
    \A p \in Peers :
        /\ <>[](agent = "up" /\ conf.vni /\ p \in alive) => <>[](p \in fdb)
        /\ <>[](agent = "up" /\ p \notin alive) => <>[](p \in fdb => p \in residue)

(***************************************************************************)
(* firecracker.rs:200 and 461: no failure of a launch leaks its TAP in the *)
(* host's namespace: one that is there after a failure was there before,   *)
(* left by a killed agent, or its destruction failed.                      *)
(***************************************************************************)
NoTapLeaked == pc = "failed" /\ tap # "none" => "tap" \in left

(***************************************************************************)
(* Without an error a launch fails only for what an earlier attempt or run *)
(* left (a TAP; the file at uds_path, which no one removes, and in a jail  *)
(* the API socket) or, from a snapshot, for what that has recorded.  An API*)
(* socket outside a jail and the file of a listener, which spawn removes,  *)
(* do not keep the task from booting here again.                           *)
(***************************************************************************)
SocketInTheWay == conf.jailed /\ "socket" \in left

Excused ==
    \/ bad
    \/ conf.networked /\ "tap" \in left
    \/ conf.netns /\ "jailtap" \in left
    \/ SocketInTheWay
    \/ ~conf.restored /\ "vsock" \in left
    \/ conf.restored /\ "recorded" \in left

FailureExcused == pc = "failed" => Excused

(***************************************************************************)
(* A guest that was booted afresh on a host with an overlay is on the mesh *)
(* of the agent that booted it: its TAP on the bridge, the VXLAN device    *)
(* there with this run's MAC, across runs whose setup was cut off.  Of a   *)
(* restored guest nothing is said: its TAP is the one its snapshot names.  *)
(***************************************************************************)
Meshed == conf.networked /\ conf.vni /\ ~conf.netns /\ ~conf.restored

RunningOnMesh == pc = "up" /\ Meshed => tap = "bridged" /\ OnMesh(run)

-----------------------------------------------------------------------------
(* The inductive invariant *)

\* A reconcile has its adds before it, and deletes nothing that is wanted
Reconciling ==
    /\ want \subseteq applied \cup todo.add \/ Idle
    /\ todo.del \cap want = {}

\* The devices are as far as setup is
SetUp ==
    /\ agent = "down" => setup = 0
    /\ agent = "up" /\ conf.vni => setup = 6
    /\ agent = "starting" => setup < 6
    /\ setup >= 1 => link.vxlan
    /\ setup >= 2 => link.mac = run
    /\ setup >= 3 => "vxlan" \in link.up
    /\ setup >= 4 => link.bridge
    /\ setup >= 5 => "bridge" \in link.up
    /\ setup >= 6 => link.joined

\* A spawn has an agent, and only one with a network has a TAP
TapHeld ==
    /\ pc \notin {"none", "failed"} => agent = "up"
    /\ ~conf.networked =>
           tap = "none" /\ pc \notin {"tap", "raise", "bridge", "move", "undo"}
    /\ pc \in {"prepare", "tap", "failed"} /\ tap # "none" => "tap" \in left
    /\ pc \in {"prepare", "tap", "raise", "bridge", "move"} /\ jailtap => "jailtap" \in left
    /\ pc \in {"raise", "bridge", "move"} => tap # "none"
    /\ pc = "move" => conf.netns
    /\ pc = "bridge" => ~conf.netns

\* From the launch on the TAP is where the VMM looks for it, and on the mesh
TapPlaced ==
    pc \in {"launch", "wait", "listen", "configure", "attach", "up"} =>
        TapAttached /\ (Meshed => tap = "bridged")

\* Which VMM and which socket a launch has before it
VmmHeld ==
    /\ pc \in {"wait", "listen", "configure", "attach"} /\ vmm = "none"
          => bad \/ SocketInTheWay
    /\ pc \notin {"wait", "listen", "configure", "attach", "up"} => vmm = "none"
    /\ pc # "up" => vmm # "running"
    /\ pc \in {"listen", "configure", "attach"} => socket # "none"
    /\ pc = "prepare" /\ socket # "none" => "socket" \in left
    /\ pc \in {"tap", "raise", "bridge", "move", "launch", "wait", "listen", "configure",
              "attach"}
       /\ socket # "none"
          => vmm = "serving" \/ bad \/ SocketInTheWay

\* Up to PUT /vsock a file at uds_path is one that was there before
UdsHeld ==
    /\ pc \in {"prepare", "tap", "raise", "bridge", "move", "launch", "wait", "listen",
              "configure"}
       /\ uds => "vsock" \in left
    /\ pc = "attach" => ~conf.restored

IInv ==
    /\ TypeOK
    /\ EntriesAccounted
    /\ Reconciling
    /\ SetUp
    /\ TapHeld
    /\ TapPlaced
    /\ VmmHeld
    /\ UdsHeld
    /\ pc \in {"undo", "failed"} => Excused
=============================================================================
