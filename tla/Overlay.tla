------------------------------ MODULE Overlay ------------------------------
(***************************************************************************)
(* A host's side of the VXLAN mesh (overlay.rs, spawn_fdb_reconcile of     *)
(* bigtop-agent, overlay_peers of bigtop-server).                          *)
(*                                                                         *)
(* The devices and the entries of the host's forwarding table belong to    *)
(* the kernel and outlive the agent; what the agent believes it applied    *)
(* does not.  Every ip or bridge command is a step that may fail.          *)
(*                                                                         *)
(* A node is one run of an agent: this host's runs are 1, 2, ...  A node's *)
(* VTEP MAC is a function of its id and its underlay address never changes,*)
(* so a forwarding entry is the id of the node it leads to.                *)
(***************************************************************************)
EXTENDS Naturals, Sequences

CONSTANTS
    Peers,       \* the nodes of other hosts
    MaxRuns,     \* how often this host's agent registers
    MaxErrors,   \* how many commands and calls may fail
    MaxChanges   \* how often a node may lapse, or the server be restarted

Runs == 1 .. MaxRuns

ASSUME OverlayAssumption ==
    /\ {MaxRuns, MaxErrors, MaxChanges} \subseteq Nat
    /\ Peers \cap Runs = {}

VARIABLES
    known,    \* the nodes the server has
    alive,    \* those it lists as alive
    run,      \* this host's last node id
    agent,    \* this host's agent: down, starting (in setup), up
    link,     \* the host's overlay devices
    setup,    \* how many of its commands this agent has run
    applied,  \* OverlayManager.applied
    fdb,      \* the entries of the VXLAN device
    todo,     \* the rest of a reconcile in progress: entries to add, to delete
    want,     \* the peers of the last answer
    residue,  \* history: entries left by an earlier run or by a failed delete
    errors,   \* history: commands and calls that failed
    changes   \* history: lapses of peers and restarts of the server

server == <<known, alive, changes>>
mesh == <<applied, fdb, todo, want, residue>>
devices == <<link, setup>>
overlay == <<server, run, agent, devices, mesh, errors>>

\* No device yet.  mac: the node whose VTEP MAC the VXLAN device has, or 0
NoLink == [vxlan |-> FALSE, mac |-> 0, bridge |-> FALSE, up |-> {}, joined |-> FALSE]
Nothing == [add |-> {}, del |-> {}]

OverlayInit ==
    /\ known = {} /\ alive = {} /\ changes = 0
    /\ run = 0 /\ agent = "down"
    /\ link = NoLink /\ setup = 0
    /\ applied = {} /\ fdb = {} /\ todo = Nothing /\ want = {} /\ residue = {}
    /\ errors = 0

Err == errors < MaxErrors /\ errors' = errors + 1

-----------------------------------------------------------------------------
(* The server's list of nodes *)

\* A peer registers, or its heartbeat arrives
PeerBeats(p) ==
    /\ p \notin alive
    /\ known' = known \cup {p}
    /\ alive' = alive \cup {p}
    /\ UNCHANGED <<changes, run, agent, devices, mesh, errors>>

\* 10 s without a heartbeat.  A run of this host that has ended lapses for free.
Lapses(m) ==
    /\ m \in alive
    /\ IF m \in Peers THEN changes < MaxChanges /\ changes' = changes + 1
                      ELSE (m # run \/ agent = "down") /\ UNCHANGED changes
    /\ alive' = alive \ {m}
    /\ UNCHANGED <<known, run, agent, devices, mesh, errors>>

\* Heartbeats are not journaled: every node is alive as of the recovery
ServerRestarts ==
    /\ changes < MaxChanges
    /\ changes' = changes + 1
    /\ alive # known
    /\ alive' = known
    /\ UNCHANGED <<known, run, agent, devices, mesh, errors>>

\* overlay_peers: a node's earlier runs are other nodes
OverlayPeers(n) == alive \ {n}

-----------------------------------------------------------------------------
(* setup *)

\* Its commands, in order; creating what exists is tolerated
SetupCommands ==
    <<"create vxlan", "set mac", "raise vxlan", "create bridge", "raise bridge", "join">>

LastCommand == Len(SetupCommands)

Done(dev, command, n) ==
    CASE command = "create vxlan" -> [dev EXCEPT !.vxlan = TRUE]
      [] command = "set mac" -> [dev EXCEPT !.mac = n]
      [] command = "raise vxlan" -> [dev EXCEPT !.up = @ \cup {"vxlan"}]
      [] command = "create bridge" -> [dev EXCEPT !.bridge = TRUE]
      [] command = "raise bridge" -> [dev EXCEPT !.up = @ \cup {"bridge"}]
      [] command = "join" -> [dev EXCEPT !.joined = TRUE]

\* Mutant: the loops start while setup goes on
SetupNextLate ==
    /\ setup < LastCommand
    /\ agent # "down"
    /\ link' = Done(link, SetupCommands[setup + 1], run)
    /\ setup' = setup + 1
    /\ agent' = "up"
    /\ UNCHANGED <<server, run, mesh, errors>>

\* The agent's loops start after the last command
SetupNext ==
    /\ agent = "starting"
    /\ link' = Done(link, SetupCommands[setup + 1], run)
    /\ setup' = setup + 1
    /\ agent' = IF setup' = LastCommand THEN "up" ELSE "starting"
    /\ UNCHANGED <<server, run, mesh, errors>>

\* run_agent returns, and the process ends
SetupFails ==
    /\ agent = "starting"
    /\ Err
    /\ agent' = "down"
    /\ setup' = 0
    /\ UNCHANGED <<server, run, link, mesh>>

\* The host is on the mesh as node n
OnMesh(n) ==
    link = [vxlan |-> TRUE, mac |-> n, bridge |-> TRUE,
            up |-> {"vxlan", "bridge"}, joined |-> TRUE]

-----------------------------------------------------------------------------
(* reconcile *)

Idle == todo = Nothing

\* Mutant: what is applied is not looked at
DiffFdbAll(have, wanted) == [add |-> wanted, del |-> {}]

DiffFdb(have, wanted) == [add |-> wanted \ have, del |-> have \ wanted]

\* The answer of the server, and what reconcile makes of it.  The loop runs
\* in an agent that has an overlay: one that has been through setup.
FetchPeers ==
    /\ agent = "up"
    /\ setup = LastCommand
    /\ Idle
    /\ want' = OverlayPeers(run)
    /\ todo' = DiffFdb(applied, want')
    /\ UNCHANGED <<server, run, agent, devices, applied, fdb, residue, errors>>

\* The entry may be there already, which counts as applied
AppendEntry(e) ==
    /\ e \in todo.add
    /\ fdb' = fdb \cup {e}
    /\ applied' = applied \cup {e}
    /\ todo' = [todo EXCEPT !.add = @ \ {e}]
    /\ residue' = residue \ {e}
    /\ UNCHANGED <<server, run, agent, devices, want, errors>>

\* Mutant: the entry counts as applied before the command has succeeded
AppendFailsApplied ==
    /\ todo.add # {}
    /\ Err
    /\ applied' = applied \cup todo.add
    /\ todo' = Nothing
    /\ UNCHANGED <<server, run, agent, devices, fdb, want, residue>>

\* reconcile ends here, and nothing is deleted
AppendFails ==
    /\ todo.add # {}
    /\ Err
    /\ todo' = Nothing
    /\ UNCHANGED <<server, run, agent, devices, applied, fdb, want, residue>>

\* Mutant: deletes do not wait for the adds
DeleteEarly(e) ==
    /\ e \in todo.del
    /\ fdb' = fdb \ {e}
    /\ applied' = applied \ {e}
    /\ todo' = [todo EXCEPT !.del = @ \ {e}]
    /\ UNCHANGED <<server, run, agent, devices, want, residue, errors>>

DeleteEntry(e) ==
    /\ todo.add = {}
    /\ e \in todo.del
    /\ fdb' = fdb \ {e}
    /\ applied' = applied \ {e}
    /\ todo' = [todo EXCEPT !.del = @ \ {e}]
    /\ UNCHANGED <<server, run, agent, devices, want, residue, errors>>

\* Logged as to be retried; but what is no longer applied is never deleted again
DeleteFails(e) ==
    /\ todo.add = {}
    /\ e \in todo.del
    /\ Err
    /\ applied' = applied \ {e}
    /\ todo' = [todo EXCEPT !.del = @ \ {e}]
    /\ residue' = residue \cup {e}
    /\ UNCHANGED <<server, run, agent, devices, fdb, want>>

MeshStep ==
    \/ \E p \in Peers : PeerBeats(p)
    \/ \E m \in known : Lapses(m)
    \/ ServerRestarts
    \/ SetupNext \/ SetupFails
    \/ FetchPeers
    \/ AppendFails
    \/ \E e \in todo.add : AppendEntry(e)
    \/ \E e \in todo.del : DeleteEntry(e) \/ DeleteFails(e)
=============================================================================
