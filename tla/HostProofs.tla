----------------------------- MODULE HostProofs -----------------------------
(***************************************************************************)
(* Proofs about Host: its inductive invariant, and what follows from it for*)
(* any set of peers, any configurations, and any number of runs, attempts, *)
(* failures and lapses.                                                    *)
(***************************************************************************)
EXTENDS Host, TLAPS

\* How many commands setup has
LEMMA CommandCount == LastCommand = 6
  BY DEF SetupCommands, LastCommand

\* The nodes and the runs are kept apart from 0, which no node is
LEMMA RunIsNode ==
    ASSUME MaxRuns \in Nat, run \in 0 .. MaxRuns, run < MaxRuns
    PROVE  run + 1 \in Nodes /\ run + 1 \in 0 .. MaxRuns
  BY DEF Nodes, Runs

LEMMA BoundsNat == MaxRuns \in Nat
  BY OverlayAssumption

LEMMA InitIInv == Init => IInv
<1> SUFFICES ASSUME Init PROVE IInv
    OBVIOUS
<1> USE DEF Init, OverlayInit, MicrovmInit
<1>1. TypeOK
  <2>1. link \in [vxlan : BOOLEAN, mac : 0 .. MaxRuns, bridge : BOOLEAN,
                  up : SUBSET {"vxlan", "bridge"}, joined : BOOLEAN]
      BY BoundsNat DEF NoLink
  <2>2. /\ todo \in [add : SUBSET Nodes, del : SUBSET Nodes]
        /\ run \in 0 .. MaxRuns /\ setup \in 0 .. LastCommand
      BY CommandCount, BoundsNat DEF Nothing
  <2> QED
      BY <2>1, <2>2 DEF TypeOK, MeshTypeOK, MicrovmTypeOK, SpawnTypeOK, FilesTypeOK
<1>2. EntriesAccounted /\ Reconciling
    BY DEF EntriesAccounted, Reconciling, Nothing, Idle
<1>3. SetUp
    BY DEF SetUp
<1>4. TapHeld /\ TapPlaced /\ VmmHeld /\ UdsHeld
    BY DEF TapHeld, TapPlaced, VmmHeld, UdsHeld
<1> QED
    BY <1>1, <1>2, <1>3, <1>4 DEF IInv

-----------------------------------------------------------------------------
(* The host's side of the mesh *)

\* What does not concern the microVM: a step of the mesh leaves it, and the
\* agent's being up, which is all that its invariants take from Overlay
LEMMA MicrovmStays ==
    ASSUME IInv, UNCHANGED microvm, agent = "up" => agent' = "up"
    PROVE  /\ TapHeld' /\ TapPlaced' /\ VmmHeld' /\ UdsHeld'
           /\ (pc \in {"undo", "failed"} => Excused)'
  BY DEF IInv, microvm, taps, files, history, TapHeld, TapPlaced, TapAttached,
         Meshed, VmmHeld, UdsHeld, SocketInTheWay, Excused

\* One step of the mesh, by its actions
LEMMA MeshKeeps ==
    ASSUME IInv, MeshStep, UNCHANGED microvm
    PROVE  IInv'
<1>0. /\ TypeOK /\ EntriesAccounted /\ Reconciling /\ SetUp
    BY DEF IInv
<1> USE DEF server, mesh, devices
<1>1. ASSUME NEW p \in Peers, PeerBeats(p)
      PROVE  IInv'
  <2> USE <1>1 DEF PeerBeats
  <2>1. TypeOK'
      BY <1>0, CommandCount
         DEF TypeOK, MeshTypeOK, MicrovmTypeOK, SpawnTypeOK, FilesTypeOK,
             Nodes, microvm, taps, files, history
  <2>2. EntriesAccounted' /\ Reconciling' /\ SetUp'
      BY <1>0 DEF EntriesAccounted, Reconciling, Idle, Nothing, SetUp, microvm
  <2> QED
      BY <2>1, <2>2, MicrovmStays DEF IInv
<1>2. ASSUME NEW m \in known, Lapses(m)
      PROVE  IInv'
  <2> USE <1>2 DEF Lapses
  <2>1. TypeOK'
      BY <1>0, CommandCount
         DEF TypeOK, MeshTypeOK, MicrovmTypeOK, SpawnTypeOK, FilesTypeOK,
             Nodes, microvm, taps, files, history
  <2>2. EntriesAccounted' /\ Reconciling' /\ SetUp'
      BY <1>0 DEF EntriesAccounted, Reconciling, Idle, Nothing, SetUp, microvm
  <2> QED
      BY <2>1, <2>2, MicrovmStays DEF IInv
<1>3. CASE ServerRestarts
  <2> USE <1>3 DEF ServerRestarts
  <2>1. TypeOK'
      BY <1>0, CommandCount
         DEF TypeOK, MeshTypeOK, MicrovmTypeOK, SpawnTypeOK, FilesTypeOK,
             Nodes, microvm, taps, files, history
  <2>2. EntriesAccounted' /\ Reconciling' /\ SetUp'
      BY <1>0 DEF EntriesAccounted, Reconciling, Idle, Nothing, SetUp, microvm
  <2> QED
      BY <2>1, <2>2, MicrovmStays DEF IInv
<1>4. CASE SetupNext
  <2> USE <1>4 DEF SetupNext
  <2>1. setup \in 0 .. 5 /\ run \in 0 .. MaxRuns
      BY <1>0, CommandCount DEF TypeOK, MeshTypeOK, MicrovmTypeOK, SpawnTypeOK, FilesTypeOK,
                         SetUp
  <2>2. /\ setup = 0 => link' = [link EXCEPT !.vxlan = TRUE]
        /\ setup = 1 => link' = [link EXCEPT !.mac = run]
        /\ setup = 2 => link' = [link EXCEPT !.up = @ \cup {"vxlan"}]
        /\ setup = 3 => link' = [link EXCEPT !.bridge = TRUE]
        /\ setup = 4 => link' = [link EXCEPT !.up = @ \cup {"bridge"}]
        /\ setup = 5 => link' = [link EXCEPT !.joined = TRUE]
    <3>1. link' = Done(link, SetupCommands[setup + 1], run)
        OBVIOUS
    <3> HIDE <1>4
    <3>2. ASSUME setup = 0 PROVE link' = [link EXCEPT !.vxlan = TRUE]
      <4>1. SetupCommands[setup + 1] = "create vxlan"
          BY <3>2 DEF SetupCommands
      <4> QED
          BY <3>1, <4>1 DEF Done
    <3>3. ASSUME setup = 1 PROVE link' = [link EXCEPT !.mac = run]
      <4>1. SetupCommands[setup + 1] = "set mac"
          BY <3>3 DEF SetupCommands
      <4> QED
          BY <3>1, <4>1 DEF Done
    <3>4. ASSUME setup = 2 PROVE link' = [link EXCEPT !.up = @ \cup {"vxlan"}]
      <4>1. SetupCommands[setup + 1] = "raise vxlan"
          BY <3>4 DEF SetupCommands
      <4> QED
          BY <3>1, <4>1 DEF Done
    <3>5. ASSUME setup = 3 PROVE link' = [link EXCEPT !.bridge = TRUE]
      <4>1. SetupCommands[setup + 1] = "create bridge"
          BY <3>5 DEF SetupCommands
      <4> QED
          BY <3>1, <4>1 DEF Done
    <3>6. ASSUME setup = 4 PROVE link' = [link EXCEPT !.up = @ \cup {"bridge"}]
      <4>1. SetupCommands[setup + 1] = "raise bridge"
          BY <3>6 DEF SetupCommands
      <4> QED
          BY <3>1, <4>1 DEF Done
    <3>7. ASSUME setup = 5 PROVE link' = [link EXCEPT !.joined = TRUE]
      <4>1. SetupCommands[setup + 1] = "join"
          BY <3>7 DEF SetupCommands
      <4> QED
          BY <3>1, <4>1 DEF Done
    <3> QED
        BY <3>2, <3>3, <3>4, <3>5, <3>6, <3>7
  <2>3. setup' = setup + 1 /\ agent' \in {"starting", "up"} /\ (agent' = "up" <=> setup' = 6)
      BY CommandCount
  <2>4. link' \in [vxlan : BOOLEAN, mac : 0 .. MaxRuns, bridge : BOOLEAN,
                   up : SUBSET {"vxlan", "bridge"}, joined : BOOLEAN]
    <3>1. link \in [vxlan : BOOLEAN, mac : 0 .. MaxRuns, bridge : BOOLEAN,
                    up : SUBSET {"vxlan", "bridge"}, joined : BOOLEAN]
        BY <1>0 DEF TypeOK, MeshTypeOK, MicrovmTypeOK, SpawnTypeOK, FilesTypeOK
    <3> HIDE <1>4
    <3>2. CASE setup \in {0, 1, 2}
        BY <2>1, <2>2, <3>1, <3>2
    <3>3. CASE setup \in {3, 4, 5}
        BY <2>1, <2>2, <3>1, <3>3
    <3> QED
        BY <2>1, <3>2, <3>3
  <2>5. TypeOK'
      BY <1>0, <2>1, <2>3, <2>4, CommandCount
         DEF TypeOK, MeshTypeOK, MicrovmTypeOK, SpawnTypeOK, FilesTypeOK,
             Nodes, microvm, taps, files, history
  <2>6. EntriesAccounted' /\ Reconciling'
      BY <1>0 DEF EntriesAccounted, Reconciling, Idle, Nothing
  <2>7. SetUp'
      BY <1>0, <2>1, <2>2, <2>3 DEF TypeOK, MeshTypeOK, MicrovmTypeOK, SpawnTypeOK, FilesTypeOK,
                         SetUp, microvm
  <2> QED
      BY <2>5, <2>6, <2>7, MicrovmStays DEF IInv
<1>5. CASE SetupFails
  <2> USE <1>5 DEF SetupFails, Err
  <2>1. TypeOK'
      BY <1>0, CommandCount
         DEF TypeOK, MeshTypeOK, MicrovmTypeOK, SpawnTypeOK, FilesTypeOK,
             Nodes, microvm, taps, files, history
  <2>2. EntriesAccounted' /\ Reconciling' /\ SetUp'
      BY <1>0 DEF EntriesAccounted, Reconciling, Idle, Nothing, SetUp, microvm
  <2> QED
      BY <2>1, <2>2, MicrovmStays DEF IInv
<1>6. CASE FetchPeers
  <2> USE <1>6 DEF FetchPeers, OverlayPeers, DiffFdb
  <2>1. TypeOK'
      BY <1>0, CommandCount
         DEF TypeOK, MeshTypeOK, MicrovmTypeOK, SpawnTypeOK, FilesTypeOK,
             Nodes, microvm, taps, files, history
  <2>2. EntriesAccounted' /\ Reconciling' /\ SetUp'
      BY <1>0 DEF EntriesAccounted, Reconciling, Idle, Nothing, SetUp, microvm
  <2> QED
      BY <2>1, <2>2, MicrovmStays DEF IInv
<1>7. CASE AppendFails
  <2> USE <1>7 DEF AppendFails, Err
  <2>1. TypeOK'
      BY <1>0, CommandCount
         DEF TypeOK, MeshTypeOK, MicrovmTypeOK, SpawnTypeOK, FilesTypeOK, Nothing,
             Nodes, microvm, taps, files, history
  <2>2. EntriesAccounted' /\ Reconciling' /\ SetUp'
      BY <1>0 DEF EntriesAccounted, Reconciling, Idle, Nothing, SetUp, microvm
  <2> QED
      BY <2>1, <2>2, MicrovmStays DEF IInv
<1>8. ASSUME NEW e \in todo.add, AppendEntry(e)
      PROVE  IInv'
  <2> USE <1>8 DEF AppendEntry
  <2>1. TypeOK'
      BY <1>0, CommandCount
         DEF TypeOK, MeshTypeOK, MicrovmTypeOK, SpawnTypeOK, FilesTypeOK,
             Nodes, microvm, taps, files, history
  <2>2. todo'.add = todo.add \ {e} /\ todo'.del = todo.del /\ ~Idle
      BY <1>0 DEF TypeOK, MeshTypeOK, MicrovmTypeOK, SpawnTypeOK, FilesTypeOK, Idle, Nothing
  <2>3. EntriesAccounted' /\ Reconciling' /\ SetUp'
      BY <1>0, <2>2 DEF EntriesAccounted, Reconciling, SetUp, microvm
  <2> QED
      BY <2>1, <2>3, MicrovmStays DEF IInv
<1>9. ASSUME NEW e \in todo.del, DeleteEntry(e) \/ DeleteFails(e)
      PROVE  IInv'
  <2> USE <1>9 DEF DeleteEntry, DeleteFails, Err
  <2>1. TypeOK'
      BY <1>0, CommandCount
         DEF TypeOK, MeshTypeOK, MicrovmTypeOK, SpawnTypeOK, FilesTypeOK,
             Nodes, microvm, taps, files, history
  <2>2. todo'.add = {} /\ todo.add = {} /\ todo'.del = todo.del \ {e} /\ ~Idle
      BY <1>0 DEF TypeOK, MeshTypeOK, MicrovmTypeOK, SpawnTypeOK, FilesTypeOK, Idle, Nothing
  <2>3. e \notin want
      BY <1>0 DEF Reconciling
  <2>4. EntriesAccounted' /\ Reconciling' /\ SetUp'
      BY <1>0, <2>2, <2>3 DEF EntriesAccounted, Reconciling, SetUp, microvm
  <2> QED
      BY <2>1, <2>4, MicrovmStays DEF IInv
<1> QED
    BY <1>1, <1>2, <1>3, <1>4, <1>5, <1>6, <1>7, <1>8, <1>9 DEF MeshStep
-----------------------------------------------------------------------------
(* The agent *)

LEMMA RegisterKeeps ==
    ASSUME IInv, Register \/ RegisterUnanswered
    PROVE  IInv'
<1>0. /\ TypeOK /\ EntriesAccounted /\ Reconciling /\ SetUp
      /\ run + 1 \in Nodes /\ run + 1 \in 0 .. MaxRuns
    BY RunIsNode, BoundsNat DEF IInv, TypeOK, MeshTypeOK, Register, RegisterUnanswered
<1>4. UNCHANGED microvm
    BY DEF Register, RegisterUnanswered
<1>5. MicrovmTypeOK'
    BY <1>0, <1>4 DEF TypeOK, MicrovmTypeOK, SpawnTypeOK, FilesTypeOK, microvm, taps, files, history
<1> USE DEF Register, RegisterUnanswered, Joins, Err, devices, mesh
<1>1. TypeOK'
  <2>2. /\ known' \subseteq Nodes /\ alive' \subseteq known'
        /\ run' \in 0 .. MaxRuns
      BY <1>0 DEF TypeOK, MeshTypeOK
  <2>3. agent' \in {"down", "starting", "up"} /\ errors' \in Nat
      BY <1>0 DEF TypeOK, MeshTypeOK
  <2> QED
      BY <1>0, <1>5, <2>2, <2>3 DEF TypeOK, MeshTypeOK
<1>2. EntriesAccounted' /\ Reconciling'
    BY <1>0 DEF EntriesAccounted, Reconciling, Idle, Nothing
<1>3. SetUp'
    BY <1>0 DEF SetUp, microvm
<1> QED
    BY <1>1, <1>2, <1>3, MicrovmStays DEF IInv

LEMMA KillKeeps ==
    ASSUME IInv, Kill
    PROVE  IInv'
<1>0. /\ TypeOK /\ EntriesAccounted /\ Reconciling /\ SetUp /\ TapHeld
    BY DEF IInv
<1> USE DEF Kill, LeaveMicrovm, server, taps, history
<1>1. MeshTypeOK'
    BY <1>0, CommandCount DEF TypeOK, MeshTypeOK, Nothing
<1>5. MicrovmTypeOK'
    BY <1>0 DEF TypeOK, MicrovmTypeOK, SpawnTypeOK, FilesTypeOK, SocketAfter, SocketLeft
<1>2. EntriesAccounted' /\ Reconciling'
    BY <1>0 DEF EntriesAccounted, Reconciling, Idle, Nothing
<1>3. SetUp'
    BY <1>0 DEF SetUp
<1>4. TapHeld' /\ TapPlaced' /\ VmmHeld' /\ UdsHeld'
    BY <1>0 DEF TapHeld, TapPlaced, VmmHeld, UdsHeld
<1> QED
    BY <1>1, <1>2, <1>3, <1>4, <1>5 DEF IInv, TypeOK

-----------------------------------------------------------------------------
(* The microVM *)

\* What the spawn does leaves the mesh and the devices alone
LEMMA HostStays ==
    ASSUME IInv, UNCHANGED host, UNCHANGED conf, errors' \in Nat
    PROVE  MeshTypeOK' /\ EntriesAccounted' /\ Reconciling' /\ SetUp'
  BY DEF IInv, TypeOK, MeshTypeOK, host, server, devices, mesh, EntriesAccounted, Reconciling,
     Idle, Nothing, SetUp

\* The part of the invariant that is about the microVM, with its types
Held ==
    /\ TypeOK /\ TapHeld /\ TapPlaced /\ VmmHeld /\ UdsHeld
    /\ (pc \in {"undo", "failed"} => Excused)

LEMMA DispatchKeeps ==
    ASSUME IInv, Dispatch
    PROVE  IInv'
<1>0. Held /\ MicrovmTypeOK /\ errors \in Nat
    BY DEF IInv, Held, TypeOK, MeshTypeOK
<1> USE DEF Dispatch, Bad, Good, Err, Goto,
           host, server, devices, mesh, files, taps, history
<1>1. SpawnTypeOK' /\ FilesTypeOK'
  <2>1. SpawnTypeOK'
      BY <1>0 DEF MicrovmTypeOK, SpawnTypeOK
  <2>2. FilesTypeOK'
      BY <1>0 DEF MicrovmTypeOK, FilesTypeOK
  <2> QED
      BY <2>1, <2>2
<1>2. TapHeld'
    BY <1>0 DEF Held, MicrovmTypeOK, SpawnTypeOK, FilesTypeOK, TapHeld
<1>3. TapPlaced'
    BY <1>0 DEF Held, MicrovmTypeOK, SpawnTypeOK, FilesTypeOK, TapHeld, TapPlaced,
                TapAttached, Meshed
<1>4. VmmHeld'
    BY <1>0 DEF Held, MicrovmTypeOK, SpawnTypeOK, FilesTypeOK, VmmHeld, SocketInTheWay
<1>7. UdsHeld'
    BY <1>0 DEF Held, MicrovmTypeOK, SpawnTypeOK, FilesTypeOK, UdsHeld
<1>5. (pc \in {"undo", "failed"} => Excused)'
    BY <1>0 DEF Held, MicrovmTypeOK, SpawnTypeOK, FilesTypeOK, TapHeld, TapPlaced,
                TapAttached, VmmHeld, UdsHeld, SocketInTheWay, Excused
<1>6. errors' \in Nat
    BY <1>0
<1> QED
    BY <1>1, <1>2, <1>3, <1>4, <1>5, <1>6, <1>7, HostStays
       DEF IInv, TypeOK, MicrovmTypeOK

LEMMA PrepareKeeps ==
    ASSUME IInv, Prepare
    PROVE  IInv'
<1>0. Held /\ MicrovmTypeOK /\ errors \in Nat
    BY DEF IInv, Held, TypeOK, MeshTypeOK
<1> USE DEF Prepare, Bad, Good, Err, Goto,
           host, server, devices, mesh, files, taps, history
<1>1. SpawnTypeOK' /\ FilesTypeOK'
  <2>1. SpawnTypeOK'
      BY <1>0 DEF MicrovmTypeOK, SpawnTypeOK
  <2>2. FilesTypeOK'
      BY <1>0 DEF MicrovmTypeOK, FilesTypeOK
  <2> QED
      BY <2>1, <2>2
<1>2. TapHeld'
    BY <1>0 DEF Held, MicrovmTypeOK, SpawnTypeOK, FilesTypeOK, TapHeld
<1>3. TapPlaced'
    BY <1>0 DEF Held, MicrovmTypeOK, SpawnTypeOK, FilesTypeOK, TapHeld, TapPlaced,
                TapAttached, Meshed
<1>4. VmmHeld'
    BY <1>0 DEF Held, MicrovmTypeOK, SpawnTypeOK, FilesTypeOK, VmmHeld, SocketInTheWay
<1>7. UdsHeld'
    BY <1>0 DEF Held, MicrovmTypeOK, SpawnTypeOK, FilesTypeOK, UdsHeld
<1>5. (pc \in {"undo", "failed"} => Excused)'
    BY <1>0 DEF Held, MicrovmTypeOK, SpawnTypeOK, FilesTypeOK, TapHeld, TapPlaced,
                TapAttached, VmmHeld, UdsHeld, SocketInTheWay, Excused
<1>6. errors' \in Nat
    BY <1>0
<1> QED
    BY <1>1, <1>2, <1>3, <1>4, <1>5, <1>6, <1>7, HostStays
       DEF IInv, TypeOK, MicrovmTypeOK

LEMMA CreateTapKeeps ==
    ASSUME IInv, CreateTap
    PROVE  IInv'
<1>0. Held /\ MicrovmTypeOK /\ errors \in Nat
    BY DEF IInv, Held, TypeOK, MeshTypeOK
<1> USE DEF CreateTap, Bad, Good, Err, Goto,
           host, server, devices, mesh, files, taps, history
<1>1. SpawnTypeOK' /\ FilesTypeOK'
  <2>1. SpawnTypeOK'
      BY <1>0 DEF MicrovmTypeOK, SpawnTypeOK
  <2>2. FilesTypeOK'
      BY <1>0 DEF MicrovmTypeOK, FilesTypeOK
  <2> QED
      BY <2>1, <2>2
<1>2. TapHeld'
    BY <1>0 DEF Held, MicrovmTypeOK, SpawnTypeOK, FilesTypeOK, TapHeld
<1>3. TapPlaced'
    BY <1>0 DEF Held, MicrovmTypeOK, SpawnTypeOK, FilesTypeOK, TapHeld, TapPlaced,
                TapAttached, Meshed
<1>4. VmmHeld'
    BY <1>0 DEF Held, MicrovmTypeOK, SpawnTypeOK, FilesTypeOK, VmmHeld, SocketInTheWay
<1>7. UdsHeld'
    BY <1>0 DEF Held, MicrovmTypeOK, SpawnTypeOK, FilesTypeOK, UdsHeld
<1>5. (pc \in {"undo", "failed"} => Excused)'
    BY <1>0 DEF Held, MicrovmTypeOK, SpawnTypeOK, FilesTypeOK, TapHeld, TapPlaced,
                TapAttached, VmmHeld, UdsHeld, SocketInTheWay, Excused
<1>6. errors' \in Nat
    BY <1>0
<1> QED
    BY <1>1, <1>2, <1>3, <1>4, <1>5, <1>6, <1>7, HostStays
       DEF IInv, TypeOK, MicrovmTypeOK

LEMMA RaiseTapKeeps ==
    ASSUME IInv, RaiseTap
    PROVE  IInv'
<1>0. Held /\ MicrovmTypeOK /\ errors \in Nat
    BY DEF IInv, Held, TypeOK, MeshTypeOK
<1> USE DEF RaiseTap, Placement, Bad, Good, Err, Goto,
           host, server, devices, mesh, files, taps, history
<1>1. SpawnTypeOK' /\ FilesTypeOK'
  <2>1. SpawnTypeOK'
      BY <1>0 DEF MicrovmTypeOK, SpawnTypeOK
  <2>2. FilesTypeOK'
      BY <1>0 DEF MicrovmTypeOK, FilesTypeOK
  <2> QED
      BY <2>1, <2>2
<1>2. TapHeld'
    BY <1>0 DEF Held, MicrovmTypeOK, SpawnTypeOK, FilesTypeOK, TapHeld
<1>3. TapPlaced'
    BY <1>0 DEF Held, MicrovmTypeOK, SpawnTypeOK, FilesTypeOK, TapHeld, TapPlaced,
                TapAttached, Meshed
<1>4. VmmHeld'
    BY <1>0 DEF Held, MicrovmTypeOK, SpawnTypeOK, FilesTypeOK, VmmHeld, SocketInTheWay
<1>7. UdsHeld'
    BY <1>0 DEF Held, MicrovmTypeOK, SpawnTypeOK, FilesTypeOK, UdsHeld
<1>5. (pc \in {"undo", "failed"} => Excused)'
    BY <1>0 DEF Held, MicrovmTypeOK, SpawnTypeOK, FilesTypeOK, TapHeld, TapPlaced,
                TapAttached, VmmHeld, UdsHeld, SocketInTheWay, Excused
<1>6. errors' \in Nat
    BY <1>0
<1> QED
    BY <1>1, <1>2, <1>3, <1>4, <1>5, <1>6, <1>7, HostStays
       DEF IInv, TypeOK, MicrovmTypeOK

LEMMA BridgeTapKeeps ==
    ASSUME IInv, BridgeTap
    PROVE  IInv'
<1>0. Held /\ MicrovmTypeOK /\ errors \in Nat
    BY DEF IInv, Held, TypeOK, MeshTypeOK
<1> USE DEF BridgeTap, Bad, Good, Err, Goto,
           host, server, devices, mesh, files, taps, history
<1>1. SpawnTypeOK' /\ FilesTypeOK'
  <2>1. SpawnTypeOK'
      BY <1>0 DEF MicrovmTypeOK, SpawnTypeOK
  <2>2. FilesTypeOK'
      BY <1>0 DEF MicrovmTypeOK, FilesTypeOK
  <2> QED
      BY <2>1, <2>2
<1>2. TapHeld'
    BY <1>0 DEF Held, MicrovmTypeOK, SpawnTypeOK, FilesTypeOK, TapHeld
<1>3. TapPlaced'
    BY <1>0 DEF Held, MicrovmTypeOK, SpawnTypeOK, FilesTypeOK, TapHeld, TapPlaced,
                TapAttached, Meshed
<1>4. VmmHeld'
    BY <1>0 DEF Held, MicrovmTypeOK, SpawnTypeOK, FilesTypeOK, VmmHeld, SocketInTheWay
<1>7. UdsHeld'
    BY <1>0 DEF Held, MicrovmTypeOK, SpawnTypeOK, FilesTypeOK, UdsHeld
<1>5. (pc \in {"undo", "failed"} => Excused)'
    BY <1>0 DEF Held, MicrovmTypeOK, SpawnTypeOK, FilesTypeOK, TapHeld, TapPlaced,
                TapAttached, VmmHeld, UdsHeld, SocketInTheWay, Excused
<1>6. errors' \in Nat
    BY <1>0
<1> QED
    BY <1>1, <1>2, <1>3, <1>4, <1>5, <1>6, <1>7, HostStays
       DEF IInv, TypeOK, MicrovmTypeOK

LEMMA MoveTapKeeps ==
    ASSUME IInv, MoveTap
    PROVE  IInv'
<1>0. Held /\ MicrovmTypeOK /\ errors \in Nat
    BY DEF IInv, Held, TypeOK, MeshTypeOK
<1> USE DEF MoveTap, Bad, Good, Err, Goto,
           host, server, devices, mesh, files, taps, history
<1>1. SpawnTypeOK' /\ FilesTypeOK'
  <2>1. SpawnTypeOK'
      BY <1>0 DEF MicrovmTypeOK, SpawnTypeOK
  <2>2. FilesTypeOK'
      BY <1>0 DEF MicrovmTypeOK, FilesTypeOK
  <2> QED
      BY <2>1, <2>2
<1>2. TapHeld'
    BY <1>0 DEF Held, MicrovmTypeOK, SpawnTypeOK, FilesTypeOK, TapHeld
<1>3. TapPlaced'
    BY <1>0 DEF Held, MicrovmTypeOK, SpawnTypeOK, FilesTypeOK, TapHeld, TapPlaced,
                TapAttached, Meshed
<1>4. VmmHeld'
    BY <1>0 DEF Held, MicrovmTypeOK, SpawnTypeOK, FilesTypeOK, VmmHeld, SocketInTheWay
<1>7. UdsHeld'
    BY <1>0 DEF Held, MicrovmTypeOK, SpawnTypeOK, FilesTypeOK, UdsHeld
<1>5. (pc \in {"undo", "failed"} => Excused)'
    BY <1>0 DEF Held, MicrovmTypeOK, SpawnTypeOK, FilesTypeOK, TapHeld, TapPlaced,
                TapAttached, VmmHeld, UdsHeld, SocketInTheWay, Excused
<1>6. errors' \in Nat
    BY <1>0
<1> QED
    BY <1>1, <1>2, <1>3, <1>4, <1>5, <1>6, <1>7, HostStays
       DEF IInv, TypeOK, MicrovmTypeOK

LEMMA UndoKeeps ==
    ASSUME IInv, Undo
    PROVE  IInv'
<1>0. Held /\ MicrovmTypeOK /\ errors \in Nat
    BY DEF IInv, Held, TypeOK, MeshTypeOK
<1> USE DEF Undo, Bad, Good, Err, Goto,
           host, server, devices, mesh, files, taps, history
<1>1. SpawnTypeOK' /\ FilesTypeOK'
  <2>1. SpawnTypeOK'
      BY <1>0 DEF MicrovmTypeOK, SpawnTypeOK
  <2>2. FilesTypeOK'
      BY <1>0 DEF MicrovmTypeOK, FilesTypeOK
  <2> QED
      BY <2>1, <2>2
<1>2. TapHeld'
    BY <1>0 DEF Held, MicrovmTypeOK, SpawnTypeOK, FilesTypeOK, TapHeld
<1>3. TapPlaced'
    BY <1>0 DEF Held, MicrovmTypeOK, SpawnTypeOK, FilesTypeOK, TapHeld, TapPlaced,
                TapAttached, Meshed
<1>4. VmmHeld'
    BY <1>0 DEF Held, MicrovmTypeOK, SpawnTypeOK, FilesTypeOK, VmmHeld, SocketInTheWay
<1>7. UdsHeld'
    BY <1>0 DEF Held, MicrovmTypeOK, SpawnTypeOK, FilesTypeOK, UdsHeld
<1>5. (pc \in {"undo", "failed"} => Excused)'
    BY <1>0 DEF Held, MicrovmTypeOK, SpawnTypeOK, FilesTypeOK, TapHeld, TapPlaced,
                TapAttached, VmmHeld, UdsHeld, SocketInTheWay, Excused
<1>6. errors' \in Nat
    BY <1>0
<1> QED
    BY <1>1, <1>2, <1>3, <1>4, <1>5, <1>6, <1>7, HostStays
       DEF IInv, TypeOK, MicrovmTypeOK

LEMMA LaunchKeeps ==
    ASSUME IInv, Launch
    PROVE  IInv'
<1>0. Held /\ MicrovmTypeOK /\ errors \in Nat
    BY DEF IInv, Held, TypeOK, MeshTypeOK
<1> USE DEF Launch, GiveUp, SocketAfter, AfterFailure, Bad, Good, Err, Goto,
           host, server, devices, mesh, files, taps, history
<1>1. SpawnTypeOK' /\ FilesTypeOK'
  <2>1. SpawnTypeOK'
      BY <1>0 DEF MicrovmTypeOK, SpawnTypeOK
  <2>2. FilesTypeOK'
      BY <1>0 DEF MicrovmTypeOK, FilesTypeOK
  <2> QED
      BY <2>1, <2>2
<1>2. TapHeld'
    BY <1>0 DEF Held, MicrovmTypeOK, SpawnTypeOK, FilesTypeOK, TapHeld
<1>3. TapPlaced'
    BY <1>0 DEF Held, MicrovmTypeOK, SpawnTypeOK, FilesTypeOK, TapHeld, TapPlaced,
                TapAttached, Meshed
<1>4. VmmHeld'
    BY <1>0 DEF Held, MicrovmTypeOK, SpawnTypeOK, FilesTypeOK, VmmHeld, SocketInTheWay
<1>7. UdsHeld'
    BY <1>0 DEF Held, MicrovmTypeOK, SpawnTypeOK, FilesTypeOK, UdsHeld
<1>5. (pc \in {"undo", "failed"} => Excused)'
    BY <1>0 DEF Held, MicrovmTypeOK, SpawnTypeOK, FilesTypeOK, TapHeld, TapPlaced,
                TapAttached, VmmHeld, UdsHeld, SocketInTheWay, Excused
<1>6. errors' \in Nat
    BY <1>0
<1> QED
    BY <1>1, <1>2, <1>3, <1>4, <1>5, <1>6, <1>7, HostStays
       DEF IInv, TypeOK, MicrovmTypeOK

LEMMA VmmServesKeeps ==
    ASSUME IInv, VmmServes
    PROVE  IInv'
<1>0. Held /\ MicrovmTypeOK /\ errors \in Nat
    BY DEF IInv, Held, TypeOK, MeshTypeOK
<1> USE DEF VmmServes, Bad, Good, Err, Goto,
           host, server, devices, mesh, files, taps, history
<1>1. SpawnTypeOK' /\ FilesTypeOK'
  <2>1. SpawnTypeOK'
      BY <1>0 DEF MicrovmTypeOK, SpawnTypeOK
  <2>2. FilesTypeOK'
      BY <1>0 DEF MicrovmTypeOK, FilesTypeOK
  <2> QED
      BY <2>1, <2>2
<1>2. TapHeld'
    BY <1>0 DEF Held, MicrovmTypeOK, SpawnTypeOK, FilesTypeOK, TapHeld
<1>3. TapPlaced'
    BY <1>0 DEF Held, MicrovmTypeOK, SpawnTypeOK, FilesTypeOK, TapHeld, TapPlaced,
                TapAttached, Meshed
<1>4. VmmHeld'
    BY <1>0 DEF Held, MicrovmTypeOK, SpawnTypeOK, FilesTypeOK, VmmHeld, SocketInTheWay
<1>7. UdsHeld'
    BY <1>0 DEF Held, MicrovmTypeOK, SpawnTypeOK, FilesTypeOK, UdsHeld
<1>5. (pc \in {"undo", "failed"} => Excused)'
    BY <1>0 DEF Held, MicrovmTypeOK, SpawnTypeOK, FilesTypeOK, TapHeld, TapPlaced,
                TapAttached, VmmHeld, UdsHeld, SocketInTheWay, Excused
<1>6. errors' \in Nat
    BY <1>0
<1> QED
    BY <1>1, <1>2, <1>3, <1>4, <1>5, <1>6, <1>7, HostStays
       DEF IInv, TypeOK, MicrovmTypeOK

LEMMA VmmRefusesKeeps ==
    ASSUME IInv, VmmRefuses
    PROVE  IInv'
<1>0. Held /\ MicrovmTypeOK /\ errors \in Nat
    BY DEF IInv, Held, TypeOK, MeshTypeOK
<1> USE DEF VmmRefuses, Bad, Good, Err, Goto,
           host, server, devices, mesh, files, taps, history
<1>1. SpawnTypeOK' /\ FilesTypeOK'
  <2>1. SpawnTypeOK'
      BY <1>0 DEF MicrovmTypeOK, SpawnTypeOK
  <2>2. FilesTypeOK'
      BY <1>0 DEF MicrovmTypeOK, FilesTypeOK
  <2> QED
      BY <2>1, <2>2
<1>2. TapHeld'
    BY <1>0 DEF Held, MicrovmTypeOK, SpawnTypeOK, FilesTypeOK, TapHeld
<1>3. TapPlaced'
    BY <1>0 DEF Held, MicrovmTypeOK, SpawnTypeOK, FilesTypeOK, TapHeld, TapPlaced,
                TapAttached, Meshed
<1>4. VmmHeld'
    BY <1>0 DEF Held, MicrovmTypeOK, SpawnTypeOK, FilesTypeOK, VmmHeld, SocketInTheWay
<1>7. UdsHeld'
    BY <1>0 DEF Held, MicrovmTypeOK, SpawnTypeOK, FilesTypeOK, UdsHeld
<1>5. (pc \in {"undo", "failed"} => Excused)'
    BY <1>0 DEF Held, MicrovmTypeOK, SpawnTypeOK, FilesTypeOK, TapHeld, TapPlaced,
                TapAttached, VmmHeld, UdsHeld, SocketInTheWay, Excused
<1>6. errors' \in Nat
    BY <1>0
<1> QED
    BY <1>1, <1>2, <1>3, <1>4, <1>5, <1>6, <1>7, HostStays
       DEF IInv, TypeOK, MicrovmTypeOK

LEMMA OrphanEndsKeeps ==
    ASSUME IInv, OrphanEnds
    PROVE  IInv'
<1>0. Held /\ MicrovmTypeOK /\ errors \in Nat
    BY DEF IInv, Held, TypeOK, MeshTypeOK
<1> USE DEF OrphanEnds, Bad, Good, Err, Goto,
           host, server, devices, mesh, files, taps, history
<1>1. SpawnTypeOK' /\ FilesTypeOK'
  <2>1. SpawnTypeOK'
      BY <1>0 DEF MicrovmTypeOK, SpawnTypeOK
  <2>2. FilesTypeOK'
      BY <1>0 DEF MicrovmTypeOK, FilesTypeOK
  <2> QED
      BY <2>1, <2>2
<1>2. TapHeld'
    BY <1>0 DEF Held, MicrovmTypeOK, SpawnTypeOK, FilesTypeOK, TapHeld
<1>3. TapPlaced'
    BY <1>0 DEF Held, MicrovmTypeOK, SpawnTypeOK, FilesTypeOK, TapHeld, TapPlaced,
                TapAttached, Meshed
<1>4. VmmHeld'
    BY <1>0 DEF Held, MicrovmTypeOK, SpawnTypeOK, FilesTypeOK, VmmHeld, SocketInTheWay
<1>7. UdsHeld'
    BY <1>0 DEF Held, MicrovmTypeOK, SpawnTypeOK, FilesTypeOK, UdsHeld
<1>5. (pc \in {"undo", "failed"} => Excused)'
    BY <1>0 DEF Held, MicrovmTypeOK, SpawnTypeOK, FilesTypeOK, TapHeld, TapPlaced,
                TapAttached, VmmHeld, UdsHeld, SocketInTheWay, Excused
<1>6. errors' \in Nat
    BY <1>0
<1> QED
    BY <1>1, <1>2, <1>3, <1>4, <1>5, <1>6, <1>7, HostStays
       DEF IInv, TypeOK, MicrovmTypeOK

LEMMA VmmEndsKeeps ==
    ASSUME IInv, VmmEnds
    PROVE  IInv'
<1>0. Held /\ MicrovmTypeOK /\ errors \in Nat
    BY DEF IInv, Held, TypeOK, MeshTypeOK
<1> USE DEF VmmEnds, SocketAfter, Bad, Good, Err, Goto,
           host, server, devices, mesh, files, taps, history
<1>1. SpawnTypeOK' /\ FilesTypeOK'
  <2>1. SpawnTypeOK'
      BY <1>0 DEF MicrovmTypeOK, SpawnTypeOK
  <2>2. FilesTypeOK'
      BY <1>0 DEF MicrovmTypeOK, FilesTypeOK
  <2> QED
      BY <2>1, <2>2
<1>2. TapHeld'
    BY <1>0 DEF Held, MicrovmTypeOK, SpawnTypeOK, FilesTypeOK, TapHeld
<1>3. TapPlaced'
    BY <1>0 DEF Held, MicrovmTypeOK, SpawnTypeOK, FilesTypeOK, TapHeld, TapPlaced,
                TapAttached, Meshed
<1>4. VmmHeld'
    BY <1>0 DEF Held, MicrovmTypeOK, SpawnTypeOK, FilesTypeOK, VmmHeld, SocketInTheWay
<1>7. UdsHeld'
    BY <1>0 DEF Held, MicrovmTypeOK, SpawnTypeOK, FilesTypeOK, UdsHeld
<1>5. (pc \in {"undo", "failed"} => Excused)'
    BY <1>0 DEF Held, MicrovmTypeOK, SpawnTypeOK, FilesTypeOK, TapHeld, TapPlaced,
                TapAttached, VmmHeld, UdsHeld, SocketInTheWay, Excused
<1>6. errors' \in Nat
    BY <1>0
<1> QED
    BY <1>1, <1>2, <1>3, <1>4, <1>5, <1>6, <1>7, HostStays
       DEF IInv, TypeOK, MicrovmTypeOK

LEMMA WaitForSocketKeeps ==
    ASSUME IInv, WaitForSocket
    PROVE  IInv'
<1>0. Held /\ MicrovmTypeOK /\ errors \in Nat
    BY DEF IInv, Held, TypeOK, MeshTypeOK
<1> USE DEF WaitForSocket, GiveUp, SocketAfter, AfterFailure, Bad, Good, Err, Goto,
           host, server, devices, mesh, files, taps, history
<1>1. SpawnTypeOK' /\ FilesTypeOK'
  <2>1. SpawnTypeOK'
      BY <1>0 DEF MicrovmTypeOK, SpawnTypeOK
  <2>2. FilesTypeOK'
      BY <1>0 DEF MicrovmTypeOK, FilesTypeOK
  <2> QED
      BY <2>1, <2>2
<1>2. TapHeld'
    BY <1>0 DEF Held, MicrovmTypeOK, SpawnTypeOK, FilesTypeOK, TapHeld
<1>3. TapPlaced'
    BY <1>0 DEF Held, MicrovmTypeOK, SpawnTypeOK, FilesTypeOK, TapHeld, TapPlaced,
                TapAttached, Meshed
<1>4. VmmHeld'
    BY <1>0 DEF Held, MicrovmTypeOK, SpawnTypeOK, FilesTypeOK, VmmHeld, SocketInTheWay
<1>7. UdsHeld'
    BY <1>0 DEF Held, MicrovmTypeOK, SpawnTypeOK, FilesTypeOK, UdsHeld
<1>5. (pc \in {"undo", "failed"} => Excused)'
    BY <1>0 DEF Held, MicrovmTypeOK, SpawnTypeOK, FilesTypeOK, TapHeld, TapPlaced,
                TapAttached, VmmHeld, UdsHeld, SocketInTheWay, Excused
<1>6. errors' \in Nat
    BY <1>0
<1> QED
    BY <1>1, <1>2, <1>3, <1>4, <1>5, <1>6, <1>7, HostStays
       DEF IInv, TypeOK, MicrovmTypeOK

LEMMA StartVsockServerKeeps ==
    ASSUME IInv, StartVsockServer
    PROVE  IInv'
<1>0. Held /\ MicrovmTypeOK /\ errors \in Nat
    BY DEF IInv, Held, TypeOK, MeshTypeOK
<1> USE DEF StartVsockServer, GiveUp, SocketAfter, AfterFailure, Bad, Good, Err, Goto,
           host, server, devices, mesh, files, taps, history
<1>1. SpawnTypeOK' /\ FilesTypeOK'
  <2>1. SpawnTypeOK'
      BY <1>0 DEF MicrovmTypeOK, SpawnTypeOK
  <2>2. FilesTypeOK'
      BY <1>0 DEF MicrovmTypeOK, FilesTypeOK
  <2> QED
      BY <2>1, <2>2
<1>2. TapHeld'
    BY <1>0 DEF Held, MicrovmTypeOK, SpawnTypeOK, FilesTypeOK, TapHeld
<1>3. TapPlaced'
    BY <1>0 DEF Held, MicrovmTypeOK, SpawnTypeOK, FilesTypeOK, TapHeld, TapPlaced,
                TapAttached, Meshed
<1>4. VmmHeld'
    BY <1>0 DEF Held, MicrovmTypeOK, SpawnTypeOK, FilesTypeOK, VmmHeld, SocketInTheWay
<1>7. UdsHeld'
    BY <1>0 DEF Held, MicrovmTypeOK, SpawnTypeOK, FilesTypeOK, UdsHeld
<1>5. (pc \in {"undo", "failed"} => Excused)'
    BY <1>0 DEF Held, MicrovmTypeOK, SpawnTypeOK, FilesTypeOK, TapHeld, TapPlaced,
                TapAttached, VmmHeld, UdsHeld, SocketInTheWay, Excused
<1>6. errors' \in Nat
    BY <1>0
<1> QED
    BY <1>1, <1>2, <1>3, <1>4, <1>5, <1>6, <1>7, HostStays
       DEF IInv, TypeOK, MicrovmTypeOK

LEMMA PutVsockKeeps ==
    ASSUME IInv, PutVsock
    PROVE  IInv'
<1>0. Held /\ MicrovmTypeOK /\ errors \in Nat
    BY DEF IInv, Held, TypeOK, MeshTypeOK
<1>6. errors' \in Nat
  <2>1. errors' \in {errors, errors + 1}
      BY DEF PutVsock, Good, Bad, Err
  <2> QED
      BY <1>0, <2>1
<1> USE DEF PutVsock, PutAnswered, PutFails, GiveUp, SocketAfter, AfterFailure,
           Bad, Good, Err, Goto, host, server, devices, mesh, files, taps, history
<1>1. SpawnTypeOK' /\ FilesTypeOK'
  <2>1. SpawnTypeOK'
      BY <1>0 DEF MicrovmTypeOK, SpawnTypeOK
  <2>2. FilesTypeOK'
      BY <1>0 DEF MicrovmTypeOK, FilesTypeOK
  <2> QED
      BY <2>1, <2>2
<1>2. TapHeld'
    BY <1>0 DEF Held, MicrovmTypeOK, SpawnTypeOK, FilesTypeOK, TapHeld
<1>3. TapPlaced'
    BY <1>0 DEF Held, MicrovmTypeOK, SpawnTypeOK, FilesTypeOK, TapHeld, TapPlaced,
                TapAttached, Meshed
<1>4. VmmHeld'
    BY <1>0 DEF Held, MicrovmTypeOK, SpawnTypeOK, FilesTypeOK, VmmHeld, SocketInTheWay
<1>7. UdsHeld'
    BY <1>0 DEF Held, MicrovmTypeOK, SpawnTypeOK, FilesTypeOK, UdsHeld
<1>5. (pc \in {"undo", "failed"} => Excused)'
    BY <1>0 DEF Held, MicrovmTypeOK, SpawnTypeOK, FilesTypeOK, TapHeld, TapPlaced,
                TapAttached, VmmHeld, UdsHeld, SocketInTheWay, Excused
<1> QED
    BY <1>1, <1>2, <1>3, <1>4, <1>5, <1>6, <1>7, HostStays
       DEF IInv, TypeOK, MicrovmTypeOK

LEMMA AttachKeeps ==
    ASSUME IInv, Attach
    PROVE  IInv'
<1>0. Held /\ MicrovmTypeOK /\ errors \in Nat
    BY DEF IInv, Held, TypeOK, MeshTypeOK
<1> USE DEF Attach, PutAnswered, PutFails, Boots, GiveUp, SocketAfter, AfterFailure,
           Bad, Good, Err, Goto, host, server, devices, mesh, files, taps, history
<1>1. SpawnTypeOK' /\ FilesTypeOK'
  <2>1. SpawnTypeOK'
      BY <1>0 DEF MicrovmTypeOK, SpawnTypeOK
  <2>2. FilesTypeOK'
      BY <1>0 DEF MicrovmTypeOK, FilesTypeOK
  <2> QED
      BY <2>1, <2>2
<1>2. TapHeld'
    BY <1>0 DEF Held, MicrovmTypeOK, SpawnTypeOK, FilesTypeOK, TapHeld
<1>3. TapPlaced'
    BY <1>0 DEF Held, MicrovmTypeOK, SpawnTypeOK, FilesTypeOK, TapHeld, TapPlaced,
                TapAttached, Meshed
<1>4. VmmHeld'
    BY <1>0 DEF Held, MicrovmTypeOK, SpawnTypeOK, FilesTypeOK, VmmHeld, SocketInTheWay
<1>7. UdsHeld'
    BY <1>0 DEF Held, MicrovmTypeOK, SpawnTypeOK, FilesTypeOK, UdsHeld
<1>5. (pc \in {"undo", "failed"} => Excused)'
    BY <1>0 DEF Held, MicrovmTypeOK, SpawnTypeOK, FilesTypeOK, TapHeld, TapPlaced,
                TapAttached, VmmHeld, UdsHeld, SocketInTheWay, Excused
<1>6. errors' \in Nat
    BY <1>0
<1> QED
    BY <1>1, <1>2, <1>3, <1>4, <1>5, <1>6, <1>7, HostStays
       DEF IInv, TypeOK, MicrovmTypeOK

LEMMA LoadSnapshotKeeps ==
    ASSUME IInv, LoadSnapshot
    PROVE  IInv'
<1>0. Held /\ MicrovmTypeOK /\ errors \in Nat
    BY DEF IInv, Held, TypeOK, MeshTypeOK
<1>6. errors' \in Nat
  <2>1. errors' \in {errors, errors + 1}
      BY DEF LoadSnapshot, Good, Bad, Err
  <2> QED
      BY <1>0, <2>1
<1> USE DEF LoadSnapshot, PutAnswered, PutFails, Boots, UdsRestored, GiveUp, SocketAfter, AfterFailure,
           Bad, Good, Err, Goto, host, server, devices, mesh, files, taps, history
<1>1. SpawnTypeOK' /\ FilesTypeOK'
  <2>1. SpawnTypeOK'
      BY <1>0 DEF MicrovmTypeOK, SpawnTypeOK
  <2>2. FilesTypeOK'
      BY <1>0 DEF MicrovmTypeOK, FilesTypeOK
  <2> QED
      BY <2>1, <2>2
<1>2. TapHeld'
    BY <1>0 DEF Held, MicrovmTypeOK, SpawnTypeOK, FilesTypeOK, TapHeld
<1>3. TapPlaced'
    BY <1>0 DEF Held, MicrovmTypeOK, SpawnTypeOK, FilesTypeOK, TapHeld, TapPlaced,
                TapAttached, Meshed
<1>4. VmmHeld'
    BY <1>0 DEF Held, MicrovmTypeOK, SpawnTypeOK, FilesTypeOK, VmmHeld, SocketInTheWay
<1>7. UdsHeld'
    BY <1>0 DEF Held, MicrovmTypeOK, SpawnTypeOK, FilesTypeOK, UdsHeld
<1>5. (pc \in {"undo", "failed"} => Excused)'
    BY <1>0 DEF Held, MicrovmTypeOK, SpawnTypeOK, FilesTypeOK, TapHeld, TapPlaced,
                TapAttached, VmmHeld, UdsHeld, SocketInTheWay, Excused
<1> QED
    BY <1>1, <1>2, <1>3, <1>4, <1>5, <1>6, <1>7, HostStays
       DEF IInv, TypeOK, MicrovmTypeOK

LEMMA ListenerStopsKeeps ==
    ASSUME IInv, ListenerStops
    PROVE  IInv'
<1>0. Held /\ MicrovmTypeOK /\ errors \in Nat
    BY DEF IInv, Held, TypeOK, MeshTypeOK
<1> USE DEF ListenerStops, Bad, Good, Err, Goto,
           host, server, devices, mesh, files, taps, history
<1>1. SpawnTypeOK' /\ FilesTypeOK'
  <2>1. SpawnTypeOK'
      BY <1>0 DEF MicrovmTypeOK, SpawnTypeOK
  <2>2. FilesTypeOK'
      BY <1>0 DEF MicrovmTypeOK, FilesTypeOK
  <2> QED
      BY <2>1, <2>2
<1>2. TapHeld'
    BY <1>0 DEF Held, MicrovmTypeOK, SpawnTypeOK, FilesTypeOK, TapHeld
<1>3. TapPlaced'
    BY <1>0 DEF Held, MicrovmTypeOK, SpawnTypeOK, FilesTypeOK, TapHeld, TapPlaced,
                TapAttached, Meshed
<1>4. VmmHeld'
    BY <1>0 DEF Held, MicrovmTypeOK, SpawnTypeOK, FilesTypeOK, VmmHeld, SocketInTheWay
<1>7. UdsHeld'
    BY <1>0 DEF Held, MicrovmTypeOK, SpawnTypeOK, FilesTypeOK, UdsHeld
<1>5. (pc \in {"undo", "failed"} => Excused)'
    BY <1>0 DEF Held, MicrovmTypeOK, SpawnTypeOK, FilesTypeOK, TapHeld, TapPlaced,
                TapAttached, VmmHeld, UdsHeld, SocketInTheWay, Excused
<1>6. errors' \in Nat
    BY <1>0
<1> QED
    BY <1>1, <1>2, <1>3, <1>4, <1>5, <1>6, <1>7, HostStays
       DEF IInv, TypeOK, MicrovmTypeOK

-----------------------------------------------------------------------------
(* What follows *)

LEMMA StepKeeps == IInv /\ [Next]_vars => IInv'
<1> SUFFICES ASSUME IInv, [Next]_vars PROVE IInv'
    OBVIOUS
<1>1. CASE Register \/ RegisterUnanswered
    BY <1>1, RegisterKeeps
<1>2. CASE Kill
    BY <1>2, KillKeeps
<1>3. CASE MeshStep /\ UNCHANGED microvm
    BY <1>3, MeshKeeps
<1>4. CASE VmStep
    BY <1>4, DispatchKeeps, PrepareKeeps, CreateTapKeeps, RaiseTapKeeps, BridgeTapKeeps,
       MoveTapKeeps, UndoKeeps, LaunchKeeps, VmmServesKeeps, VmmRefusesKeeps,
       VmmEndsKeeps, OrphanEndsKeeps, WaitForSocketKeeps, StartVsockServerKeeps,
       PutVsockKeeps, AttachKeeps, LoadSnapshotKeeps, ListenerStopsKeeps
       DEF VmStep, SpawnStep
<1>5. CASE UNCHANGED vars
  <2> USE <1>5 DEF vars, overlay, microvm, files, taps, history, server, mesh, devices
  <2>1. MeshTypeOK' /\ EntriesAccounted' /\ Reconciling' /\ SetUp'
      BY HostStays DEF IInv, TypeOK, MeshTypeOK, host
  <2>2. MicrovmTypeOK'
      BY DEF IInv, TypeOK, MicrovmTypeOK, SpawnTypeOK, FilesTypeOK
  <2> QED
      BY <2>1, <2>2, MicrovmStays DEF IInv, TypeOK
<1> QED
    BY <1>1, <1>2, <1>3, <1>4, <1>5 DEF Next

(***************************************************************************)
(* The inductive invariant: what the host has left of earlier runs, how    *)
(* far setup, a reconcile and a launch are.  It is needed because what a   *)
(* delete or a failure relies on was established several steps before.     *)
(***************************************************************************)
THEOREM IInvHolds == Spec => []IInv
<1>1. Init => IInv
    BY InitIInv
<1>2. IInv /\ [Next]_vars => IInv'
    BY StepKeeps
<1> QED
    BY <1>1, <1>2, PTL DEF Spec

(***************************************************************************)
(* What is applied is on the device, and what else is there was left by an *)
(* earlier run or by a failed delete (overlay.rs, reconcile).              *)
(***************************************************************************)
THEOREM EntriesAreAccounted == Spec => []EntriesAccounted
<1>1. IInv => EntriesAccounted
    BY DEF IInv
<1> QED
    BY <1>1, IInvHolds, PTL

(***************************************************************************)
(* A launch that fails leaks no TAP in the host's namespace (setup_tap and *)
(* spawn of firecracker.rs).                                               *)
(***************************************************************************)
THEOREM NoTapIsLeaked == Spec => []NoTapLeaked
<1>1. IInv => NoTapLeaked
    BY DEF IInv, TapHeld, NoTapLeaked
<1> QED
    BY <1>1, IInvHolds, PTL

(***************************************************************************)
(* A launch fails only by an error, for what an earlier attempt or run left*)
(* (a TAP, the file at uds_path, a jail's API socket), or for what its     *)
(* snapshot has recorded (firecracker.rs, spawn).                          *)
(***************************************************************************)
THEOREM FailuresAreExcused == Spec => []FailureExcused
<1>1. IInv => FailureExcused
    BY DEF IInv, FailureExcused
<1> QED
    BY <1>1, IInvHolds, PTL

(***************************************************************************)
(* A guest that was booted afresh on a host with an overlay is on the mesh *)
(* (run_agent sets the overlay up before its loops, spawn enslaves the TAP *)
(* before the launch).                                                     *)
(***************************************************************************)
THEOREM GuestsAreOnTheMesh == Spec => []RunningOnMesh
<1>1. IInv => RunningOnMesh
  <2> SUFFICES ASSUME IInv, pc = "up", Meshed PROVE tap = "bridged" /\ OnMesh(run)
      BY DEF RunningOnMesh
  <2>1. tap = "bridged"
      BY DEF IInv, TapPlaced
  <2>2. agent = "up" /\ setup = 6
      BY DEF IInv, TapHeld, SetUp, Meshed
  <2>3. /\ link.vxlan = TRUE /\ link.mac = run /\ link.bridge = TRUE /\ link.joined = TRUE
        /\ link.up = {"vxlan", "bridge"}
        /\ link \in [vxlan : BOOLEAN, mac : 0 .. MaxRuns, bridge : BOOLEAN,
                     up : SUBSET {"vxlan", "bridge"}, joined : BOOLEAN]
      BY <2>2 DEF IInv, TypeOK, MeshTypeOK, SetUp
  <2>4. OnMesh(run)
      BY <2>3 DEF OnMesh
  <2> QED
      BY <2>1, <2>4
<1> QED
    BY <1>1, IInvHolds, PTL

(***************************************************************************)
(* An entry goes only when every wanted peer has its own (overlay.rs,      *)
(* reconcile: adds before deletes, and none after a failed add).           *)
(***************************************************************************)
THEOREM DeletesAreLast == Spec => DeletesComeLast
<1>1. IInv /\ [Next]_vars => [MeshWhole]_vars
  <2> SUFFICES ASSUME IInv, Next PROVE MeshWhole
      OBVIOUS
  <2>0. /\ TypeOK /\ EntriesAccounted /\ Reconciling
      BY DEF IInv
  <2>1. ASSUME NEW e \in todo.del, DeleteEntry(e) PROVE MeshWhole
    <3>1. ~Idle /\ e \notin want /\ todo.add = {}
        BY <2>0, <2>1 DEF Reconciling, Idle, Nothing, DeleteEntry
    <3> QED
        BY <2>0, <2>1, <3>1 DEF MeshWhole, DeleteEntry, EntriesAccounted, Reconciling
  <2>2. ASSUME ~ \E e \in todo.del : DeleteEntry(e) PROVE fdb \subseteq fdb'
    <3>1. CASE Register \/ RegisterUnanswered \/ Kill
        BY <3>1 DEF Register, RegisterUnanswered, Kill, mesh
    <3>2. CASE MeshStep
        BY <2>2, <3>2 DEF MeshStep, PeerBeats, Lapses, ServerRestarts, SetupNext, SetupFails,
           FetchPeers, AppendFails, AppendEntry, DeleteFails, mesh
    <3>3. CASE VmStep
      <4>1. UNCHANGED host
          BY <3>3 DEF VmStep, SpawnStep, Dispatch, Prepare, CreateTap, RaiseTap, BridgeTap,
             MoveTap, Undo, Launch, VmmServes, VmmRefuses, VmmEnds, OrphanEnds,
             WaitForSocket, StartVsockServer, PutVsock, Attach, LoadSnapshot,
             ListenerStops
      <4> QED
          BY <4>1 DEF host, mesh
    <3> QED
        BY <3>1, <3>2, <3>3 DEF Next
  <2> QED
      BY <2>1, <2>2 DEF MeshWhole
<1> QED
    BY <1>1, IInvHolds, PTL DEF Spec, DeletesComeLast
=============================================================================
