----------------------------- MODULE MCCluster -----------------------------
(***************************************************************************)
(* Instances of Cluster for TLC.  Every task needs one unit; node 1 has    *)
(* room for two of them and node 2 for one.  Where task 2 is pinned it is  *)
(* to node 1.                                                              *)
(***************************************************************************)
EXTENDS Cluster

Units(k) == [cpu |-> k, mem |-> k]

MCNeed == [t \in Tasks |-> Units(1)]
MCTotal == [n \in Nodes |-> IF n = 1 THEN Units(2) ELSE Units(1)]
MCPinned == [t \in Tasks |-> None]
MCSecondPinned == [t \in Tasks |-> IF t = 2 THEN 1 ELSE None]
MCService == [t \in Tasks |-> "web"]
MCServices == {"web"}
=============================================================================
