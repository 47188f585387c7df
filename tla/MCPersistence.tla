--------------------------- MODULE MCPersistence ---------------------------
(***************************************************************************)
(* Instances of Persistence for TLC: tasks of one unit on nodes with room  *)
(* for two; task 2 may run on node 1 only.                                 *)
(***************************************************************************)
EXTENDS Persistence

Units(k) == [cpu |-> k, mem |-> k]

MCNeed == [t \in Tasks |-> Units(1)]
MCTotal == [n \in Nodes |-> Units(2)]
MCPinned == [t \in Tasks |-> IF t = 2 THEN 1 ELSE None]
MCService == [t \in Tasks |-> None]
=============================================================================
