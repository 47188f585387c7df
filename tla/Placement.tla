----------------------------- MODULE Placement -----------------------------
(***************************************************************************)
(* Resources and the choice of a node for a task (types.rs, scheduler.rs). *)
(* Quantities are small naturals: the code's u64 additions saturate and    *)
(* its products are taken in u128, so neither wraps.                       *)
(***************************************************************************)
EXTENDS Naturals

Resources == [cpu : Nat, mem : Nat]

NoResources == [cpu |-> 0, mem |-> 0]

\* saturating_add, below saturation
Plus(a, b) == [cpu |-> a.cpu + b.cpu, mem |-> a.mem + b.mem]

\* fits_in
FitsIn(need, total, used) ==
    /\ used.cpu + need.cpu =< total.cpu
    /\ used.mem + need.mem =< total.mem

\* A node with no cpu or no memory sorts as fully loaded
Usable(node) == node.total.cpu > 0 /\ node.total.mem > 0

(***************************************************************************)
(* cmp_load, as "strictly less loaded": cpu share first, then memory       *)
(* share, shares compared by cross-multiplication.                         *)
(***************************************************************************)
LessLoaded(a, b) ==
    \/ Usable(a) /\ ~Usable(b)
    \/ /\ Usable(a) /\ Usable(b)
       /\ LET acpu == a.used.cpu * b.total.cpu
              bcpu == b.used.cpu * a.total.cpu
          IN  \/ acpu < bcpu
              \/ acpu = bcpu /\ a.used.mem * b.total.mem < b.used.mem * a.total.mem

(***************************************************************************)
(* The order min_by uses: node n, with record a, comes before node m, with *)
(* record b.  Ties are broken by id.                                       *)
(***************************************************************************)
Ahead(n, a, m, b) == LessLoaded(a, b) \/ (~LessLoaded(b, a) /\ n < m)
=============================================================================
