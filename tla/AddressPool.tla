---------------------------- MODULE AddressPool ----------------------------
(***************************************************************************)
(* What the control plane promises about addresses, without nodes, passes  *)
(* or reports: a task that has no address may get one that nobody has, and *)
(* keeps it until it gives it back.  An address never goes from a task to  *)
(* another, and a task never from an address to another, in one step; and  *)
(* no step touches the addresses of two tasks.                             *)
(***************************************************************************)
CONSTANTS Tasks, Addresses, None

VARIABLE lease  \* the address each task has, or None

Init == lease = [t \in Tasks |-> None]

Acquire(t) ==
    /\ lease[t] = None
    /\ lease'[t] \in Addresses \ { lease[u] : u \in Tasks }
    /\ lease' = [lease EXCEPT ![t] = lease'[t]]

GiveBack(t) ==
    /\ lease[t] # None
    /\ lease' = [lease EXCEPT ![t] = None]

Next == \E t \in Tasks : Acquire(t) \/ GiveBack(t)

Spec == Init /\ [][Next]_lease
=============================================================================
