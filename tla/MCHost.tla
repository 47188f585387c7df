------------------------------- MODULE MCHost -------------------------------
(***************************************************************************)
(* Instances of Host for TLC: a task with a network in a jail, with a      *)
(* network namespace as well, and on the mesh; and a task that boots from a*)
(* snapshot, with a network, and without one in a jail.                    *)
(***************************************************************************)
EXTENDS Host

Conf(networked, jailed, netns, vni, restored) ==
    [networked |-> networked, jailed |-> jailed, netns |-> netns, vni |-> vni,
     restored |-> restored]

MCConfs == { Conf(TRUE, TRUE, FALSE, FALSE, FALSE), Conf(TRUE, TRUE, TRUE, FALSE, FALSE),
             Conf(TRUE, FALSE, FALSE, TRUE, FALSE),
             Conf(TRUE, FALSE, FALSE, FALSE, TRUE), Conf(FALSE, TRUE, FALSE, FALSE, TRUE) }
=============================================================================
