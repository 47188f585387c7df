-------------------------------- MODULE Ipam --------------------------------
(***************************************************************************)
(* Address management (bigtop-server/src/ipam.rs).  The server owns one    *)
(* /16; a node owns one third octet of it, a task one address under its    *)
(* node's octet.  An address <<z, h>> is the pair of the last two octets:  *)
(* the first two are the same for every address.                           *)
(*                                                                         *)
(* An ipam is a record [subnet, ip], two partial maps that are total here: *)
(* None stands for "no entry".                                             *)
(***************************************************************************)
EXTENDS Naturals

CONSTANTS
    Nodes,     \* node ids, ordered like the id strings they stand for
    Tasks,     \* task ids, ordered the same way
    MaxOctet,  \* last third octet: 255 in the code
    LastHost,  \* last host octet handed out: 254 in the code
    None       \* an absent entry

ASSUME IdsAssumption == Nodes \subseteq Nat /\ Tasks \subseteq Nat
ASSUME OctetAssumption == MaxOctet \in Nat /\ LastHost \in Nat
ASSUME NoneAssumption == None \notin Nat /\ None \notin Nat \X Nat

FirstHost == 2
Octets == 0 .. MaxOctet
HostOctets == FirstHost .. LastHost
Addresses == Octets \X HostOctets

Ipams == [ subnet : [Nodes -> Octets \cup {None}],
           ip     : [Tasks -> Addresses \cup {None}] ]

EmptyIpam == [ subnet |-> [n \in Nodes |-> None], ip |-> [t \in Tasks |-> None] ]

\* (first..=last).find(..): the least member of a set of octets, if any
Least(S) == CHOOSE x \in S : \A y \in S : x =< y

FreeOctets(ipam) == Octets \ { ipam.subnet[n] : n \in Nodes }

(***************************************************************************)
(* subnet_octet: the octet a node has, or else the least free one, which   *)
(* it then has for ever: nothing removes a node's entry.  The ipam is left *)
(* as it is when no octet is free.                                         *)
(***************************************************************************)
SubnetOctet(ipam, n) ==
    IF ipam.subnet[n] = None /\ FreeOctets(ipam) # {}
    THEN [ipam EXCEPT !.subnet[n] = Least(FreeOctets(ipam))]
    ELSE ipam

\* Mutant: the addresses of other tasks count as free
AnyHost(ipam, z) == HostOctets

\* The host octets of /24 z that no task holds
FreeHosts(ipam, z) == { h \in HostOctets : \A t \in Tasks : ipam.ip[t] # <<z, h>> }

(***************************************************************************)
(* allocate: the ipam after the call.  The result of the call is the entry *)
(* ip[t] of that ipam, None when the address space is exhausted.  A task   *)
(* that holds an address keeps it, whatever the node; an octet taken for   *)
(* the node stays taken when its /24 turns out to be full.                 *)
(***************************************************************************)
Allocate(ipam, n, t) ==
    IF ipam.ip[t] # None THEN ipam
    ELSE LET with == SubnetOctet(ipam, n)
             z    == with.subnet[n]
         IN  IF z = None \/ FreeHosts(with, z) = {} THEN with
             ELSE [with EXCEPT !.ip[t] = <<z, Least(FreeHosts(with, z))>>]

\* release: idempotent
Release(ipam, t) == [ipam EXCEPT !.ip[t] = None]

\* gateway_for: x.y.z.1, if the node has a /24
GatewayFor(ipam, n) == IF ipam.subnet[n] = None THEN None ELSE <<ipam.subnet[n], 1>>

-----------------------------------------------------------------------------
(* No two tasks have the same address, and no two nodes the same octet *)

HeldDistinct(ipam) ==
    \A t, u \in Tasks : t # u /\ ipam.ip[t] # None => ipam.ip[t] # ipam.ip[u]

OctetsDistinct(ipam) ==
    \A n, m \in Nodes : n # m /\ ipam.subnet[n] # None => ipam.subnet[n] # ipam.subnet[m]
=============================================================================
