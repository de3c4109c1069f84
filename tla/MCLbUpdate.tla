----------------------------- MODULE MCLbUpdate -----------------------------
(***************************************************************************)
(* Values for the constants of LbUpdate.                                   *)
(***************************************************************************)
EXTENDS LbUpdate, TLC

CONSTANTS n1, n2, n3, p1, p2

\* Ports 1 and 2 at node ports 1 to 3, health check node port 9.
Svc(ports, local, hcnp, quota) ==
  [ports |-> ports, local |-> local, hcnp |-> hcnp, quota |-> quota]

Cluster(ports)     == Svc(ports, FALSE, 0, 0)
Quota(ports, q)    == Svc(ports, FALSE, 0, q)
Local(ports, hcnp) == Svc(ports, TRUE, hcnp, 0)

\* A quota below the number of nodes, one that is negative, and no number.
MCQuotas == {0, 1, 2, -2, -1}

\* One port and two, other node ports, Local with and without a health check
\* node port, the other port alone, and every kind of quota.
MCServices ==
  {Cluster(1 :> 1), Quota(1 :> 2, -2), Cluster(2 :> 1), Quota(1 :> 1 @@ 2 :> 2, 2),
   Quota(1 :> 3 @@ 2 :> 1, 1), Local(1 :> 1 @@ 2 :> 2, 9), Local(1 :> 1, 0),
   Quota(1 :> 1, -1)}

\* Two ports that never change.
TwoPorts == {Cluster(1 :> 1 @@ 2 :> 2)}

\* A second port is added, and moved to another node port.
OverlapServices == {Cluster(1 :> 1), Cluster(1 :> 1 @@ 2 :> 2), Cluster(1 :> 1 @@ 2 :> 3)}

\* A pool whose name is not one the controller gives.
ForeignPools ==
  {[name |-> Unparsable, members |-> {}, hm |-> [type |-> "tcp", port |-> 1]]}

\* Processes and nodes are compared only for equality.
NodeSymmetry == Permutations(Nodes)
Symmetry == Permutations(Nodes) \cup Permutations(Procs)
=============================================================================
