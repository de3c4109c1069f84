------------------------------ MODULE LbRoutes ------------------------------
(***************************************************************************)
(* What a load balancer promises to the clients of a service, whoever      *)
(* updates it: a listener takes connections at one external port and leads *)
(* to one pool, which was made for that port.  Pools and listeners come    *)
(* and go; a listener never changes its port or its pool (rule 8 of        *)
(* UpdateLoadBalancer), a pool never changes its port, no two listeners    *)
(* share a port (rule 3), and a pool goes only when no listener leads to   *)
(* it (rule 1).  LbUpdate implements this specification.                   *)
(***************************************************************************)
EXTENDS Integers, Functions

CONSTANTS
  ListenerIds,  \* identifiers of listeners
  PoolIds,      \* identifiers of pools
  PortNumbers   \* external ports, and what stands for the port of other pools

VARIABLES
  serves,   \* the external port each pool was made for
  routes    \* the port of each listener and the pool it leads to

vars == <<serves, routes>>

Init ==
  /\ DOMAIN serves \subseteq PoolIds
  /\ serves \in [DOMAIN serves -> PortNumbers]
  /\ DOMAIN routes \subseteq ListenerIds
  /\ routes \in [DOMAIN routes -> [port : PortNumbers, pool : PoolIds]]
  /\ \A l \in DOMAIN routes :
       /\ routes[l].pool \in DOMAIN serves
       /\ serves[routes[l].pool] = routes[l].port
       /\ \A k \in DOMAIN routes : routes[k].port = routes[l].port => k = l

With(f, x, v) == [y \in DOMAIN f \cup {x} |-> IF y = x THEN v ELSE f[y]]

AddPool(i, p) ==
  /\ i \notin DOMAIN serves
  /\ serves' = With(serves, i, p)
  /\ UNCHANGED routes

RemovePool(i) ==
  /\ i \in DOMAIN serves
  /\ \A l \in DOMAIN routes : routes[l].pool # i
  /\ serves' = Restrict(serves, DOMAIN serves \ {i})
  /\ UNCHANGED routes

OpenListener(l, i) ==
  /\ l \notin DOMAIN routes
  /\ i \in DOMAIN serves
  /\ \A k \in DOMAIN routes : routes[k].port # serves[i]
  /\ routes' = With(routes, l, [port |-> serves[i], pool |-> i])
  /\ UNCHANGED serves

CloseListener(l) ==
  /\ l \in DOMAIN routes
  /\ routes' = Restrict(routes, DOMAIN routes \ {l})
  /\ UNCHANGED serves

Next ==
  \/ \E i \in PoolIds : RemovePool(i) \/ \E p \in PortNumbers : AddPool(i, p)
  \/ \E l \in ListenerIds : CloseListener(l) \/ \E i \in PoolIds : OpenListener(l, i)

Spec == Init /\ [][Next]_vars
=============================================================================
