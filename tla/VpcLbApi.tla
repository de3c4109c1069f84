------------------------------ MODULE VpcLbApi ------------------------------
(***************************************************************************)
(* One VPC load balancer as its API shows it, and what each request that   *)
(* vpc_sdk_gen2.go builds does to it.  The service itself is not part of   *)
(* this repository: what it accepts (Accepts) is taken from the comments   *)
(* of its SDK and from the rules UpdateLoadBalancer states for its own     *)
(* order of updates.  Every accepted request leaves the load balancer busy *)
(* (not online/active) until the service has carried it out.               *)
(***************************************************************************)
EXTENDS LbPlan, Functions

IsLoadBalancer(b) ==
  /\ b = [listeners |-> b.listeners, pools |-> b.pools, ready |-> b.ready]
  /\ IsPartialFcn(b.listeners, ListenerIds, Listener)
  /\ IsPartialFcn(b.pools, PoolIds, Pool)
  /\ b.ready \in BOOLEAN

Extend(f, x, v) == [y \in DOMAIN f \cup {x} |-> IF y = x THEN v ELSE f[y]]

WithListeners(lb, ls) == [lb EXCEPT !.listeners = ls, !.ready = FALSE]
WithPools(lb, ps)     == [lb EXCEPT !.pools = ps, !.ready = FALSE]

-----------------------------------------------------------------------------
(* What the service accepts. *)

NameUnused(lb, name) == \A i \in DOMAIN lb.pools : lb.pools[i].name # name
PoolUnused(lb, i)    == \A l \in DOMAIN lb.listeners : lb.listeners[l].pool # i
PortUnused(lb, p)    == \A l \in DOMAIN lb.listeners : lb.listeners[l].port # p

\* u is the update, i the pool a new listener is to use.
Accepts(lb, u, i) ==
  /\ lb.ready
  /\ \/ u.op = "DELETE-LISTENER" /\ u.id \in DOMAIN lb.listeners
     \/ u.op = "DELETE-POOL" /\ u.id \in DOMAIN lb.pools /\ PoolUnused(lb, u.id)
     \/ /\ u.op = "DELETE-POOL-MEMBER"
        /\ u.id \in DOMAIN lb.pools
        /\ u.member \in lb.pools[u.id].members
     \/ /\ u.op = "CREATE-POOL-MEMBER"
        /\ u.id \in DOMAIN lb.pools
        /\ u.member \notin lb.pools[u.id].members
     \/ u.op = "REPLACE-POOL-MEMBERS" /\ u.id \in DOMAIN lb.pools
     \/ /\ u.op = "UPDATE-POOL"
        /\ u.id \in DOMAIN lb.pools
        /\ lb.pools[u.id].name # u.name => NameUnused(lb, u.name)
     \/ u.op = "CREATE-POOL" /\ NameUnused(lb, u.name)
     \/ /\ u.op = "CREATE-LISTENER"
        /\ i \in DOMAIN lb.pools
        /\ PortUnused(lb, u.name.port)

-----------------------------------------------------------------------------
(* Requests. *)

CreateLoadBalancerListener(lb, l, name, i) ==
  WithListeners(lb, Extend(lb.listeners, l, [port |-> name.port, pool |-> i]))

NewPool(name, nodeList, hc) ==
  [name    |-> name,
   members |-> genLoadBalancerMembers(name.nodePort, nodeList),
   hm      |-> genLoadBalancerHealthMonitor(name.nodePort, hc)]

CreateLoadBalancerPool(lb, i, name, nodeList, hc) ==
  WithPools(lb, Extend(lb.pools, i, NewPool(name, nodeList, hc)))

CreateLoadBalancerPoolMember(lb, i, member) ==
  WithPools(lb, [lb.pools EXCEPT ![i].members = @ \cup {member}])

DeleteLoadBalancerListener(lb, l) ==
  WithListeners(lb, Restrict(lb.listeners, DOMAIN lb.listeners \ {l}))

DeleteLoadBalancerPool(lb, i) ==
  WithPools(lb, Restrict(lb.pools, DOMAIN lb.pools \ {i}))

DeleteLoadBalancerPoolMember(lb, i, member) ==
  WithPools(lb, [lb.pools EXCEPT ![i].members = @ \ {member}])

ReplaceLoadBalancerPoolMembers(lb, i, name, nodeList) ==
  WithPools(lb, [lb.pools EXCEPT
                   ![i].members = genLoadBalancerMembers(name.nodePort, nodeList)])

UpdateLoadBalancerPool(lb, i, name, hc) ==
  WithPools(lb, [lb.pools EXCEPT
                   ![i].name = name,
                   ![i].hm = genLoadBalancerHealthMonitor(name.nodePort, hc)])

\* A load balancer created for a service: the k-th port of the service has
\* the k-th pool and listener, id(p) being the identifier of both.
CreateLoadBalancer(svc, nodeList, id) ==
  LET hc    == getServiceHealthCheckNodePort(svc)
      ports == DOMAIN svc.ports
      port(i) == CHOOSE p \in ports : id[p] = i
      name(i) == genLoadBalancerPoolName(svc, port(i))
      ids     == {id[p] : p \in ports}
  IN  [listeners |-> [l \in ids |-> [port |-> port(l), pool |-> l]],
       pools     |-> [i \in ids |-> NewPool(name(i), nodeList, hc)],
       ready     |-> FALSE]
=============================================================================
