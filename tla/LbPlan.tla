------------------------------- MODULE LbPlan -------------------------------
(***************************************************************************)
(* The planning half of CloudVpc.UpdateLoadBalancer (vpc_lbaas.go): the    *)
(* updates that one load balancer needs, computed from the listeners and   *)
(* pools read from the VPC API, a Kubernetes service and a list of nodes.  *)
(*                                                                         *)
(* The code keeps the updates in a list of strings and appends to it in    *)
(* seven passes.  Here the list is a set of update records together with   *)
(* the order Precedes in which the code appended them.  Listeners and      *)
(* pools are functions from their identifiers; the identifiers are         *)
(* opaque, and their order stands for the order in which the VPC API lists *)
(* the objects.  Every port is a TCP port: validateService refuses others. *)
(***************************************************************************)
EXTENDS Integers, FiniteSets, FiniteSetsExt

CONSTANTS
  PoolIds,      \* identifiers the VPC API can give to a pool
  ListenerIds,  \* identifiers the VPC API can give to a listener
  Ports,        \* external ports of a service
  NodePorts,    \* node ports Kubernetes can allocate
  HealthPorts,  \* health check node ports Kubernetes can allocate
  Quotas,       \* pool member quotas that services ask for
  Nodes         \* nodes, each identified by its internal IP address

ASSUME IdAssumption ==
  /\ PoolIds \subseteq Nat \ {0}
  /\ ListenerIds \subseteq Nat \ {0}

ASSUME PortAssumption ==
  /\ Ports \subseteq Nat \ {0}
  /\ NodePorts \subseteq Nat \ {0}
  /\ HealthPorts \subseteq Nat \ {0}

ASSUME QuotaAssumption == Quotas \subseteq Int /\ 0 \in Quotas

-----------------------------------------------------------------------------
(* Data read from Kubernetes and from the VPC API. *)

\* f is a function from some subset of S to T.
IsPartialFcn(f, S, T) == DOMAIN f \subseteq S /\ f \in [DOMAIN f -> T]

\* A pool name <protocol>-<port>-<nodePort>, and one that does not parse.
PoolName   == [port : Ports, nodePort : NodePorts]
Unparsable == [port |-> -1, nodePort |-> -1]

Member        == [node : Nodes, port : NodePorts]
HealthMonitor == [type : {"tcp", "http"}, port : NodePorts \cup HealthPorts]

Pool     == [name : PoolName \cup {Unparsable}, members : SUBSET Member,
             hm : HealthMonitor]
Listener == [port : Ports, pool : PoolIds]

\* ports maps each external port to its node port; local says that
\* externalTrafficPolicy is Local; hcnp is healthCheckNodePort, 0 if unset;
\* quota is the pool member quota, 0 if disabled, BadQuota if the annotation
\* is not a number.
BadQuota == -1

IsService(s) ==
  /\ s = [ports |-> s.ports, local |-> s.local, hcnp |-> s.hcnp, quota |-> s.quota]
  /\ s.quota \in Quotas
  /\ IsPartialFcn(s.ports, Ports, NodePorts)
  /\ s.local \in BOOLEAN
  /\ s.hcnp \in HealthPorts \cup {0}

genLoadBalancerPoolName(svc, p) == [port |-> p, nodePort |-> svc.ports[p]]

getServiceHealthCheckNodePort(svc) == IF svc.local THEN svc.hcnp ELSE 0

\* Mutant: an unset health check node port passes the test.
MutantHealthMonitor(nodePort, hc) ==
  IF hc >= 0 THEN [type |-> "http", port |-> hc]
             ELSE [type |-> "tcp", port |-> nodePort]

genLoadBalancerHealthMonitor(nodePort, hc) ==
  IF hc > 0 THEN [type |-> "http", port |-> hc]
            ELSE [type |-> "tcp", port |-> nodePort]

genLoadBalancerMembers(nodePort, nodeList) ==
  {[node |-> n, port |-> nodePort] : n \in nodeList}

\* externalTrafficPolicy Local and a quota of 0 or less do not limit anything.
Limited(desired, svc) ==
  ~svc.local /\ svc.quota > 0 /\ Cardinality(desired) > svc.quota

\* Mutant: the quota does not prefer the nodes already in the pool.
MutantQuota(desired, existing, svc) ==
  IF Limited(desired, svc) THEN kSubset(svc.quota, desired) ELSE {desired}

\* The node lists the quota can leave, none when the quota is no number.  Nodes
\* are listed in no particular order, hence every choice that prefers the nodes
\* already in the pool.
filterNodesByServiceMemberQuota(desired, existing, svc) ==
  IF ~svc.local /\ svc.quota = BadQuota THEN {}
  ELSE IF Limited(desired, svc)
       THEN {S \in kSubset(svc.quota, desired) :
               S \subseteq existing \/ desired \cap existing \subseteq S}
       ELSE {desired}

-----------------------------------------------------------------------------
(* Updates.  step is the pass of UpdateLoadBalancer that appends the update; *)
(* id names an existing object, name a pool name, member a pool member.      *)

MemberOps == {"CREATE-POOL-MEMBER", "DELETE-POOL-MEMBER"}
Ops == MemberOps \cup {"CREATE-LISTENER", "CREATE-POOL", "DELETE-LISTENER",
                       "DELETE-POOL", "REPLACE-POOL-MEMBERS", "UPDATE-POOL"}

NoId     == 0
NoName   == [port |-> 0, nodePort |-> 0]
NoMember == [node |-> "none", port |-> 0]

NewUpdate(op, step, id, name, member) ==
  [op |-> op, step |-> step, id |-> id, name |-> name, member |-> member]

\* Mutant: pools are deleted before the listeners that use them.
MutantPrecedes(u, v) ==
  LET step(x) == CASE x.step = 1 -> 2 [] x.step = 2 -> 1 [] OTHER -> x.step
      key(x) == IF x.step = 6 THEN x.name.port ELSE x.id
      second(x) == x.op \in {"REPLACE-POOL-MEMBERS", "CREATE-LISTENER"}
  IN  \/ step(u) < step(v)
      \/ step(u) = step(v) /\ key(u) < key(v)
      \/ step(u) = step(v) /\ key(u) = key(v) /\ ~second(u) /\ second(v)

\* Mutant: the members of a pool are replaced before it is renamed.
MutantReplaceFirst(u, v) ==
  LET key(x) == IF x.step = 6 THEN x.name.port ELSE x.id
      second(x) == x.op \in {"UPDATE-POOL", "CREATE-LISTENER"}
  IN  \/ u.step < v.step
      \/ u.step = v.step /\ key(u) < key(v)
      \/ u.step = v.step /\ key(u) = key(v) /\ ~second(u) /\ second(v)

\* Order of the list of updates: by pass, then by the object the pass loops
\* over; a pass appends UPDATE-POOL and CREATE-POOL before the other update
\* of the same pool or port.
Precedes(u, v) ==
  LET key(x) == IF x.step = 6 THEN x.name.port ELSE x.id
      second(x) == x.op \in {"REPLACE-POOL-MEMBERS", "CREATE-LISTENER"}
  IN  \/ u.step < v.step
      \/ u.step = v.step /\ key(u) < key(v)
      \/ u.step = v.step /\ key(u) = key(v) /\ ~second(u) /\ second(v)

-----------------------------------------------------------------------------
(* The passes. *)

checkListenerForExtPortDeletedFromService(listeners, svc) ==
  {NewUpdate("DELETE-LISTENER", 1, l, NoName, NoMember) :
     l \in {k \in DOMAIN listeners : listeners[k].port \notin DOMAIN svc.ports}}

checkPoolForExtPortDeletedFromService(pools, svc) ==
  {NewUpdate("DELETE-POOL", 2, i, pools[i].name, NoMember) :
     i \in {j \in DOMAIN pools : pools[j].name.port \notin DOMAIN svc.ports}}

\* Mutant: a pool counts for a port only under the full name of the service.
MutantKeptPools(pools, svc) ==
  {i \in DOMAIN pools :
     /\ pools[i].name.port \in DOMAIN svc.ports
     /\ pools[i].name = genLoadBalancerPoolName(svc, pools[i].name.port)}

\* Pools that were not renamed POOL-TO-BE-DELETED by the pass above.
KeptPools(pools, svc) ==
  {i \in DOMAIN pools : pools[i].name.port \in DOMAIN svc.ports}

\* Kept pools whose node port is still the node port of the service.
SamePortPools(pools, svc) ==
  {i \in KeptPools(pools, svc) :
     pools[i].name.nodePort = svc.ports[pools[i].name.port]}

\* Mutant: the port of a member is not looked at.
MutantStalePort(pool, nodeList) == {m \in pool.members : m.node \notin nodeList}

\* Mutant: the port of a member is compared with the external port.
MutantExternalPort(pool, nodeList) ==
  {m \in pool.members : m.node \notin nodeList \/ m.port # pool.name.port}

StaleMembers(pool, nodeList) ==
  {m \in pool.members : m.node \notin nodeList \/ m.port # pool.name.nodePort}

MissingNodes(pool, nodeList) ==
  {n \in nodeList : [node |-> n, port |-> pool.name.nodePort] \notin pool.members}

checkPoolForNodesToDelete(pools, svc, nodeList) ==
  UNION {{NewUpdate("DELETE-POOL-MEMBER", 3, i, pools[i].name, m) :
            m \in StaleMembers(pools[i], nodeList)} :
         i \in SamePortPools(pools, svc)}

checkPoolForNodesToAdd(pools, svc, nodeList) ==
  UNION {{NewUpdate("CREATE-POOL-MEMBER", 5, i, pools[i].name,
                    [node |-> n, port |-> pools[i].name.nodePort]) :
            n \in MissingNodes(pools[i], nodeList)} :
         i \in SamePortPools(pools, svc)}

\* The cases of the switch in checkPoolForServiceChanges.
NameChanged(pool, svc) ==
  pool.name # genLoadBalancerPoolName(svc, pool.name.port)

HealthMonitorChanged(pool, svc) ==
  \/ svc.local /\ svc.hcnp > 0 /\ pool.hm # [type |-> "http", port |-> svc.hcnp]
  \/ ~svc.local /\ pool.hm # [type |-> "tcp", port |-> svc.ports[pool.name.port]]

\* Mutant: a pool is renamed for its new node port, its members stay.
MutantNoReplace(pools, svc) ==
  {NewUpdate("UPDATE-POOL", 4, i, genLoadBalancerPoolName(svc, pools[i].name.port), NoMember) :
     i \in {j \in KeptPools(pools, svc) : \/ NameChanged(pools[j], svc)
                                           \/ HealthMonitorChanged(pools[j], svc)}}

\* Mutant: the ports that are not the pool's are not skipped.
MutantAnyPort(pools, svc) ==
  UNION {{NewUpdate("UPDATE-POOL", 4, i, genLoadBalancerPoolName(svc, p), NoMember) :
            p \in {q \in DOMAIN svc.ports : pools[i].name # genLoadBalancerPoolName(svc, q)}} :
         i \in KeptPools(pools, svc)}

checkPoolForServiceChanges(pools, svc) ==
  LET name(i) == genLoadBalancerPoolName(svc, pools[i].name.port)
      kept    == KeptPools(pools, svc)
  IN  {NewUpdate("UPDATE-POOL", 4, i, name(i), NoMember) :
         i \in {j \in kept : \/ NameChanged(pools[j], svc)
                             \/ HealthMonitorChanged(pools[j], svc)}}
      \cup
      {NewUpdate("REPLACE-POOL-MEMBERS", 4, i, name(i), NoMember) :
         i \in {j \in kept : NameChanged(pools[j], svc)}}

checkPoolsForExtPortAddedToService(pools, svc) ==
  {NewUpdate("CREATE-POOL", 6, NoId, genLoadBalancerPoolName(svc, p), NoMember) :
     p \in {q \in DOMAIN svc.ports :
              \A i \in KeptPools(pools, svc) : pools[i].name.port # q}}

checkListenersForExtPortAddedToService(listeners, svc) ==
  {NewUpdate("CREATE-LISTENER", 6, NoId, genLoadBalancerPoolName(svc, p), NoMember) :
     p \in {q \in DOMAIN svc.ports :
              \A l \in DOMAIN listeners : listeners[l].port # q}}

-----------------------------------------------------------------------------
MemberUpdates(plan, i) == {u \in plan : u.op \in MemberOps /\ u.id = i}

\* Mutant: the updates of the members are processed one by one.
MutantNoMerge(plan, pools) == plan

\* Mutant: the replacement is named for the first pool of the list.
MutantFirstName(plan, pools) ==
  LET several == {i \in DOMAIN pools :
                    \E u, v \in MemberUpdates(plan, i) : u # v}
  IN  {u \in plan : ~(u.op \in MemberOps /\ u.id \in several)}
      \cup
      {NewUpdate("REPLACE-POOL-MEMBERS", 3, i, pools[Min(DOMAIN pools)].name, NoMember) :
         i \in several}

\* Several updates of the members of a pool become one REPLACE-POOL-MEMBERS
\* in the place of the first of them.
checkForMultiplePoolMemberUpdates(plan, pools) ==
  LET several == {i \in DOMAIN pools :
                    \E u, v \in MemberUpdates(plan, i) : u # v}
      first(i) == IF \E u \in MemberUpdates(plan, i) : u.op = "DELETE-POOL-MEMBER"
                  THEN 3 ELSE 5
  IN  {u \in plan : ~(u.op \in MemberOps /\ u.id \in several)}
      \cup
      {NewUpdate("REPLACE-POOL-MEMBERS", first(i), i, pools[i].name, NoMember) :
         i \in several}

\* Mutant: a name that does not parse is no error.
MutantNamesParse(pools) == TRUE

\* Whether every pool name parses; the passes fail on the first that does not.
NamesParse(pools) == \A i \in DOMAIN pools : pools[i].name # Unparsable

\* The updates UpdateLoadBalancer will process.
UpdatesRequired(listeners, pools, svc, nodeList) ==
  checkForMultiplePoolMemberUpdates(
    UNION {checkListenerForExtPortDeletedFromService(listeners, svc),
           checkPoolForExtPortDeletedFromService(pools, svc),
           checkPoolForNodesToDelete(pools, svc, nodeList),
           checkPoolForServiceChanges(pools, svc),
           checkPoolForNodesToAdd(pools, svc, nodeList),
           checkPoolsForExtPortAddedToService(pools, svc),
           checkListenersForExtPortAddedToService(listeners, svc)},
    pools)
=============================================================================
