--------------------------- MODULE LbRoutesProofs ---------------------------
(***************************************************************************)
(* For every number of overlapping runs LbUpdate implements LbRoutes, and  *)
(* no run touches a pool whose name the controller cannot parse.           *)
(***************************************************************************)
EXTENDS LbUpdateProofs

\* The port of each pool, which is what LbRoutes sees of the pools.
Serves(b) == [i \in DOMAIN b.pools |-> b.pools[i].name.port]

\* A step of LbRoutes, or none.
RoutesStep == [Routes!Next]_(Routes!vars)

-----------------------------------------------------------------------------
(* Initial states. *)

LEMMA CreatedRoutes ==
  ASSUME NEW s \in Service, NEW nodeList \in SUBSET Nodes,
         NEW id \in Injection(DOMAIN s.ports, PoolIds \cap ListenerIds)
  PROVE  LET ls == CreateLoadBalancer(s, nodeList, id).listeners
         IN  \A k, l \in DOMAIN ls : ls[k].port = ls[l].port => k = l
<1> DEFINE ports   == DOMAIN s.ports
           port(i) == CHOOSE p \in ports : id[p] = i
           ids     == {id[p] : p \in ports}
           ls      == [l \in ids |-> [port |-> port(l), pool |-> l]]
<1>1. CreateLoadBalancer(s, nodeList, id).listeners = ls
  BY DEF CreateLoadBalancer
<1>2. \A l \in ids : id[port(l)] = l
  OBVIOUS
<1>3. \A k, l \in ids : ls[k].port = ls[l].port => k = l
  BY <1>2
<1> HIDE DEF ls
<1>4. DOMAIN ls = ids
  BY DEF ls
<1> QED
  BY <1>1, <1>3, <1>4

LEMMA InitRoutes == Init => Routes!Init
<1> SUFFICES ASSUME Init PROVE Routes!Init
  OBVIOUS
<1>1. IInv
  BY IInvInit
<1>2. /\ DOMAIN lb.pools \subseteq PoolIds /\ lb.pools \in [DOMAIN lb.pools -> Pool]
      /\ DOMAIN lb.listeners \subseteq ListenerIds
      /\ lb.listeners \in [DOMAIN lb.listeners -> Listener]
  BY <1>1, PartialFcnDef DEF IInv, LoadBalancer
<1>3. \A i \in DOMAIN lb.pools : lb.pools[i].name.port \in Ports \cup {Unparsable.port}
  BY <1>2 DEF Pool, PoolName
<1>4. lb.listeners \in [DOMAIN lb.listeners ->
                          [port : Ports \cup {Unparsable.port}, pool : PoolIds]]
  BY <1>2 DEF Listener
<1>5. \A k, l \in DOMAIN lb.listeners : lb.listeners[k].port = lb.listeners[l].port => k = l
  <2>1. PICK nodeList \in filterNodesByServiceMemberQuota(getNodeIDs(nodes), {}, svc),
             id \in Injection(DOMAIN svc.ports, PoolIds \cap ListenerIds) :
               lb = CreateLoadBalancer(svc, nodeList, id)
    BY DEF Init
  <2>2. nodeList \in SUBSET Nodes
    BY DEF Init, filterNodesByServiceMemberQuota, Limited, kSubset, getNodeIDs
  <2>3. svc \in Service
    BY UpdateAssumption, ServiceType DEF UpdateAssumption, Init
  <2> QED
    BY <2>1, <2>2, <2>3, CreatedRoutes
<1>6. \A l \in DOMAIN lb.listeners :
        /\ lb.listeners[l].pool \in DOMAIN lb.pools
        /\ lb.pools[lb.listeners[l].pool].name.port = lb.listeners[l].port
  BY <1>1 DEF IInv, ListenerPoolMatch
<1> QED
  BY <1>2, <1>3, <1>4, <1>5, <1>6 DEF Routes!Init

-----------------------------------------------------------------------------
(* Steps. *)

\* What LbRoutes sees stays as it is.
LEMMA SameRoutes ==
  ASSUME lb'.listeners = lb.listeners,
         DOMAIN lb'.pools = DOMAIN lb.pools,
         \A i \in DOMAIN lb.pools : lb'.pools[i].name.port = lb.pools[i].name.port
  PROVE  RoutesStep
  BY DEF RoutesStep, Routes!vars

LEMMA UnchangedRoutes ==
  ASSUME lb' = lb PROVE RoutesStep
  BY SameRoutes

LEMMA AddPoolRoutes ==
  ASSUME IInv, NEW i \in PoolIds, NEW pool \in Pool, FreshPool(i),
         lb' = WithPools(lb, Extend(lb.pools, i, pool))
  PROVE  RoutesStep
<1>1. lb \in LoadBalancer
  BY DEF IInv
<1>2. /\ lb'.listeners = lb.listeners
      /\ lb'.pools = Extend(lb.pools, i, pool)
  BY <1>1 DEF WithPools, LoadBalancer
<1>3. i \notin DOMAIN lb.pools
  BY DEF FreshPool
<1>4. pool.name.port \in Ports \cup {Unparsable.port}
  BY DEF Pool, PoolName
<1>5. Routes!AddPool(i, pool.name.port)
  BY <1>2, <1>3 DEF Routes!AddPool, Routes!With, Extend
<1> QED
  BY <1>4, <1>5 DEF RoutesStep, Routes!Next

LEMMA DeletePoolRoutes ==
  ASSUME IInv, NEW p \in Procs, NEW u \in job[p].plan, deleteLoadBalancerPool(p, u)
  PROVE  RoutesStep
<1>1. lb \in LoadBalancer /\ DOMAIN lb.pools \subseteq PoolIds
  BY UpdateFacts DEF IInv
<1>2. u.id \in DOMAIN lb.pools /\ PoolUnused(lb, u.id)
  BY DEF deleteLoadBalancerPool, Processed, Accepts
<1>3. /\ lb'.listeners = lb.listeners
      /\ lb'.pools = Restrict(lb.pools, DOMAIN lb.pools \ {u.id})
  BY <1>1 DEF deleteLoadBalancerPool, DeleteLoadBalancerPool, WithPools, LoadBalancer
<1>4. Routes!RemovePool(u.id)
  BY <1>2, <1>3 DEF Routes!RemovePool, Routes!Restrict, Restrict, PoolUnused
<1> QED
  BY <1>1, <1>2, <1>4 DEF RoutesStep, Routes!Next

LEMMA DeleteListenerRoutes ==
  ASSUME IInv, NEW p \in Procs, NEW u \in job[p].plan, deleteLoadBalancerListener(p, u)
  PROVE  RoutesStep
<1>1. lb \in LoadBalancer /\ DOMAIN lb.listeners \subseteq ListenerIds
  BY PartialFcnDef DEF IInv, LoadBalancer
<1>2. u.id \in DOMAIN lb.listeners
  BY DEF deleteLoadBalancerListener, Processed, Accepts
<1>3. /\ lb'.pools = lb.pools
      /\ lb'.listeners = Restrict(lb.listeners, DOMAIN lb.listeners \ {u.id})
  BY <1>1 DEF deleteLoadBalancerListener, DeleteLoadBalancerListener, WithListeners,
              LoadBalancer
<1>4. Routes!CloseListener(u.id)
  BY <1>2, <1>3 DEF Routes!CloseListener, Routes!Restrict, Restrict
<1> QED
  BY <1>1, <1>2, <1>4 DEF RoutesStep, Routes!Next

\* The pool a new listener leads to was made for its port: what the run knows of
\* it may be old but not wrong about the port.
LEMMA CreateListenerRoutes ==
  ASSUME IInv, NEW p \in Procs, NEW u \in job[p].plan, createLoadBalancerListener(p, u)
  PROVE  RoutesStep
<1> DEFINE i == ListenerPool(p, u)
<1>1. PICK l \in ListenerIds :
        FreshListener(l) /\ lb' = CreateLoadBalancerListener(lb, l, u.name, i)
  BY DEF createLoadBalancerListener
<1>2. /\ u.op = "CREATE-LISTENER" /\ i \in DOMAIN lb.pools
      /\ PortUnused(lb, u.name.port)
  BY DEF createLoadBalancerListener, Processed, Accepts
<1>3. i \in DOMAIN job[p].view /\ job[p].view[i] = u.name
  <2>1. i # NoId
    BY <1>2, UpdateFacts, IdAssumption DEF IdAssumption, NoId
  <2> QED
    BY <2>1 DEF ListenerPool
<1> HIDE DEF i
<1>4. lb.pools[i].name.port = u.name.port
  BY <1>2, <1>3 DEF IInv, JobOK, Knows
<1>5. lb \in LoadBalancer /\ i \in PoolIds
  BY <1>2, UpdateFacts DEF IInv
<1>6. /\ lb'.pools = lb.pools
      /\ lb'.listeners = Extend(lb.listeners, l, [port |-> u.name.port, pool |-> i])
  BY <1>1, <1>5 DEF CreateLoadBalancerListener, WithListeners, LoadBalancer
<1>7. l \notin DOMAIN lb.listeners
  BY <1>1 DEF FreshListener
<1>8. Routes!OpenListener(l, i)
  BY <1>2, <1>4, <1>6, <1>7 DEF Routes!OpenListener, Routes!With, Extend, PortUnused
<1> QED
  BY <1>5, <1>8 DEF RoutesStep, Routes!Next

\* Updates of members and of the name of a pool are none of LbRoutes' business.
LEMMA ChangePoolRoutes ==
  ASSUME IInv, NEW p \in Procs, NEW u \in job[p].plan,
         \/ deleteLoadBalancerPoolMember(p, u)
         \/ createLoadBalancerPoolMember(p, u)
         \/ replaceLoadBalancerPoolMembers(p, u)
         \/ updateLoadBalancerPool(p, u)
  PROVE  RoutesStep
<1>1. u.id \in DOMAIN lb.pools /\ lb \in LoadBalancer
  BY DEF deleteLoadBalancerPoolMember, createLoadBalancerPoolMember,
         replaceLoadBalancerPoolMembers, updateLoadBalancerPool, Processed, Accepts, IInv
<1>2. lb.pools[u.id] \in Pool /\ \A i \in DOMAIN lb.pools : lb.pools[i] \in Pool
  BY <1>1, UpdateFacts
<1>3. CASE deleteLoadBalancerPoolMember(p, u)
  BY <1>1, <1>2, <1>3, SameRoutes
  DEF deleteLoadBalancerPoolMember, DeleteLoadBalancerPoolMember, WithPools, LoadBalancer, Pool
<1>4. CASE createLoadBalancerPoolMember(p, u)
  BY <1>1, <1>2, <1>4, SameRoutes
  DEF createLoadBalancerPoolMember, CreateLoadBalancerPoolMember, WithPools, LoadBalancer, Pool
<1>5. CASE replaceLoadBalancerPoolMembers(p, u)
  BY <1>1, <1>2, <1>5, SameRoutes
  DEF replaceLoadBalancerPoolMembers, ReplaceLoadBalancerPoolMembers, WithPools, LoadBalancer, Pool
<1>6. CASE updateLoadBalancerPool(p, u)
  <2>1. u.name.port = lb.pools[u.id].name.port
    BY <1>1, <1>6, UpdateFacts DEF updateLoadBalancerPool, PoolOps
  <2> QED
    BY <1>1, <1>2, <1>6, <2>1, SameRoutes
    DEF updateLoadBalancerPool, UpdateLoadBalancerPool, WithPools, LoadBalancer, Pool
<1> QED
  BY <1>3, <1>4, <1>5, <1>6

LEMMA ProcessRoutes ==
  ASSUME IInv, NEW p \in Procs, NEW u \in job[p].plan, Process(p, u)
  PROVE  RoutesStep
<1>1. CASE createLoadBalancerPool(p, u)
  <2> DEFINE pool == NewPool(u.name, job[p].nodeList, getServiceHealthCheckNodePort(job[p].svc))
  <2>1. PICK i \in PoolIds : FreshPool(i) /\ lb' = WithPools(lb, Extend(lb.pools, i, pool))
    BY <1>1 DEF createLoadBalancerPool, CreateLoadBalancerPool
  <2>2. u.name \in PoolName
    BY <1>1, UpdateFacts DEF createLoadBalancerPool, Update
  <2>3. pool \in Pool
    BY <2>2, UpdateFacts, NewPoolType
  <2> QED
    BY <2>1, <2>3, AddPoolRoutes
<1> QED
  BY <1>1, DeletePoolRoutes, DeleteListenerRoutes, CreateListenerRoutes, ChangePoolRoutes
  DEF Process

\* The steps that send no update leave the load balancer as it is.
LEMMA ReadingRoutes ==
  ASSUME NEW p \in Procs, Run(p) \/ Fail(p), ~ \E u \in job[p].plan : Process(p, u)
  PROVE  lb' = lb
  BY DEF Run, Fail, ReadKube, FindLoadBalancer, RefuseUpdate, ListLoadBalancerListeners,
         ListLoadBalancerPools, ListLoadBalancerPoolMembers, Plan, RefusePlan,
         GetLoadBalancer, WaitLoadBalancerReady, Rejected

LEMMA NextRoutes == IInv /\ [Next]_vars => RoutesStep
<1> SUFFICES ASSUME IInv, [Next]_vars PROVE RoutesStep
  OBVIOUS
<1>1. CASE EditService \/ ChangeNodes \/ UNCHANGED vars
  BY <1>1, UnchangedRoutes DEF EditService, ChangeNodes, vars
<1>2. CASE AddUserPool
  <2>1. PICK i \in PoolIds, pool \in UserPools :
          FreshPool(i) /\ lb' = WithPools(lb, Extend(lb.pools, i, pool))
    BY <1>2 DEF AddUserPool
  <2>2. pool \in Pool
    BY UpdateAssumption DEF UpdateAssumption
  <2> QED
    BY <2>1, <2>2, AddPoolRoutes
<1>3. CASE Settle
  <2>1. lb'.listeners = lb.listeners /\ lb'.pools = lb.pools
    BY <1>3 DEF Settle, IInv, LoadBalancer
  <2> QED
    BY <2>1, SameRoutes
<1>4. ASSUME NEW p \in Procs, Run(p) \/ Fail(p) PROVE RoutesStep
  BY <1>4, ProcessRoutes, ReadingRoutes, UnchangedRoutes
<1> QED
  BY <1>1, <1>2, <1>3, <1>4 DEF Next

\* However many runs with old knowledge overlap, and wherever they fail, clients
\* see a load balancer whose listeners open for a pool of their port and close,
\* and never change their port or their pool; a pool in use stays.
THEOREM UpdatesImplementRoutes == Spec => ImplementsRoutes
<1>1. IInv /\ [Next]_vars => [Routes!Next]_(Routes!vars)
  BY NextRoutes DEF RoutesStep
<1> QED
  BY <1>1, InitRoutes, IInvHolds, PTL DEF Spec, ImplementsRoutes, Routes!Spec

-----------------------------------------------------------------------------
(* Pools of others. *)

\* An update leaves every pool but the one it names as it is.
LEMMA OtherPoolSame ==
  ASSUME IInv, NEW p \in Procs, NEW u \in job[p].plan, Process(p, u),
         NEW i \in DOMAIN lb.pools, u.op \notin PoolOps \/ i # u.id
  PROVE  i \in DOMAIN lb'.pools /\ lb'.pools[i] = lb.pools[i]
<1> USE UpdateFacts DEF PoolOps, MemberOps
<1>0. lb \in LoadBalancer /\ lb = [listeners |-> lb.listeners, pools |-> lb.pools, ready |-> lb.ready]
  BY DEF IInv, LoadBalancer
<1>1. CASE deleteLoadBalancerListener(p, u) \/ createLoadBalancerListener(p, u)
  BY <1>0, <1>1 DEF deleteLoadBalancerListener, DeleteLoadBalancerListener,
              createLoadBalancerListener, CreateLoadBalancerListener, WithListeners
<1>2. CASE deleteLoadBalancerPool(p, u)
  BY <1>0, <1>2 DEF deleteLoadBalancerPool, DeleteLoadBalancerPool, WithPools, Restrict
<1>3. CASE deleteLoadBalancerPoolMember(p, u)
  BY <1>0, <1>3 DEF deleteLoadBalancerPoolMember, DeleteLoadBalancerPoolMember, WithPools
<1>4. CASE updateLoadBalancerPool(p, u)
  BY <1>0, <1>4 DEF updateLoadBalancerPool, UpdateLoadBalancerPool, WithPools
<1>5. CASE replaceLoadBalancerPoolMembers(p, u)
  BY <1>0, <1>5 DEF replaceLoadBalancerPoolMembers, ReplaceLoadBalancerPoolMembers, WithPools
<1>6. CASE createLoadBalancerPoolMember(p, u)
  BY <1>0, <1>6 DEF createLoadBalancerPoolMember, CreateLoadBalancerPoolMember, WithPools
<1>7. CASE createLoadBalancerPool(p, u)
  BY <1>0, <1>7 DEF createLoadBalancerPool, CreateLoadBalancerPool, FreshPool, WithPools,
              Extend
<1> QED
  BY <1>1, <1>2, <1>3, <1>4, <1>5, <1>6, <1>7 DEF Process

\* The pool an update names still has a name that parses.
LEMMA NamedPoolParses ==
  ASSUME IInv, NEW p \in Procs, NEW u \in job[p].plan, u.op \in PoolOps,
         u.id \in DOMAIN lb.pools
  PROVE  lb.pools[u.id].name # Unparsable
<1>1. u.name \in PoolName /\ lb.pools[u.id].name.port = u.name.port
  BY UpdateFacts DEF Update, PoolOps, MemberOps
<1>2. u.name.port \in Nat
  BY <1>1, PortAssumption DEF PortAssumption, PoolName
<1> QED
  BY <1>1, <1>2 DEF Unparsable

\* However many runs overlap, none changes or deletes a pool whose name it cannot
\* parse, even if the pool appeared after the run had read its lists.
THEOREM ForeignPoolsStay == Spec => ForeignPoolUntouched
<1>1. ASSUME IInv, [Next]_vars, NEW i \in DOMAIN lb.pools, lb.pools[i].name = Unparsable
      PROVE  i \in DOMAIN lb'.pools /\ lb'.pools[i] = lb.pools[i]
  <2>1. CASE EditService \/ ChangeNodes \/ UNCHANGED vars
    BY <2>1 DEF EditService, ChangeNodes, vars
  <2>2. CASE AddUserPool \/ Settle
    <3>1. lb \in LoadBalancer
      BY <1>1 DEF IInv
    <3>2. CASE Settle
      BY <3>1, <3>2 DEF Settle, LoadBalancer
    <3>3. CASE AddUserPool
      <4>1. PICK j \in PoolIds, pool \in UserPools :
              FreshPool(j) /\ lb' = WithPools(lb, Extend(lb.pools, j, pool))
        BY <3>3 DEF AddUserPool
      <4>2. lb'.pools = Extend(lb.pools, j, pool)
        BY <3>1, <4>1 DEF WithPools, LoadBalancer
      <4> QED
        BY <4>1, <4>2 DEF FreshPool, Extend
    <3> QED
      BY <2>2, <3>2, <3>3
  <2>3. ASSUME NEW p \in Procs, NEW u \in job[p].plan, Process(p, u)
        PROVE  i \in DOMAIN lb'.pools /\ lb'.pools[i] = lb.pools[i]
    BY <1>1, <2>3, OtherPoolSame, NamedPoolParses
  <2>4. ASSUME NEW p \in Procs, Run(p) \/ Fail(p)
        PROVE  i \in DOMAIN lb'.pools /\ lb'.pools[i] = lb.pools[i]
    BY <2>3, <2>4, ReadingRoutes
  <2> QED
    BY <1>1, <2>1, <2>2, <2>4 DEF Next
<1>2. IInv /\ [Next]_vars =>
        [\A i \in DOMAIN lb.pools : lb.pools[i].name = Unparsable =>
           i \in DOMAIN lb'.pools /\ lb'.pools[i] = lb.pools[i]]_vars
  BY <1>1
<1> QED
  BY <1>2, IInvHolds, PTL DEF Spec, ForeignPoolUntouched
=============================================================================
