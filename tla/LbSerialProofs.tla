--------------------------- MODULE LbSerialProofs ---------------------------
(***************************************************************************)
(* What LbUpdate guarantees when one process alone updates the load        *)
(* balancer: the API has no reason to reject an update, there is one pool  *)
(* for a port, and a load balancer in sync is left alone; for every        *)
(* service, any number of nodes and ports, and any number of failures.     *)
(***************************************************************************)
EXTENDS LbUpdateProofs

CreateOps == {"CREATE-POOL", "CREATE-LISTENER"}

-----------------------------------------------------------------------------
(* A plan that fits the listeners ls and pools ps it is processed on.  All  *)
(* of this holds of what is left of a plan, too.                            *)

\* The step and the name of an update follow from its kind.
Shape(plan, s) ==
  \A u \in plan :
    /\ u.op = "DELETE-LISTENER" => u.step = 1
    /\ u.op = "DELETE-POOL"     => u.step = 2 /\ u.name.port \notin DOMAIN s.ports
    /\ u.op = "UPDATE-POOL"     => u.step = 4
    /\ u.op \in CreateOps       => u.step = 6
    /\ u.op \in CreateOps \cup {"UPDATE-POOL"} =>
         u.name.port \in DOMAIN s.ports /\ u.name = genLoadBalancerPoolName(s, u.name.port)

\* Two updates of a plan are about different things, except that a pool may be
\* renamed and also have its members changed.
Apart(plan) ==
  \A u, v \in plan : u # v =>
    /\ u.op = "DELETE-LISTENER" /\ v.op = "DELETE-LISTENER" => u.id # v.id
    /\ u.op \in CreateOps /\ v.op = u.op => u.name.port # v.name.port
    /\ u.op \in PoolOps /\ v.op \in PoolOps /\ u.id = v.id =>
         u.op # "DELETE-POOL" /\ (u.op = "UPDATE-POOL" <=> v.op # "UPDATE-POOL")

\* What an update is about is still as it was planned for, or an update before
\* it will see to that.
DueNow(ls, ps, plan, u) ==
  /\ u.op = "DELETE-LISTENER" => u.id \in DOMAIN ls
  /\ u.op \in PoolOps => u.id \in DOMAIN ps
  /\ u.op = "DELETE-POOL" =>
       \A l \in DOMAIN ls : ls[l].pool = u.id =>
         \E v \in plan : v.op = "DELETE-LISTENER" /\ v.id = l
  /\ u.op = "DELETE-POOL-MEMBER" => u.member \in ps[u.id].members
  /\ u.op = "CREATE-POOL-MEMBER" => u.member \notin ps[u.id].members
  /\ u.op = "CREATE-POOL" => \A i \in DOMAIN ps : ps[i].name.port # u.name.port
  /\ u.op = "CREATE-LISTENER" =>
       /\ \A l \in DOMAIN ls : ls[l].port # u.name.port
       /\ \/ \E i \in DOMAIN ps : ps[i].name = u.name
          \/ \E v \in plan : v.op \in {"UPDATE-POOL", "CREATE-POOL"} /\ v.name = u.name

Due(ls, ps, plan) == \A u \in plan : DueNow(ls, ps, plan, u)

Fits(ls, ps, plan, s) == Shape(plan, s) /\ Apart(plan) /\ Due(ls, ps, plan)

-----------------------------------------------------------------------------
(* A new plan fits what it was planned from. *)

\* The updates before those of the members of one pool are merged.
Raw(ls, ps, s, nodeList) ==
  UNION {checkListenerForExtPortDeletedFromService(ls, s),
         checkPoolForExtPortDeletedFromService(ps, s),
         checkPoolForNodesToDelete(ps, s, nodeList),
         checkPoolForServiceChanges(ps, s),
         checkPoolForNodesToAdd(ps, s, nodeList),
         checkPoolsForExtPortAddedToService(ps, s),
         checkListenersForExtPortAddedToService(ls, s)}

Several(raw, ps) == {i \in DOMAIN ps : \E u, v \in MemberUpdates(raw, i) : u # v}

\* Where each update comes from.
LEMMA RawFacts ==
  ASSUME NEW ls, NEW ps, NEW s, NEW nodeList, NEW u \in Raw(ls, ps, s, nodeList)
  PROVE  LET gen == genLoadBalancerPoolName(s, ps[u.id].name.port) IN
         /\ u.op \in Ops
         /\ u.op = "DELETE-LISTENER" =>
              /\ u = NewUpdate("DELETE-LISTENER", 1, u.id, NoName, NoMember)
              /\ u.id \in DOMAIN ls /\ ls[u.id].port \notin DOMAIN s.ports
         /\ u.op = "DELETE-POOL" =>
              /\ u = NewUpdate("DELETE-POOL", 2, u.id, ps[u.id].name, NoMember)
              /\ u.id \in DOMAIN ps /\ ps[u.id].name.port \notin DOMAIN s.ports
         /\ u.op = "DELETE-POOL-MEMBER" =>
              /\ u.id \in SamePortPools(ps, s) /\ u.member \in ps[u.id].members
         /\ u.op = "CREATE-POOL-MEMBER" =>
              /\ u.id \in SamePortPools(ps, s) /\ u.member \notin ps[u.id].members
         /\ u.op = "UPDATE-POOL" =>
              /\ u = NewUpdate("UPDATE-POOL", 4, u.id, gen, NoMember)
              /\ u.id \in KeptPools(ps, s)
         /\ u.op = "REPLACE-POOL-MEMBERS" =>
              /\ u = NewUpdate("REPLACE-POOL-MEMBERS", 4, u.id, gen, NoMember)
              /\ u.id \in KeptPools(ps, s) /\ NameChanged(ps[u.id], s)
         /\ u.op = "CREATE-POOL" =>
              /\ u = NewUpdate("CREATE-POOL", 6, NoId, genLoadBalancerPoolName(s, u.name.port), NoMember)
              /\ u.name.port \in DOMAIN s.ports
              /\ \A i \in KeptPools(ps, s) : ps[i].name.port # u.name.port
         /\ u.op = "CREATE-LISTENER" =>
              /\ u = NewUpdate("CREATE-LISTENER", 6, NoId, genLoadBalancerPoolName(s, u.name.port), NoMember)
              /\ u.name.port \in DOMAIN s.ports
              /\ \A l \in DOMAIN ls : ls[l].port # u.name.port
<1> USE DEF NewUpdate, Ops, MemberOps
<1>1. CASE u \in checkListenerForExtPortDeletedFromService(ls, s)
  BY <1>1 DEF checkListenerForExtPortDeletedFromService
<1>2. CASE u \in checkPoolForExtPortDeletedFromService(ps, s)
  BY <1>2 DEF checkPoolForExtPortDeletedFromService
<1>3. CASE u \in checkPoolForNodesToDelete(ps, s, nodeList)
  <2>1. PICK i \in SamePortPools(ps, s) : \E m \in StaleMembers(ps[i], nodeList) :
          u = NewUpdate("DELETE-POOL-MEMBER", 3, i, ps[i].name, m)
    BY <1>3 DEF checkPoolForNodesToDelete
  <2> QED
    BY <2>1 DEF StaleMembers
<1>4. CASE u \in checkPoolForServiceChanges(ps, s)
  BY <1>4 DEF checkPoolForServiceChanges
<1>5. CASE u \in checkPoolForNodesToAdd(ps, s, nodeList)
  <2>1. PICK i \in SamePortPools(ps, s) : \E n \in MissingNodes(ps[i], nodeList) :
          u = NewUpdate("CREATE-POOL-MEMBER", 5, i, ps[i].name,
                        [node |-> n, port |-> ps[i].name.nodePort])
    BY <1>5 DEF checkPoolForNodesToAdd
  <2> QED
    BY <2>1 DEF MissingNodes
<1>6. CASE u \in checkPoolsForExtPortAddedToService(ps, s)
  BY <1>6 DEF checkPoolsForExtPortAddedToService, genLoadBalancerPoolName
<1>7. CASE u \in checkListenersForExtPortAddedToService(ls, s)
  BY <1>7 DEF checkListenersForExtPortAddedToService, genLoadBalancerPoolName
<1> QED
  BY <1>1, <1>2, <1>3, <1>4, <1>5, <1>6, <1>7 DEF Raw

\* An update is one of those, or stands for several of the members of a pool.
LEMMA Merged ==
  ASSUME NEW ls, NEW ps, NEW s, NEW nodeList
  PROVE  LET raw     == Raw(ls, ps, s, nodeList)
             several == Several(raw, ps)
             plan    == UpdatesRequired(ls, ps, s, nodeList)
         IN  /\ \A u \in raw : u.op \notin MemberOps => u \in plan
             /\ \A u \in plan :
                  \/ u \in raw /\ (u.op \in MemberOps => u.id \notin several)
                  \/ /\ u.id \in several /\ u.id \in SamePortPools(ps, s)
                     /\ u.op = "REPLACE-POOL-MEMBERS"
             /\ \A u, v \in plan \ raw : u.id = v.id => u = v
<1> DEFINE raw      == Raw(ls, ps, s, nodeList)
           several  == Several(raw, ps)
           plan     == UpdatesRequired(ls, ps, s, nodeList)
           first(i) == IF \E u \in MemberUpdates(raw, i) : u.op = "DELETE-POOL-MEMBER"
                       THEN 3 ELSE 5
           merged(i) == NewUpdate("REPLACE-POOL-MEMBERS", first(i), i, ps[i].name, NoMember)
<1>1. plan = {u \in raw : ~(u.op \in MemberOps /\ u.id \in several)}
               \cup {merged(i) : i \in several}
  BY DEF UpdatesRequired, checkForMultiplePoolMemberUpdates, Raw, Several
<1>2. ASSUME NEW i \in several PROVE i \in SamePortPools(ps, s)
  <2>1. PICK v \in raw : v.op \in MemberOps /\ v.id = i
    BY <1>2 DEF Several, MemberUpdates
  <2> HIDE DEF raw
  <2> QED
    BY <2>1, RawFacts DEF MemberOps, raw
<1>3. \A i : merged(i).id = i /\ merged(i).op = "REPLACE-POOL-MEMBERS"
  BY DEF NewUpdate
<1> HIDE DEF raw, several, plan, merged
<1>4. \A u \in raw : u.op \notin MemberOps => u \in plan
  BY <1>1
<1>5. \A u \in plan : \/ u \in raw /\ (u.op \in MemberOps => u.id \notin several)
                      \/ /\ u.id \in several /\ u.id \in SamePortPools(ps, s)
                         /\ u.op = "REPLACE-POOL-MEMBERS"
  BY <1>1, <1>2, <1>3
<1>6. \A u, v \in plan \ raw : u.id = v.id => u = v
  BY <1>1, <1>3
<1> QED
  BY <1>4, <1>5, <1>6 DEF raw, several, plan

LEMMA NewPlanFits ==
  ASSUME NEW ls, NEW ps, NamesParse(ps), NEW s, NEW nodeList,
         ps \in PartialFcns(PoolIds, Pool), s \in Service,
         \A l \in DOMAIN ls : ls[l].pool \in DOMAIN ps /\ ps[ls[l].pool].name.port = ls[l].port
  PROVE  Fits(ls, ps, UpdatesRequired(ls, ps, s, nodeList), s)
<1> DEFINE raw     == Raw(ls, ps, s, nodeList)
           several == Several(raw, ps)
           plan    == UpdatesRequired(ls, ps, s, nodeList)
           gen(q)  == genLoadBalancerPoolName(s, q)
<1> USE DEF NewUpdate, MemberOps, PoolOps, CreateOps
<1>1. /\ \A u \in raw : u.op \notin MemberOps => u \in plan
      /\ \A u \in plan :
           \/ u \in raw /\ (u.op \in MemberOps => u.id \notin several)
           \/ /\ u.id \in several /\ u.id \in SamePortPools(ps, s)
              /\ u.op = "REPLACE-POOL-MEMBERS"
      /\ \A u, v \in plan \ raw : u.id = v.id => u = v
  BY Merged
<1>2. ASSUME NEW q \in DOMAIN s.ports PROVE gen(q).port = q
  BY DEF genLoadBalancerPoolName
<1>3. ASSUME NEW i \in SamePortPools(ps, s)
      PROVE  i \in KeptPools(ps, s) /\ ~NameChanged(ps[i], s)
  <2>1. i \in KeptPools(ps, s) /\ i \in DOMAIN ps
        /\ ps[i].name.nodePort = s.ports[ps[i].name.port]
    BY DEF SamePortPools, KeptPools
  <2>2. ps[i].name \in PoolName
    <3>1. ps[i] \in Pool
      BY <2>1, PartialFcnDef
    <3>2. ps[i].name # Unparsable
      BY <2>1 DEF NamesParse
    <3> QED
      BY <3>1, <3>2 DEF Pool
  <2>3. ps[i].name = gen(ps[i].name.port)
    BY <2>1, <2>2 DEF PoolName, genLoadBalancerPoolName
  <2> QED
    BY <2>1, <2>3 DEF NameChanged
<1>4. KeptPools(ps, s) = {i \in DOMAIN ps : ps[i].name.port \in DOMAIN s.ports}
  BY DEF KeptPools
<1> HIDE DEF raw, plan, several
<1>5. Shape(plan, s)
  <2> SUFFICES ASSUME NEW u \in plan, u.op # "REPLACE-POOL-MEMBERS",
                      u.op \notin MemberOps
               PROVE  /\ u.op = "DELETE-LISTENER" => u.step = 1
                      /\ u.op = "DELETE-POOL" => u.step = 2 /\ u.name.port \notin DOMAIN s.ports
                      /\ u.op = "UPDATE-POOL" => u.step = 4
                      /\ u.op \in CreateOps => u.step = 6
                      /\ u.op \in CreateOps \cup {"UPDATE-POOL"} =>
                           u.name.port \in DOMAIN s.ports /\ u.name = gen(u.name.port)
    BY DEF Shape
  <2>1. u \in raw
    BY <1>1
  <2>2. CASE u.op = "DELETE-LISTENER" \/ u.op = "DELETE-POOL"
    BY <2>1, <2>2, RawFacts DEF raw
  <2>3. CASE u.op = "UPDATE-POOL"
    <3>1. u.id \in KeptPools(ps, s) /\ u.step = 4 /\ u.name = gen(ps[u.id].name.port)
      BY <2>1, <2>3, RawFacts DEF raw
    <3> QED
      BY <1>2, <1>4, <2>3, <3>1
  <2>4. CASE u.op \in CreateOps
    BY <2>1, <2>4, RawFacts DEF raw
  <2> QED
    BY <2>1, <2>2, <2>3, <2>4
<1>6. Apart(plan)
  <2> SUFFICES ASSUME NEW u \in plan, NEW v \in plan, u # v
               PROVE  /\ u.op = "DELETE-LISTENER" /\ v.op = "DELETE-LISTENER" => u.id # v.id
                      /\ u.op \in CreateOps /\ v.op = u.op => u.name.port # v.name.port
                      /\ u.op \in PoolOps /\ v.op \in PoolOps /\ u.id = v.id =>
                           u.op # "DELETE-POOL" /\ (u.op = "UPDATE-POOL" <=> v.op # "UPDATE-POOL")
    BY DEF Apart
  <2>1. ASSUME u.op = "DELETE-LISTENER", v.op = "DELETE-LISTENER" PROVE u.id # v.id
    <3>1. u \in raw /\ v \in raw
      BY <1>1, <2>1
    <3> QED
      BY <2>1, <3>1, RawFacts DEF raw
  <2>2. ASSUME u.op \in CreateOps, v.op = u.op PROVE u.name.port # v.name.port
    <3>1. u \in raw /\ v \in raw
      BY <1>1, <2>2
    <3>2. CASE u.op = "CREATE-POOL"
      <4>1. /\ u = NewUpdate("CREATE-POOL", 6, NoId, gen(u.name.port), NoMember)
            /\ v = NewUpdate("CREATE-POOL", 6, NoId, gen(v.name.port), NoMember)
        BY <2>2, <3>1, <3>2, RawFacts DEF raw
      <4> QED
        BY <4>1
    <3>3. CASE u.op = "CREATE-LISTENER"
      <4>1. /\ u = NewUpdate("CREATE-LISTENER", 6, NoId, gen(u.name.port), NoMember)
            /\ v = NewUpdate("CREATE-LISTENER", 6, NoId, gen(v.name.port), NoMember)
        BY <2>2, <3>1, <3>3, RawFacts DEF raw
      <4> QED
        BY <4>1
    <3> QED
      BY <2>2, <3>2, <3>3
  <2>3. ASSUME u.op \in PoolOps, v.op \in PoolOps, u.id = v.id
        PROVE  u.op # "DELETE-POOL" /\ (u.op = "UPDATE-POOL" <=> v.op # "UPDATE-POOL")
    <3>1. ASSUME NEW w \in plan, w.op \in PoolOps \ {"DELETE-POOL"} PROVE w.id \in KeptPools(ps, s)
      <4>1. CASE w \in raw
        <5>1. w.id \in KeptPools(ps, s) \/ w.id \in SamePortPools(ps, s)
          BY <3>1, <4>1, RawFacts DEF raw
        <5> QED
          BY <1>3, <5>1
      <4>2. CASE w \notin raw
        BY <1>1, <1>3, <4>2
      <4> QED
        BY <4>1, <4>2
    <3>2. ASSUME NEW w \in plan, w.op = "DELETE-POOL"
          PROVE  /\ w = NewUpdate("DELETE-POOL", 2, w.id, ps[w.id].name, NoMember)
                 /\ w.id \notin KeptPools(ps, s)
      <4>1. w \in raw
        BY <1>1, <3>2
      <4> QED
        BY <1>4, <3>2, <4>1, RawFacts DEF raw
    <3>3. u.op # "DELETE-POOL" /\ v.op # "DELETE-POOL"
      BY <2>3, <3>1, <3>2
    <3>4. ~(u.op = "UPDATE-POOL" /\ v.op = "UPDATE-POOL")
      <4> SUFFICES ASSUME u.op = "UPDATE-POOL", v.op = "UPDATE-POOL" PROVE FALSE
        OBVIOUS
      <4>1. u \in raw /\ v \in raw
        BY <1>1
      <4>2. /\ u = NewUpdate("UPDATE-POOL", 4, u.id, gen(ps[u.id].name.port), NoMember)
            /\ v = NewUpdate("UPDATE-POOL", 4, v.id, gen(ps[v.id].name.port), NoMember)
        BY <4>1, RawFacts DEF raw
      <4> QED
        BY <2>3, <4>2
    <3>5. ~(u.op # "UPDATE-POOL" /\ v.op # "UPDATE-POOL")
      <4> SUFFICES ASSUME u.op \in MemberOps \cup {"REPLACE-POOL-MEMBERS"},
                          v.op \in MemberOps \cup {"REPLACE-POOL-MEMBERS"}
                   PROVE  FALSE
        BY <2>3, <3>3
      <4>1. ASSUME NEW w \in plan, w.op = "REPLACE-POOL-MEMBERS"
            PROVE  \/ /\ w \in raw /\ w.id \in DOMAIN ps /\ NameChanged(ps[w.id], s)
                      /\ w = NewUpdate("REPLACE-POOL-MEMBERS", 4, w.id, gen(ps[w.id].name.port), NoMember)
                   \/ /\ w \notin raw /\ w.id \in several /\ w.id \in SamePortPools(ps, s)
        <5>1. CASE w \in raw
          BY <1>4, <4>1, <5>1, RawFacts DEF raw
        <5> QED
          BY <1>1, <4>1, <5>1
      <4>2. ASSUME NEW w \in plan, w.op \in MemberOps
            PROVE  /\ w \in raw /\ w.id \notin several /\ w.id \in SamePortPools(ps, s)
                   /\ w \in MemberUpdates(raw, w.id) /\ w.id \in DOMAIN ps
        <5>1. w \in raw /\ w.id \notin several
          BY <1>1, <4>2
        <5>2. w.id \in SamePortPools(ps, s)
          BY <4>2, <5>1, RawFacts DEF raw
        <5> QED
          BY <1>3, <1>4, <4>2, <5>1, <5>2 DEF MemberUpdates
      <4>3. CASE u.op = "REPLACE-POOL-MEMBERS" /\ v.op = "REPLACE-POOL-MEMBERS"
        BY <1>1, <1>3, <2>3, <4>1, <4>3
      <4>4. CASE u.op \in MemberOps /\ v.op \in MemberOps
        <5>1. u.id \in several
          BY <2>3, <4>2, <4>4 DEF several, Several
        <5> QED
          BY <4>2, <4>4, <5>1
      <4>5. CASE u.op = "REPLACE-POOL-MEMBERS" /\ v.op \in MemberOps
        BY <1>3, <2>3, <4>1, <4>2, <4>5
      <4>6. CASE u.op \in MemberOps /\ v.op = "REPLACE-POOL-MEMBERS"
        BY <1>3, <2>3, <4>1, <4>2, <4>6
      <4> QED
        BY <4>3, <4>4, <4>5, <4>6
    <3> QED
      BY <3>3, <3>4, <3>5
  <2> QED
    BY <2>1, <2>2, <2>3
<1>7. Due(ls, ps, plan)
  <2> SUFFICES ASSUME NEW u \in plan PROVE DueNow(ls, ps, plan, u)
    BY DEF Due
  <2> USE DEF DueNow
  <2>1. CASE u.op = "DELETE-LISTENER"
    <3>1. u \in raw
      BY <1>1, <2>1
    <3> QED
      BY <2>1, <3>1, RawFacts DEF raw
  <2>2. CASE u.op = "DELETE-POOL"
    <3>1. u \in raw
      BY <1>1, <2>2
    <3>2. u.id \in DOMAIN ps /\ ps[u.id].name.port \notin DOMAIN s.ports
      BY <2>2, <3>1, RawFacts DEF raw
    <3>3. ASSUME NEW l \in DOMAIN ls, ls[l].pool = u.id
          PROVE  \E v \in plan : v.op = "DELETE-LISTENER" /\ v.id = l
      <4>1. ls[l].port \notin DOMAIN s.ports
        BY <3>2, <3>3
      <4> DEFINE v == NewUpdate("DELETE-LISTENER", 1, l, NoName, NoMember)
      <4>2. v \in raw
        BY <4>1 DEF raw, Raw, checkListenerForExtPortDeletedFromService
      <4> QED
        BY <1>1, <4>2
    <3> QED
      BY <2>2, <3>2, <3>3
  <2>3. CASE u.op \in MemberOps
    <3>1. u \in raw
      BY <1>1, <2>3
    <3> QED
      BY <1>3, <1>4, <2>3, <3>1, RawFacts DEF raw
  <2>4. CASE u.op \in {"UPDATE-POOL", "REPLACE-POOL-MEMBERS"}
    <3>1. CASE u \in raw
      BY <1>4, <2>4, <3>1, RawFacts DEF raw
    <3>2. CASE u \notin raw
      BY <1>1, <1>3, <1>4, <2>4, <3>2
    <3> QED
      BY <3>1, <3>2
  <2>5. CASE u.op = "CREATE-POOL"
    <3>1. u \in raw
      BY <1>1, <2>5
    <3> QED
      BY <1>4, <2>5, <3>1, RawFacts DEF raw
  <2>6. CASE u.op = "CREATE-LISTENER"
    <3>1. u \in raw
      BY <1>1, <2>6
    <3> DEFINE q == u.name.port
    <3>2. /\ u.name = gen(q) /\ q \in DOMAIN s.ports
          /\ \A l \in DOMAIN ls : ls[l].port # q
      BY <2>6, <3>1, RawFacts DEF raw
    <3>3. CASE \E i \in KeptPools(ps, s) : ps[i].name.port = q
      <4>1. PICK i \in KeptPools(ps, s) : ps[i].name.port = q
        BY <3>3
      <4>2. CASE NameChanged(ps[i], s)
        <5> DEFINE v == NewUpdate("UPDATE-POOL", 4, i, gen(q), NoMember)
        <5>1. v \in raw
          BY <4>1, <4>2 DEF raw, Raw, checkPoolForServiceChanges
        <5> QED
          BY <1>1, <2>6, <3>2, <5>1
      <4>3. CASE ~NameChanged(ps[i], s)
        BY <1>4, <2>6, <3>2, <4>1, <4>3 DEF NameChanged
      <4> QED
        BY <4>2, <4>3
    <3>4. CASE \A i \in KeptPools(ps, s) : ps[i].name.port # q
      <4> DEFINE v == NewUpdate("CREATE-POOL", 6, NoId, gen(q), NoMember)
      <4>1. v \in raw
        BY <3>2, <3>4 DEF raw, Raw, checkPoolsForExtPortAddedToService
      <4> QED
        BY <1>1, <2>6, <3>2, <4>1
    <3> QED
      BY <3>3, <3>4
  <2> QED
    BY <2>1, <2>2, <2>3, <2>4, <2>5, <2>6
<1> QED
  BY <1>5, <1>6, <1>7 DEF Fits, plan

-----------------------------------------------------------------------------
(* What is left of a plan fits the load balancer after an update. *)

\* Shape and Apart hold of a part of a plan.
LEMMA RestFits ==
  ASSUME NEW plan, NEW u, NEW s, Shape(plan, s), Apart(plan)
  PROVE  Shape(plan \ {u}, s) /\ Apart(plan \ {u})
  BY DEF Shape, Apart

LEMMA DeleteListenerFits ==
  ASSUME NEW ls, NEW ps, NEW plan, NEW s, Fits(ls, ps, plan, s), NEW u \in plan,
         u.op = "DELETE-LISTENER",
         NEW new, DOMAIN new = DOMAIN ls \ {u.id}, \A l \in DOMAIN new : new[l] = ls[l]
  PROVE  Fits(new, ps, plan \ {u}, s)
<1>1. ASSUME NEW w \in plan \ {u} PROVE DueNow(new, ps, plan \ {u}, w)
  <2>1. DueNow(ls, ps, plan, w)
    BY DEF Fits, Due
  <2>2. w.op = "DELETE-LISTENER" => w.id \in DOMAIN new
    BY <2>1 DEF Fits, Apart, DueNow
  <2>3. ASSUME w.op = "DELETE-POOL", NEW l \in DOMAIN new, new[l].pool = w.id
        PROVE  \E v \in plan \ {u} : v.op = "DELETE-LISTENER" /\ v.id = l
    BY <2>1, <2>3 DEF DueNow
  <2>4. w.op = "CREATE-LISTENER" =>
          \/ \E i \in DOMAIN ps : ps[i].name = w.name
          \/ \E v \in plan \ {u} : v.op \in {"UPDATE-POOL", "CREATE-POOL"} /\ v.name = w.name
    BY <2>1 DEF DueNow
  <2> QED
    BY <2>1, <2>2, <2>3, <2>4 DEF DueNow
<1> QED
  BY <1>1, RestFits DEF Fits, Due

LEMMA DeletePoolFits ==
  ASSUME NEW ls, NEW ps, NEW plan, NEW s, Fits(ls, ps, plan, s), NEW u \in plan,
         u.op = "DELETE-POOL", ps[u.id].name.port = u.name.port,
         NEW new, DOMAIN new = DOMAIN ps \ {u.id}, \A i \in DOMAIN new : new[i] = ps[i]
  PROVE  Fits(ls, new, plan \ {u}, s)
<1>1. ASSUME NEW w \in plan \ {u} PROVE DueNow(ls, new, plan \ {u}, w)
  <2>1. DueNow(ls, ps, plan, w)
    BY DEF Fits, Due
  <2>2. w.op \in PoolOps => w.id \in DOMAIN new
    <3>1. w.op \in PoolOps => w.id # u.id
      BY DEF Fits, Apart, PoolOps
    <3> QED
      BY <2>1, <3>1 DEF DueNow
  <2>3. w.op \in MemberOps => new[w.id] = ps[w.id]
    BY <2>2 DEF PoolOps
  <2>4. ASSUME w.op = "DELETE-POOL", NEW l \in DOMAIN ls, ls[l].pool = w.id
        PROVE  \E v \in plan \ {u} : v.op = "DELETE-LISTENER" /\ v.id = l
    BY <2>1, <2>4 DEF DueNow
  <2>5. w.op = "CREATE-LISTENER" =>
          \/ \E i \in DOMAIN new : new[i].name = w.name
          \/ \E v \in plan \ {u} : v.op \in {"UPDATE-POOL", "CREATE-POOL"} /\ v.name = w.name
    <3> SUFFICES ASSUME w.op = "CREATE-LISTENER",
                        NEW i \in DOMAIN ps, ps[i].name = w.name
                 PROVE  i \in DOMAIN new /\ new[i].name = w.name
      BY <2>1 DEF DueNow
    <3>1. w.name.port \in DOMAIN s.ports /\ u.name.port \notin DOMAIN s.ports
      BY DEF Fits, Shape, CreateOps
    <3> QED
      BY <3>1
  <2> QED
    BY <2>1, <2>2, <2>3, <2>4, <2>5 DEF DueNow, MemberOps
<1> QED
  BY <1>1, RestFits DEF Fits, Due

\* The members of a pool change.
LEMMA MembersFit ==
  ASSUME NEW ls, NEW ps, NEW plan, NEW s, Fits(ls, ps, plan, s), NEW u \in plan,
         u.op \in MemberOps \cup {"REPLACE-POOL-MEMBERS"},
         NEW new, DOMAIN new = DOMAIN ps,
         \A i \in DOMAIN ps : /\ new[i].name = ps[i].name
                              /\ i # u.id => new[i].members = ps[i].members
  PROVE  Fits(ls, new, plan \ {u}, s)
<1>1. ASSUME NEW w \in plan \ {u} PROVE DueNow(ls, new, plan \ {u}, w)
  <2>1. DueNow(ls, ps, plan, w)
    BY DEF Fits, Due
  <2>2. w.op \in MemberOps => w.id \in DOMAIN ps /\ new[w.id].members = ps[w.id].members
    <3>1. w.op \in MemberOps => w.id # u.id
      BY DEF Fits, Apart, PoolOps, MemberOps
    <3> QED
      BY <2>1, <3>1 DEF DueNow, PoolOps
  <2>3. ASSUME w.op = "DELETE-POOL", NEW l \in DOMAIN ls, ls[l].pool = w.id
        PROVE  \E v \in plan \ {u} : v.op = "DELETE-LISTENER" /\ v.id = l
    BY <2>1, <2>3 DEF DueNow, MemberOps
  <2>4. w.op = "CREATE-LISTENER" =>
          \/ \E i \in DOMAIN new : new[i].name = w.name
          \/ \E v \in plan \ {u} : v.op \in {"UPDATE-POOL", "CREATE-POOL"} /\ v.name = w.name
    BY <2>1 DEF DueNow, MemberOps
  <2> QED
    BY <2>1, <2>2, <2>3, <2>4 DEF DueNow, MemberOps
<1> QED
  BY <1>1, RestFits DEF Fits, Due

LEMMA UpdatePoolFits ==
  ASSUME NEW ls, NEW ps, NEW plan, NEW s, Fits(ls, ps, plan, s), NEW u \in plan,
         u.op = "UPDATE-POOL", u.id \in DOMAIN ps, ps[u.id].name.port = u.name.port,
         NEW new, DOMAIN new = DOMAIN ps, new[u.id].name = u.name,
         \A i \in DOMAIN ps : /\ new[i].members = ps[i].members
                              /\ i # u.id => new[i].name = ps[i].name
  PROVE  Fits(ls, new, plan \ {u}, s)
<1>1. ASSUME NEW w \in plan \ {u} PROVE DueNow(ls, new, plan \ {u}, w)
  <2>1. DueNow(ls, ps, plan, w)
    BY DEF Fits, Due
  <2>2. w.op \in PoolOps => w.id \in DOMAIN ps /\ new[w.id].members = ps[w.id].members
    BY <2>1 DEF DueNow
  <2>3. ASSUME w.op = "DELETE-POOL", NEW l \in DOMAIN ls, ls[l].pool = w.id
        PROVE  \E v \in plan \ {u} : v.op = "DELETE-LISTENER" /\ v.id = l
    BY <2>1, <2>3 DEF DueNow
  <2>4. w.op = "CREATE-LISTENER" =>
          \/ \E i \in DOMAIN new : new[i].name = w.name
          \/ \E v \in plan \ {u} : v.op \in {"UPDATE-POOL", "CREATE-POOL"} /\ v.name = w.name
    <3> SUFFICES ASSUME w.op = "CREATE-LISTENER"
                 PROVE  \/ \E i \in DOMAIN new : new[i].name = w.name
                        \/ \E v \in plan \ {u} : v.op \in {"UPDATE-POOL", "CREATE-POOL"}
                                                  /\ v.name = w.name
      OBVIOUS
    <3>1. CASE w.name = u.name
      BY <3>1
    <3>2. CASE w.name # u.name
      <4>1. w.name.port # u.name.port
        BY <3>2 DEF Fits, Shape, CreateOps
      <4> QED
        BY <2>1, <3>2, <4>1 DEF DueNow
    <3> QED
      BY <3>1, <3>2
  <2>5. \A i \in DOMAIN ps : new[i].name.port = ps[i].name.port
    OBVIOUS
  <2> QED
    BY <2>1, <2>2, <2>3, <2>4, <2>5 DEF DueNow, PoolOps, MemberOps
<1> QED
  BY <1>1, RestFits DEF Fits, Due

LEMMA CreatePoolFits ==
  ASSUME NEW ls, NEW ps, NEW plan, NEW s, Fits(ls, ps, plan, s), NEW u \in plan,
         u.op = "CREATE-POOL", NEW i, i \notin DOMAIN ps,
         NEW new, DOMAIN new = DOMAIN ps \cup {i}, new[i].name = u.name,
         \A j \in DOMAIN ps : new[j] = ps[j]
  PROVE  Fits(ls, new, plan \ {u}, s)
<1>1. ASSUME NEW w \in plan \ {u} PROVE DueNow(ls, new, plan \ {u}, w)
  <2>1. DueNow(ls, ps, plan, w)
    BY DEF Fits, Due
  <2>2. w.op \in PoolOps => w.id \in DOMAIN ps /\ w.id \in DOMAIN new /\ new[w.id] = ps[w.id]
    BY <2>1 DEF DueNow
  <2>3. ASSUME w.op = "DELETE-POOL", NEW l \in DOMAIN ls, ls[l].pool = w.id
        PROVE  \E v \in plan \ {u} : v.op = "DELETE-LISTENER" /\ v.id = l
    BY <2>1, <2>3 DEF DueNow
  <2>4. w.op = "CREATE-LISTENER" =>
          \/ \E k \in DOMAIN new : new[k].name = w.name
          \/ \E v \in plan \ {u} : v.op \in {"UPDATE-POOL", "CREATE-POOL"} /\ v.name = w.name
    BY <2>1 DEF DueNow
  <2>5. w.op = "CREATE-POOL" => \A k \in DOMAIN new : new[k].name.port # w.name.port
    <3>1. w.op = "CREATE-POOL" => w.name.port # u.name.port
      BY DEF Fits, Apart, CreateOps
    <3> QED
      BY <2>1, <3>1 DEF DueNow
  <2> QED
    BY <2>1, <2>2, <2>3, <2>4, <2>5 DEF DueNow, PoolOps, MemberOps
<1> QED
  BY <1>1, RestFits DEF Fits, Due

LEMMA CreateListenerFits ==
  ASSUME NEW ls, NEW ps, NEW plan, NEW s, Fits(ls, ps, plan, s), NEW u \in plan,
         u.op = "CREATE-LISTENER", NEW l, l \notin DOMAIN ls,
         \A w \in plan : w.op = "DELETE-POOL" => ps[w.id].name.port = w.name.port,
         NEW new, DOMAIN new = DOMAIN ls \cup {l},
         new[l].port = u.name.port, ps[new[l].pool].name.port = u.name.port,
         \A k \in DOMAIN ls : new[k] = ls[k]
  PROVE  Fits(new, ps, plan \ {u}, s)
<1>1. ASSUME NEW w \in plan \ {u} PROVE DueNow(new, ps, plan \ {u}, w)
  <2>1. DueNow(ls, ps, plan, w)
    BY DEF Fits, Due
  <2>2. ASSUME w.op = "DELETE-POOL", NEW k \in DOMAIN new, new[k].pool = w.id
        PROVE  \E v \in plan \ {u} : v.op = "DELETE-LISTENER" /\ v.id = k
    <3>1. w.name.port \notin DOMAIN s.ports /\ u.name.port \in DOMAIN s.ports
      BY <2>2 DEF Fits, Shape, CreateOps
    <3>2. k # l
      BY <2>2, <3>1
    <3> QED
      BY <2>1, <2>2, <3>2 DEF DueNow
  <2>3. w.op = "CREATE-LISTENER" =>
          \/ \E k \in DOMAIN ps : ps[k].name = w.name
          \/ \E v \in plan \ {u} : v.op \in {"UPDATE-POOL", "CREATE-POOL"} /\ v.name = w.name
    BY <2>1 DEF DueNow
  <2>4. w.op = "CREATE-LISTENER" => \A k \in DOMAIN new : new[k].port # w.name.port
    <3>1. w.op = "CREATE-LISTENER" => w.name.port # u.name.port
      BY DEF Fits, Apart, CreateOps
    <3> QED
      BY <2>1, <3>1 DEF DueNow
  <2> QED
    BY <2>1, <2>2, <2>3, <2>4 DEF DueNow
<1> QED
  BY <1>1, RestFits DEF Fits, Due

-----------------------------------------------------------------------------
(* The inductive invariant of one process p that updates alone. *)

\* The pools that were listed are those there are, but for the members that were
\* not read yet.
Read(ps, j) ==
  /\ DOMAIN j.pools = DOMAIN ps
  /\ \A i \in DOMAIN ps :
       j.pools[i] = IF i \in j.unread THEN [ps[i] EXCEPT !.members = {}] ELSE ps[i]

SInv(p) ==
  /\ OnePoolPerPort
  /\ pc[p] \in {"listeners", "pools", "members", "exec"} =>
       lb.ready /\ job[p].view = Names(lb.pools)
  /\ pc[p] \in {"pools", "members"} => job[p].listeners = lb.listeners
  /\ pc[p] = "members" => Read(lb.pools, job[p])
  /\ Fits(lb.listeners, lb.pools, job[p].plan, job[p].svc)

LEMMA NothingFits == \A ls, ps, s : Fits(ls, ps, {}, s)
  BY DEF Fits, Shape, Apart, Due

\* What a run that sends an update of its plan knows of it.
LEMMA PlannedUpdate ==
  ASSUME IInv, NEW p \in Procs, SInv(p), NEW u \in job[p].plan
  PROVE  /\ u \in Update
         /\ DueNow(lb.listeners, lb.pools, job[p].plan, u)
         /\ u.op \in PoolOps => lb.pools[u.id].name.port = u.name.port
  BY UpdateFacts DEF SInv, Fits, Due, DueNow

\* The order of the plan is right: the next update is accepted.
LEMMA NextAccepted ==
  ASSUME IInv, NEW p \in Procs, SInv(p), pc[p] = "exec", NEW u \in job[p].plan, IsNext(p, u)
  PROVE  Accepts(lb, u, ListenerPool(p, u))
<1> DEFINE plan == job[p].plan
<1>1. lb.ready /\ job[p].view = Names(lb.pools) /\ OnePoolPerPort
  BY DEF SInv
<1>2. u \in Update /\ DueNow(lb.listeners, lb.pools, plan, u)
  BY PlannedUpdate
<1>3. Shape(plan, job[p].svc)
  BY DEF SInv, Fits
<1>4. \A v \in plan \ {u} : Precedes(u, v)
  BY DEF IsNext
<1>5. CASE u.op = "DELETE-LISTENER"
  BY <1>1, <1>2, <1>5 DEF Accepts, DueNow
<1>6. CASE u.op = "DELETE-POOL"
  <2>1. ASSUME NEW l \in DOMAIN lb.listeners, lb.listeners[l].pool = u.id PROVE FALSE
    <3>1. PICK v \in plan : v.op = "DELETE-LISTENER" /\ v.id = l
      BY <1>2, <1>6, <2>1 DEF DueNow
    <3>2. v # u /\ v.step = 1 /\ u.step = 2
      BY <1>3, <1>6, <3>1 DEF Shape
    <3> QED
      BY <1>4, <3>2 DEF Precedes
  <2> QED
    BY <1>1, <1>2, <1>6, <2>1 DEF Accepts, DueNow, PoolUnused, PoolOps
<1>7. CASE u.op \in MemberOps \cup {"REPLACE-POOL-MEMBERS"}
  BY <1>1, <1>2, <1>7 DEF Accepts, DueNow, PoolOps, MemberOps
<1>8. CASE u.op = "UPDATE-POOL"
  <2>1. u.id \in DOMAIN lb.pools /\ lb.pools[u.id].name.port = u.name.port
    BY <1>2, <1>8, PlannedUpdate DEF DueNow, PoolOps
  <2>2. lb.pools[u.id].name # u.name => NameUnused(lb, u.name)
    BY <1>1, <2>1 DEF OnePoolPerPort, NameUnused
  <2> QED
    BY <1>1, <1>8, <2>1, <2>2 DEF Accepts
<1>9. CASE u.op = "CREATE-POOL"
  BY <1>1, <1>2, <1>9 DEF Accepts, DueNow, NameUnused
<1>10. CASE u.op = "CREATE-LISTENER"
  <2>1. u.name.port \in Nat /\ u.step = 6
    BY <1>2, <1>3, <1>10, PortAssumption DEF Update, PoolName, PortAssumption, Shape, CreateOps
  <2>2. ASSUME NEW v \in plan, v.op \in {"UPDATE-POOL", "CREATE-POOL"}, v.name = u.name
        PROVE  FALSE
    <3>1. v # u /\ Precedes(u, v)
      BY <1>4, <1>10, <2>2
    <3>2. v.step = 4 \/ v.step = 6
      BY <1>3, <2>2 DEF Shape, CreateOps
    <3> QED
      BY <1>10, <2>1, <2>2, <3>1, <3>2 DEF Precedes
  <2>3. PICK i \in DOMAIN lb.pools : lb.pools[i].name = u.name
    BY <1>2, <1>10, <2>2 DEF DueNow
  <2>4. i \in DOMAIN job[p].view /\ job[p].view[i] = u.name
    BY <1>1, <2>3 DEF Names
  <2>5. ListenerPool(p, u) \in DOMAIN lb.pools
    BY <1>1, <1>10, <2>4 DEF ListenerPool, Names
  <2>6. PortUnused(lb, u.name.port)
    BY <1>2, <1>10 DEF DueNow, PortUnused
  <2> QED
    BY <1>1, <1>10, <2>5, <2>6 DEF Accepts
<1> QED
  BY <1>2, <1>5, <1>6, <1>7, <1>8, <1>9, <1>10 DEF Update, Ops

-----------------------------------------------------------------------------
(* Initial states. *)

LEMMA SerialInit ==
  ASSUME Init, NEW p \in Procs PROVE SInv(p)
<1>1. PICK nodeList \in filterNodesByServiceMemberQuota(getNodeIDs(nodes), {}, svc),
           id \in Injection(DOMAIN svc.ports, PoolIds \cap ListenerIds) :
             lb = CreateLoadBalancer(svc, nodeList, id)
  BY DEF Init
<1> DEFINE ports   == DOMAIN svc.ports
           port(i) == CHOOSE q \in ports : id[q] = i
           ids     == {id[q] : q \in ports}
<1>2. \A i \in ids : id[port(i)] = i
  OBVIOUS
<1>3. DOMAIN lb.pools = ids /\ \A i \in ids : lb.pools[i].name.port = port(i)
  BY <1>1 DEF CreateLoadBalancer, NewPool, genLoadBalancerPoolName
<1>4. OnePoolPerPort
  BY <1>2, <1>3 DEF OnePoolPerPort
<1>5. pc[p] = "idle" /\ job[p].plan = {}
  BY DEF Init, NewJob
<1> QED
  BY <1>4, <1>5, NothingFits DEF SInv

-----------------------------------------------------------------------------
(* Steps. *)

\* A run that is over, or is about to begin, knows nothing.
LEMMA FinishSerial ==
  ASSUME IInv, NEW p \in Procs, NEW r, Finish(p, r), OnePoolPerPort' PROVE SInv(p)'
<1>1. pc'[p] = "idle" /\ job'[p].plan = {}
  BY DEF Finish, NewJob, IInv, ControlOK
<1> QED
  BY <1>1, NothingFits DEF SInv

LEMMA UnchangedSerial ==
  ASSUME NEW p \in Procs, SInv(p), UNCHANGED <<lb, pc, job>> PROVE SInv(p)'
  BY DEF SInv, OnePoolPerPort, Read

LEMMA SettleSerial ==
  ASSUME IInv, NEW p \in Procs, SInv(p), Settle PROVE SInv(p)'
<1>1. /\ lb'.listeners = lb.listeners /\ lb'.pools = lb.pools /\ lb'.ready
      /\ UNCHANGED <<pc, job>>
  BY DEF Settle, IInv, LoadBalancer
<1> QED
  BY <1>1 DEF SInv, OnePoolPerPort, Read

LEMMA ReadingSerial ==
  ASSUME IInv, NEW p \in Procs, SInv(p),
         \/ ReadKube(p) \/ FindLoadBalancer(p) \/ ListLoadBalancerListeners(p)
         \/ GetLoadBalancer(p) \/ WaitLoadBalancerReady(p)
  PROVE  SInv(p)'
<1> USE DEF IInv, ControlOK, JobOK, Job
<1>0. lb' = lb /\ OnePoolPerPort'
  BY DEF ReadKube, FindLoadBalancer, ListLoadBalancerListeners, GetLoadBalancer,
         WaitLoadBalancerReady, SInv, OnePoolPerPort
<1>1. CASE ReadKube(p)
  <2>1. pc'[p] = "find" /\ job'[p].plan = {}
    BY <1>1 DEF ReadKube, NewJob
  <2> QED
    BY <1>0, <2>1, NothingFits DEF SInv
<1>2. CASE FindLoadBalancer(p)
  <2>1. /\ lb.ready /\ pc'[p] = "listeners" /\ job'[p].view = Names(lb.pools)
        /\ job'[p].plan = job[p].plan /\ job'[p].svc = job[p].svc
    BY <1>2 DEF FindLoadBalancer
  <2> QED
    BY <1>0, <2>1 DEF SInv
<1>3. CASE ListLoadBalancerListeners(p)
  <2>1. /\ pc[p] = "listeners" /\ pc'[p] = "pools" /\ job'[p].view = job[p].view
        /\ job'[p].listeners = lb.listeners
        /\ job'[p].plan = job[p].plan /\ job'[p].svc = job[p].svc
    BY <1>3 DEF ListLoadBalancerListeners
  <2> QED
    BY <1>0, <2>1 DEF SInv
<1>4. CASE (GetLoadBalancer(p) /\ lb.ready) \/ WaitLoadBalancerReady(p)
  <2>1. /\ lb.ready /\ pc'[p] = "exec" /\ job'[p].view = Names(lb.pools)
        /\ job'[p].plan = job[p].plan /\ job'[p].svc = job[p].svc
    BY <1>4 DEF GetLoadBalancer, WaitLoadBalancerReady
  <2> QED
    BY <1>0, <2>1 DEF SInv
<1>5. CASE GetLoadBalancer(p) /\ ~lb.ready
  <2>1. pc'[p] = "wait" /\ job' = job
    BY <1>5 DEF GetLoadBalancer
  <2> QED
    BY <1>0, <2>1 DEF SInv
<1> QED
  BY <1>1, <1>2, <1>3, <1>4, <1>5

LEMMA ListPoolsSerial ==
  ASSUME IInv, NEW p \in Procs, SInv(p), ListLoadBalancerPools(p) PROVE SInv(p)'
<1> DEFINE ps == [i \in DOMAIN lb.pools |-> [lb.pools[i] EXCEPT !.members = {}]]
<1>1. job[p] \in Job /\ lb' = lb /\ OnePoolPerPort'
  BY DEF IInv, JobOK, ListLoadBalancerPools, SInv, OnePoolPerPort
<1>2. job'[p] = [job[p] EXCEPT !.pools = ps, !.unread = DOMAIN lb.pools]
  BY DEF ListLoadBalancerPools, IInv
<1>3. /\ job'[p].pools = ps /\ job'[p].unread = DOMAIN lb.pools
      /\ job'[p].view = job[p].view /\ job'[p].listeners = job[p].listeners
      /\ job'[p].plan = job[p].plan /\ job'[p].svc = job[p].svc
  BY <1>1, <1>2 DEF Job
<1>4. Read(lb.pools, job'[p])
  BY <1>3 DEF Read
<1>5. pc[p] = "pools" /\ pc'[p] = "members"
  BY DEF ListLoadBalancerPools, IInv, ControlOK
<1> QED
  BY <1>1, <1>3, <1>4, <1>5 DEF SInv

LEMMA ListMembersSerial ==
  ASSUME IInv, NEW p \in Procs, SInv(p), ListLoadBalancerPoolMembers(p) PROVE SInv(p)'
<1> DEFINE i    == Min(job[p].unread)
           read == [job[p].pools EXCEPT ![i].members = lb.pools[i].members]
<1>0. OnePoolPerPort' /\ lb' = lb
  BY DEF ListLoadBalancerPoolMembers, SInv, OnePoolPerPort
<1>1. CASE Finish(p, "error")
  BY <1>0, <1>1, FinishSerial
<1>2. CASE /\ i \in DOMAIN lb.pools
           /\ job' = [job EXCEPT ![p].pools[i].members = lb.pools[i].members,
                                 ![p].unread = @ \ {i}]
           /\ UNCHANGED <<pc, outcome>>
  <2>1. /\ job[p] \in Job /\ pc[p] = "members" /\ Read(lb.pools, job[p])
        /\ lb.pools \in PartialFcns(PoolIds, Pool)
    BY DEF IInv, JobOK, LoadBalancer, ListLoadBalancerPoolMembers, SInv
  <2>2. \A k \in DOMAIN lb.pools : lb.pools[k] \in Pool
    BY <2>1, PartialFcnDef
  <2> HIDE DEF i
  <2>3. job'[p] = [job[p] EXCEPT !.pools = read, !.unread = job[p].unread \ {i}]
    BY <1>2, <2>1 DEF IInv, Job
  <2> HIDE DEF read
  <2>4. /\ job'[p].pools = read /\ job'[p].unread = job[p].unread \ {i}
        /\ job'[p].view = job[p].view /\ job'[p].listeners = job[p].listeners
        /\ job'[p].plan = job[p].plan /\ job'[p].svc = job[p].svc
    BY <2>1, <2>3 DEF Job
  <2>5. DOMAIN read = DOMAIN lb.pools /\ \A k \in DOMAIN lb.pools \ {i} : read[k] = job[p].pools[k]
    BY <2>1 DEF read, Read
  <2>6. read[i] = lb.pools[i]
    <3>1. read[i] = [job[p].pools[i] EXCEPT !.members = lb.pools[i].members]
      BY <1>2, <2>1 DEF read, Read
    <3>2. lb.pools[i] \in Pool
      BY <1>2, <2>2
    <3>3. \/ job[p].pools[i] = [lb.pools[i] EXCEPT !.members = {}]
          \/ job[p].pools[i] = lb.pools[i]
      BY <1>2, <2>1 DEF Read
    <3> QED
      BY <3>1, <3>2, <3>3 DEF Pool
  <2>7. Read(lb.pools, job'[p])
    BY <2>1, <2>4, <2>5, <2>6 DEF Read
  <2> QED
    BY <1>0, <1>2, <2>1, <2>4, <2>7 DEF SInv
<1> QED
  BY <1>1, <1>2 DEF ListLoadBalancerPoolMembers

LEMMA PlanSerial ==
  ASSUME IInv, NEW p \in Procs, SInv(p), Plan(p) PROVE SInv(p)'
<1>0. /\ OnePoolPerPort' /\ lb' = lb /\ pc[p] = "members"
      /\ job[p].unread = {} /\ NamesParse(job[p].pools)
  BY DEF Plan, SInv, OnePoolPerPort
<1>1. CASE Finish(p, "ok")
  BY <1>0, <1>1, FinishSerial
<1>2. ASSUME ~Finish(p, "ok") PROVE SInv(p)'
  <2>1. PICK nodeList \in NodeLists(job[p]) :
          LET plan == UpdatesRequired(job[p].listeners, job[p].pools, job[p].svc, nodeList)
          IN  /\ pc' = [pc EXCEPT ![p] = "exec"]
              /\ job' = [job EXCEPT ![p].nodeList = nodeList, ![p].plan = plan,
                                    ![p].nodes = {}, ![p].listeners = Empty,
                                    ![p].pools = Empty]
    BY <1>2 DEF Plan
  <2>2. /\ job[p] \in Job /\ lb \in LoadBalancer /\ lb.pools \in PartialFcns(PoolIds, Pool)
        /\ job[p].svc \in Service /\ job[p].pools \in PartialFcns(PoolIds, Pool)
    BY DEF IInv, JobOK, LoadBalancer, Job
  <2>3. job[p].pools = lb.pools
    <3>1. /\ DOMAIN job[p].pools = DOMAIN lb.pools
          /\ \A i \in DOMAIN lb.pools : job[p].pools[i] = lb.pools[i]
      BY <1>0 DEF SInv, Read
    <3>2. /\ lb.pools \in [DOMAIN lb.pools -> Pool]
          /\ job[p].pools \in [DOMAIN job[p].pools -> Pool]
      BY <2>2, PartialFcnDef
    <3> QED
      BY <3>1, <3>2
  <2>4. job[p].listeners = lb.listeners /\ lb.ready /\ job[p].view = Names(lb.pools)
    BY <1>0 DEF SInv
  <2> DEFINE plan == UpdatesRequired(lb.listeners, lb.pools, job[p].svc, nodeList)
  <2>5. Fits(lb.listeners, lb.pools, plan, job[p].svc)
    BY <1>0, <2>2, <2>3, NewPlanFits DEF IInv, ListenerPoolMatch
  <2>6. /\ pc'[p] = "exec" /\ job'[p].plan = plan
        /\ job'[p].view = job[p].view /\ job'[p].svc = job[p].svc
    <3> HIDE DEF plan
    <3>1. job'[p] = [job[p] EXCEPT !.nodeList = nodeList, !.plan = plan, !.nodes = {},
                                   !.listeners = Empty, !.pools = Empty]
      BY <2>1, <2>3, <2>4 DEF IInv, plan
    <3>2. pc'[p] = "exec"
      BY <2>1 DEF IInv, ControlOK
    <3> QED
      BY <2>2, <3>1, <3>2 DEF Job
  <2> QED
    BY <1>0, <2>4, <2>5, <2>6 DEF SInv
<1> QED
  BY <1>1, <1>2

\* After an update the run knows the rest of the plan.
LEMMA ProcessedSerial ==
  ASSUME IInv, NEW p \in Procs, NEW u \in job[p].plan, Processed(p, u), OnePoolPerPort',
         Fits(lb'.listeners, lb'.pools, job[p].plan \ {u}, job[p].svc)
  PROVE  SInv(p)'
<1>1. CASE Finish(p, "ok")
  BY <1>1, FinishSerial
<1>2. CASE /\ pc' = [pc EXCEPT ![p] = "get"]
           /\ job' = [job EXCEPT ![p].plan = job[p].plan \ {u}, ![p].view = Empty]
  <2>1. job[p] \in Job
    BY DEF IInv, JobOK
  <2>2. pc'[p] = "get" /\ job'[p].plan = job[p].plan \ {u} /\ job'[p].svc = job[p].svc
    BY <1>2, <2>1 DEF IInv, ControlOK, Job
  <2> QED
    BY <2>2 DEF SInv
<1> QED
  BY <1>1, <1>2 DEF Processed

LEMMA ListenerOpsSerial ==
  ASSUME IInv, NEW p \in Procs, SInv(p), NEW u \in job[p].plan,
         deleteLoadBalancerListener(p, u) \/ createLoadBalancerListener(p, u)
  PROVE  SInv(p)'
<1> DEFINE plan == job[p].plan
           s    == job[p].svc
<1>1. lb \in LoadBalancer /\ Fits(lb.listeners, lb.pools, plan, s) /\ OnePoolPerPort
  BY DEF IInv, SInv
<1>2. CASE deleteLoadBalancerListener(p, u)
  <2>1. /\ Processed(p, u) /\ u.op = "DELETE-LISTENER" /\ lb'.pools = lb.pools
        /\ lb'.listeners = Restrict(lb.listeners, DOMAIN lb.listeners \ {u.id})
    BY <1>1, <1>2 DEF deleteLoadBalancerListener, DeleteLoadBalancerListener,
                      WithListeners, LoadBalancer
  <2>2. /\ DOMAIN lb'.listeners = DOMAIN lb.listeners \ {u.id}
        /\ \A l \in DOMAIN lb'.listeners : lb'.listeners[l] = lb.listeners[l]
    BY <2>1 DEF Restrict
  <2>3. Fits(lb'.listeners, lb'.pools, plan \ {u}, s)
    BY <1>1, <2>1, <2>2, DeleteListenerFits
  <2> QED
    BY <1>1, <2>1, <2>3, ProcessedSerial DEF OnePoolPerPort
<1>3. CASE createLoadBalancerListener(p, u)
  <2> DEFINE i == ListenerPool(p, u)
  <2>1. PICK l \in ListenerIds :
          FreshListener(l) /\ lb' = CreateLoadBalancerListener(lb, l, u.name, i)
    BY <1>3 DEF createLoadBalancerListener
  <2>2. /\ Processed(p, u) /\ u.op = "CREATE-LISTENER" /\ pc[p] = "exec"
        /\ i \in DOMAIN lb.pools
    BY <1>3 DEF createLoadBalancerListener, Processed, Accepts
  <2>3. lb.pools[i].name.port = u.name.port
    <3>1. job[p].view = Names(lb.pools)
      BY <2>2 DEF SInv
    <3>2. i # NoId
      BY <2>2, UpdateFacts, IdAssumption DEF IdAssumption, NoId
    <3>3. i \in DOMAIN job[p].view /\ job[p].view[i] = u.name
      BY <3>2 DEF ListenerPool
    <3> QED
      BY <2>2, <3>1, <3>3 DEF Names
  <2> HIDE DEF i
  <2> DEFINE new == [port |-> u.name.port, pool |-> i]
  <2>4. lb'.pools = lb.pools /\ lb'.listeners = Extend(lb.listeners, l, new)
    BY <1>1, <2>1 DEF CreateLoadBalancerListener, WithListeners, LoadBalancer
  <2>5. l \notin DOMAIN lb.listeners
    BY <2>1 DEF FreshListener
  <2>6. /\ DOMAIN lb'.listeners = DOMAIN lb.listeners \cup {l}
        /\ lb'.listeners[l] = new
        /\ \A k \in DOMAIN lb.listeners : lb'.listeners[k] = lb.listeners[k]
    BY <2>4, <2>5 DEF Extend
  <2>7. \A w \in plan : w.op = "DELETE-POOL" => lb.pools[w.id].name.port = w.name.port
    BY PlannedUpdate DEF PoolOps
  <2>8. Fits(lb'.listeners, lb'.pools, plan \ {u}, s)
    <3> HIDE DEF plan, s
    <3>1. u \in plan
      BY DEF plan
    <3>2. Fits(lb'.listeners, lb.pools, plan \ {u}, s)
      <4>1. lb'.listeners[l].port = u.name.port /\ lb.pools[lb'.listeners[l].pool].name.port = u.name.port
        BY <2>3, <2>6
      <4> HIDE DEF new
      <4> QED
        BY <1>1, <2>2, <2>5, <2>6, <2>7, <3>1, <4>1, CreateListenerFits
    <3> QED
      BY <2>4, <3>2
  <2> QED
    BY <1>1, <2>2, <2>4, <2>8, ProcessedSerial DEF OnePoolPerPort
<1> QED
  BY <1>2, <1>3

LEMMA MemberOpsSerial ==
  ASSUME IInv, NEW p \in Procs, SInv(p), NEW u \in job[p].plan,
         \/ deleteLoadBalancerPoolMember(p, u)
         \/ createLoadBalancerPoolMember(p, u)
         \/ replaceLoadBalancerPoolMembers(p, u)
  PROVE  SInv(p)'
<1> DEFINE plan == job[p].plan
           s    == job[p].svc
<1>1. lb \in LoadBalancer /\ Fits(lb.listeners, lb.pools, plan, s) /\ OnePoolPerPort
  BY DEF IInv, SInv
<1>2. /\ Processed(p, u) /\ u.op \in MemberOps \cup {"REPLACE-POOL-MEMBERS"}
      /\ u.id \in DOMAIN lb.pools
  BY DEF deleteLoadBalancerPoolMember, createLoadBalancerPoolMember,
         replaceLoadBalancerPoolMembers, Processed, Accepts, MemberOps
<1>3. \A i \in DOMAIN lb.pools : lb.pools[i] \in Pool
  BY UpdateFacts
<1>4. PICK ms : lb' = WithPools(lb, [lb.pools EXCEPT ![u.id].members = ms])
  <2>1. CASE deleteLoadBalancerPoolMember(p, u)
    BY <2>1 DEF deleteLoadBalancerPoolMember, DeleteLoadBalancerPoolMember
  <2>2. CASE createLoadBalancerPoolMember(p, u)
    BY <2>2 DEF createLoadBalancerPoolMember, CreateLoadBalancerPoolMember
  <2>3. CASE replaceLoadBalancerPoolMembers(p, u)
    BY <2>3 DEF replaceLoadBalancerPoolMembers, ReplaceLoadBalancerPoolMembers
  <2> QED
    BY <2>1, <2>2, <2>3
<1>5. /\ lb'.listeners = lb.listeners
      /\ lb'.pools = [lb.pools EXCEPT ![u.id].members = ms]
  BY <1>1, <1>4 DEF WithPools, LoadBalancer
<1>6. /\ DOMAIN lb'.pools = DOMAIN lb.pools
      /\ \A i \in DOMAIN lb.pools :
           /\ lb'.pools[i].name = lb.pools[i].name
           /\ i # u.id => lb'.pools[i].members = lb.pools[i].members
  BY <1>2, <1>3, <1>5 DEF Pool
<1>7. Fits(lb'.listeners, lb'.pools, plan \ {u}, s)
  BY <1>1, <1>2, <1>5, <1>6, MembersFit
<1>8. OnePoolPerPort'
  BY <1>1, <1>6 DEF OnePoolPerPort
<1> QED
  BY <1>2, <1>7, <1>8, ProcessedSerial

LEMMA UpdatePoolSerial ==
  ASSUME IInv, NEW p \in Procs, SInv(p), NEW u \in job[p].plan, updateLoadBalancerPool(p, u)
  PROVE  SInv(p)'
<1> DEFINE plan == job[p].plan
           s    == job[p].svc
           hm   == genLoadBalancerHealthMonitor(u.name.nodePort, getServiceHealthCheckNodePort(s))
<1>1. lb \in LoadBalancer /\ Fits(lb.listeners, lb.pools, plan, s) /\ OnePoolPerPort
  BY DEF IInv, SInv
<1>2. /\ Processed(p, u) /\ u.op = "UPDATE-POOL" /\ u.id \in DOMAIN lb.pools
      /\ lb.pools[u.id].name.port = u.name.port
  BY UpdateFacts DEF updateLoadBalancerPool, Processed, Accepts, PoolOps
<1>3. \A i \in DOMAIN lb.pools : lb.pools[i] \in Pool
  BY UpdateFacts
<1>4. /\ lb'.listeners = lb.listeners
      /\ lb'.pools = [lb.pools EXCEPT ![u.id].name = u.name, ![u.id].hm = hm]
  BY <1>1 DEF updateLoadBalancerPool, UpdateLoadBalancerPool, WithPools, LoadBalancer
<1> HIDE DEF hm
<1>5. /\ DOMAIN lb'.pools = DOMAIN lb.pools /\ lb'.pools[u.id].name = u.name
      /\ \A i \in DOMAIN lb.pools :
           /\ lb'.pools[i].members = lb.pools[i].members
           /\ i # u.id => lb'.pools[i].name = lb.pools[i].name
  BY <1>2, <1>3, <1>4 DEF Pool
<1>6. Fits(lb'.listeners, lb'.pools, plan \ {u}, s)
  BY <1>1, <1>2, <1>4, <1>5, UpdatePoolFits
<1>7. OnePoolPerPort'
  BY <1>1, <1>2, <1>5 DEF OnePoolPerPort
<1> QED
  BY <1>2, <1>6, <1>7, ProcessedSerial

LEMMA DeletePoolSerial ==
  ASSUME IInv, NEW p \in Procs, SInv(p), NEW u \in job[p].plan, deleteLoadBalancerPool(p, u)
  PROVE  SInv(p)'
<1> DEFINE plan == job[p].plan
           s    == job[p].svc
<1>1. lb \in LoadBalancer /\ Fits(lb.listeners, lb.pools, plan, s) /\ OnePoolPerPort
  BY DEF IInv, SInv
<1>2. /\ Processed(p, u) /\ u.op = "DELETE-POOL"
      /\ lb.pools[u.id].name.port = u.name.port
  BY PlannedUpdate DEF deleteLoadBalancerPool, PoolOps
<1>3. /\ lb'.listeners = lb.listeners
      /\ lb'.pools = Restrict(lb.pools, DOMAIN lb.pools \ {u.id})
  BY <1>1 DEF deleteLoadBalancerPool, DeleteLoadBalancerPool, WithPools, LoadBalancer
<1>4. /\ DOMAIN lb'.pools = DOMAIN lb.pools \ {u.id}
      /\ \A i \in DOMAIN lb'.pools : lb'.pools[i] = lb.pools[i]
  BY <1>3 DEF Restrict
<1>5. Fits(lb'.listeners, lb'.pools, plan \ {u}, s)
  BY <1>1, <1>2, <1>3, <1>4, DeletePoolFits
<1>6. OnePoolPerPort'
  BY <1>1, <1>4 DEF OnePoolPerPort
<1> QED
  BY <1>2, <1>5, <1>6, ProcessedSerial

LEMMA CreatePoolSerial ==
  ASSUME IInv, NEW p \in Procs, SInv(p), NEW u \in job[p].plan, createLoadBalancerPool(p, u)
  PROVE  SInv(p)'
<1> DEFINE plan == job[p].plan
           s    == job[p].svc
           pool == NewPool(u.name, job[p].nodeList, getServiceHealthCheckNodePort(s))
<1>1. lb \in LoadBalancer /\ Fits(lb.listeners, lb.pools, plan, s) /\ OnePoolPerPort
  BY DEF IInv, SInv
<1>2. Processed(p, u) /\ u.op = "CREATE-POOL"
  BY DEF createLoadBalancerPool
<1>3. PICK i \in PoolIds : FreshPool(i) /\ lb' = WithPools(lb, Extend(lb.pools, i, pool))
  BY DEF createLoadBalancerPool, CreateLoadBalancerPool
<1>4. pool.name = u.name
  BY DEF NewPool
<1> HIDE DEF pool
<1>5. lb'.listeners = lb.listeners /\ lb'.pools = Extend(lb.pools, i, pool)
  BY <1>1, <1>3 DEF WithPools, LoadBalancer
<1>6. i \notin DOMAIN lb.pools
  BY <1>3 DEF FreshPool
<1>7. /\ DOMAIN lb'.pools = DOMAIN lb.pools \cup {i} /\ lb'.pools[i].name = u.name
      /\ \A j \in DOMAIN lb.pools : lb'.pools[j] = lb.pools[j]
  BY <1>4, <1>5, <1>6 DEF Extend
<1>8. Fits(lb'.listeners, lb'.pools, plan \ {u}, s)
  BY <1>1, <1>2, <1>5, <1>6, <1>7, CreatePoolFits
<1>9. \A j \in DOMAIN lb.pools : lb.pools[j].name.port # u.name.port
  BY <1>2, PlannedUpdate DEF DueNow
<1>10. OnePoolPerPort'
  BY <1>1, <1>7, <1>9 DEF OnePoolPerPort
<1> QED
  BY <1>2, <1>8, <1>10, ProcessedSerial

LEMMA SerialStep ==
  ASSUME NEW p, Procs = {p}, UserPools = {}, IInv, SInv(p), [Next]_vars
  PROVE  SInv(p)'
<1>1. CASE EditService \/ ChangeNodes \/ UNCHANGED vars
  BY <1>1, UnchangedSerial DEF EditService, ChangeNodes, vars
<1>2. ~AddUserPool
  BY DEF AddUserPool
<1>3. CASE Settle
  BY <1>3, SettleSerial
<1>4. CASE Run(p)
  <2>1. CASE RefuseUpdate(p) \/ RefusePlan(p) \/ Rejected(p)
    <3>1. Finish(p, "error") /\ lb' = lb
      BY <2>1 DEF RefuseUpdate, RefusePlan, Rejected
    <3>2. OnePoolPerPort'
      BY <3>1 DEF SInv, OnePoolPerPort
    <3> QED
      BY <3>1, <3>2, FinishSerial
  <2>2. CASE \E u \in job[p].plan : Process(p, u)
    BY <2>2, ListenerOpsSerial, MemberOpsSerial, UpdatePoolSerial, DeletePoolSerial,
       CreatePoolSerial
    DEF Process
  <2> QED
    BY <1>4, <2>1, <2>2, ReadingSerial, ListPoolsSerial, ListMembersSerial, PlanSerial
    DEF Run
<1>5. CASE Fail(p)
  <2>1. Finish(p, "error") /\ lb' = lb
    BY <1>5 DEF Fail
  <2>2. OnePoolPerPort'
    BY <2>1 DEF SInv, OnePoolPerPort
  <2> QED
    BY <2>1, <2>2, FinishSerial
<1> QED
  BY <1>1, <1>2, <1>3, <1>4, <1>5 DEF Next

LEMMA SerialHolds ==
  ASSUME NEW p, Procs = {p}, UserPools = {} PROVE Spec => [](IInv /\ SInv(p))
<1>1. Init => IInv /\ SInv(p)
  BY IInvInit, SerialInit
<1>2. IInv /\ SInv(p) /\ [Next]_vars => IInv' /\ SInv(p)'
  BY IInvStep, SerialStep
<1> QED
  BY <1>1, <1>2, PTL DEF Spec

\* One process alone orders its updates so that the API has no reason to reject
\* one (rules 1 to 3 of UpdateLoadBalancer), whatever the load balancer looked
\* like after runs that failed half way.
THEOREM OrderIsRight ==
  ASSUME NEW p, Procs = {p}, UserPools = {} PROVE Spec => []NoUpdateRejected
<1>1. IInv /\ SInv(p) => NoUpdateRejected
  BY NextAccepted DEF NoUpdateRejected
<1> QED
  BY <1>1, SerialHolds, PTL

\* One process alone never makes a second pool for a port.
THEOREM OnePoolForAPort ==
  ASSUME NEW p, Procs = {p}, UserPools = {} PROVE Spec => []OnePoolPerPort
<1>1. SInv(p) => OnePoolPerPort
  BY DEF SInv
<1> QED
  BY <1>1, SerialHolds, PTL
=============================================================================
