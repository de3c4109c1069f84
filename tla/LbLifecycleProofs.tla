--------------------------- MODULE LbLifecycleProofs ---------------------------
(***************************************************************************)
(* What monitor never deletes, for every set of services and every number  *)
(* of edits and failures.  SteadyNotStale is not inductive: it speaks of   *)
(* the services that stayed of their type, but monitor decides from the    *)
(* list it read.  The invariant relates both to that list, and uses that   *)
(* the VPC API does not give the identifier of a load balancer monitor     *)
(* still wants to delete to a new one.                                     *)
(***************************************************************************)
EXTENDS LbLifecycle, TLAPS

Lb == [name : Services, status : Statuses]

LbsOK == DOMAIN lbs \subseteq LbIds /\ lbs \in [DOMAIN lbs -> Lb]

CommandsOK ==
  /\ pc \in [Services -> {"idle", "find", "create", "update", "delete"}]
  /\ cmd \in [Services -> {"create-lb", "delete-lb"}]
  /\ found \in [Services -> LbIds \cup {NoLb}]
  /\ \A s \in Services : found[s] = NoLb <=> pc[s] \notin {"update", "delete"}

MonitorOK ==
  monitor \in [pc : {"idle", "list", "clean"}, services : SUBSET Services,
               stale : SUBSET LbIds]

UsersOK ==
  /\ kube \in [Services -> Types]
  /\ late \subseteq Services
  /\ due \subseteq Services
  /\ steady \subseteq Services
  /\ raced \subseteq Services
  /\ events \in 0..MaxEvents

\* What monitor knows fits the services it read.
MonitorFits ==
  /\ steady \subseteq monitor.services
  /\ \A i \in monitor.stale \cap DOMAIN lbs : lbs[i].name \notin monitor.services

IInv == LbsOK /\ CommandsOK /\ MonitorOK /\ UsersOK /\ MonitorFits

LEMMA TypeParts == TypeOK <=> LbsOK /\ CommandsOK /\ MonitorOK /\ UsersOK
  BY DEF TypeOK, LbsOK, CommandsOK, MonitorOK, UsersOK, Lb

\* No load balancer that monitor will delete gets another name.
LbsKept ==
  \A i \in monitor.stale \cap DOMAIN lbs' : i \in DOMAIN lbs /\ lbs'[i].name = lbs[i].name

-----------------------------------------------------------------------------
(* Requests to the VPC API. *)

LEMMA CreateKeeps ==
  ASSUME LbsOK, NEW s \in Services, CreateRequest(s)
  PROVE  LbsOK' /\ LbsKept
<1>1. PICK i \in LbIds \ DOMAIN lbs :
         /\ i \notin monitor.stale
         /\ lbs' = [j \in DOMAIN lbs \cup {i} |->
                      IF j = i THEN [name |-> s, status |-> "create_pending"] ELSE lbs[j]]
  BY DEF CreateRequest
<1>2. DOMAIN lbs' = DOMAIN lbs \cup {i}
  BY <1>1
<1>3. [name |-> s, status |-> "create_pending"] \in Lb
  BY DEF Lb, Statuses
<1>4. LbsOK'
  BY <1>1, <1>2, <1>3 DEF LbsOK
<1>5. LbsKept
  BY <1>1, <1>2 DEF LbsKept
<1>6. QED
  BY <1>4, <1>5

LEMMA StatusKeeps ==
  ASSUME LbsOK, NEW i \in DOMAIN lbs, NEW st \in Statuses,
         lbs' = [lbs EXCEPT ![i].status = st]
  PROVE  LbsOK' /\ LbsKept
<1>1. DOMAIN lbs' = DOMAIN lbs
  OBVIOUS
<1>2. \A j \in DOMAIN lbs : lbs[j] \in Lb
  BY DEF LbsOK
<1>3. \A j \in DOMAIN lbs : lbs'[j] \in Lb /\ lbs'[j].name = lbs[j].name
  <2>1. [lbs[i] EXCEPT !.status = st] \in Lb /\ [lbs[i] EXCEPT !.status = st].name = lbs[i].name
    BY <1>2 DEF Lb
  <2>2. lbs'[i] = [lbs[i] EXCEPT !.status = st]
    OBVIOUS
  <2>3. \A j \in DOMAIN lbs \ {i} : lbs'[j] = lbs[j]
    OBVIOUS
  <2>4. QED
    BY <2>1, <2>2, <2>3, <1>2
<1>4. LbsOK'
  BY <1>1, <1>3 DEF LbsOK
<1>5. LbsKept
  BY <1>1, <1>3 DEF LbsKept
<1>6. QED
  BY <1>4, <1>5

LEMMA SameKeeps ==
  ASSUME LbsOK, UNCHANGED lbs
  PROVE  LbsOK' /\ LbsKept
  BY DEF LbsOK, LbsKept

LEMMA DeleteKeeps ==
  ASSUME LbsOK, NEW i, DeleteRequest(i)
  PROVE  LbsOK' /\ LbsKept
<1>1. CASE DeleteAccepted(i)
  BY <1>1, StatusKeeps DEF DeleteRequest, DeleteAccepted, Statuses
<1>2. CASE ~DeleteAccepted(i)
  BY <1>2, SameKeeps DEF DeleteRequest
<1>3. QED
  BY <1>1, <1>2

LEMMA RemoveKeeps ==
  ASSUME LbsOK, NEW i \in DOMAIN lbs, lbs' = Restrict(lbs, DOMAIN lbs \ {i})
  PROVE  LbsOK' /\ LbsKept
  BY DEF LbsOK, LbsKept, Restrict

-----------------------------------------------------------------------------
(* Steps of a command. *)

LEMMA FinishTyped ==
  ASSUME CommandsOK, NEW s \in Services, Finish(s)
  PROVE  CommandsOK'
  BY DEF CommandsOK, Finish, NoLb

LEMMA EndTyped ==
  ASSUME CommandsOK, due \subseteq Services, NEW s \in Services, Success(s) \/ Retry(s)
  PROVE  CommandsOK' /\ due' \subseteq Services
  BY FinishTyped DEF Success, Retry

LEMMA GotoTyped ==
  ASSUME CommandsOK, NEW s \in Services, NEW next, NEW i, Goto(s, next, i),
         \/ next = "create" /\ i = NoLb
         \/ next \in {"update", "delete"} /\ i \in LbIds
  PROVE  CommandsOK'
  BY LifecycleAssumption DEF CommandsOK, Goto, NoLb

\* A step that leaves monitor and what it knows alone.
LEMMA FitsKept ==
  ASSUME MonitorFits, LbsKept, UNCHANGED monitor, steady' \subseteq steady
  PROVE  MonitorFits'
  BY DEF MonitorFits, LbsKept

-----------------------------------------------------------------------------
LEMMA InitIInv == Init => IInv
<1> SUFFICES ASSUME Init PROVE IInv
  OBVIOUS
<1>1. LbsOK
  BY DEF Init, LbsOK
<1>2. CommandsOK
  BY DEF Init, CommandsOK, NoLb
<1>3. MonitorOK /\ MonitorFits
  BY DEF Init, MonitorOK, MonitorFits
<1>4. UsersOK
  BY LifecycleAssumption DEF Init, UsersOK, Types
<1>5. QED
  BY <1>1, <1>2, <1>3, <1>4 DEF IInv

LEMMA EventTyped ==
  ASSUME events \in 0..MaxEvents, Event
  PROVE  events' \in 0..MaxEvents
  BY LifecycleAssumption DEF Event

LEMMA CommandStep ==
  ASSUME IInv, NEW s \in Services, Command(s) \/ CreateTimesOut(s) \/ Fail(s)
  PROVE  IInv'
<1> USE DEF IInv
<1>0. due \subseteq Services
  BY DEF UsersOK
<1>1. ASSUME Start(s) PROVE IInv'
  <2>1. CommandsOK'
    BY <1>1 DEF CommandsOK, Start
  <2>2. LbsOK' /\ LbsKept
    BY <1>1, SameKeeps DEF Start
  <2>3. UsersOK' /\ MonitorOK'
    BY <1>1 DEF UsersOK, MonitorOK, Start, user
  <2>4. MonitorFits'
    BY <1>1, <2>2, FitsKept DEF Start, user
  <2>5. QED
    BY <2>1, <2>2, <2>3, <2>4
<1>2. ASSUME FindLoadBalancer(s) PROVE IInv'
  <2>1. CommandsOK' /\ due' \subseteq Services
    <3>1. CASE Success(s) \/ Retry(s)
      BY <3>1, <1>0, EndTyped
    <3>2. CASE \E i \in Named(s) : Goto(s, "update", i) \/ Goto(s, "delete", i)
      BY <3>2, <1>0, GotoTyped DEF Named, LbsOK, Goto
    <3>3. CASE Goto(s, "create", NoLb)
      BY <3>3, <1>0, GotoTyped DEF Goto
    <3>4. QED
      BY <1>2, <3>1, <3>2, <3>3 DEF FindLoadBalancer
  <2>2. LbsOK' /\ LbsKept
    BY <1>2, SameKeeps DEF FindLoadBalancer
  <2>3. UsersOK' /\ MonitorOK'
    BY <1>2, <2>1 DEF UsersOK, MonitorOK, FindLoadBalancer, user
  <2>4. MonitorFits'
    BY <1>2, <2>2, FitsKept DEF FindLoadBalancer, user
  <2>5. QED
    BY <2>1, <2>2, <2>3, <2>4
<1>3. ASSUME CreateLoadBalancer(s) PROVE IInv'
  <2>1. CommandsOK' /\ due' \subseteq Services
    BY <1>0, <1>3, EndTyped DEF CreateLoadBalancer
  <2>2. LbsOK' /\ LbsKept
    BY <1>3, CreateKeeps, SameKeeps DEF CreateLoadBalancer
  <2>3. UsersOK' /\ MonitorOK'
    BY <1>3, <2>1 DEF UsersOK, MonitorOK, CreateLoadBalancer, user
  <2>4. MonitorFits'
    BY <1>3, <2>2, FitsKept DEF CreateLoadBalancer, user
  <2>5. QED
    BY <2>1, <2>2, <2>3, <2>4
<1>4. ASSUME UpdateLoadBalancer(s) PROVE IInv'
  <2>1. CommandsOK' /\ due' \subseteq Services
    BY <1>0, <1>4, EndTyped DEF UpdateLoadBalancer
  <2>2. LbsOK' /\ LbsKept
    <3>1. CASE UNCHANGED lbs
      BY <3>1, SameKeeps
    <3>2. CASE /\ found[s] \in DOMAIN lbs
               /\ lbs' = [lbs EXCEPT ![found[s]].status = "update_pending"]
      BY <3>2, StatusKeeps DEF Statuses
    <3>3. QED
      BY <1>4, <3>1, <3>2 DEF UpdateLoadBalancer
  <2>3. UsersOK' /\ MonitorOK'
    BY <1>4, <2>1 DEF UsersOK, MonitorOK, UpdateLoadBalancer, user
  <2>4. MonitorFits'
    BY <1>4, <2>2, FitsKept DEF UpdateLoadBalancer, user
  <2>5. QED
    BY <2>1, <2>2, <2>3, <2>4
<1>5. ASSUME DeleteLoadBalancer(s) PROVE IInv'
  <2>1. CommandsOK' /\ due' \subseteq Services
    BY <1>0, <1>5, EndTyped DEF DeleteLoadBalancer
  <2>2. LbsOK' /\ LbsKept
    BY <1>5, DeleteKeeps DEF DeleteLoadBalancer
  <2>3. UsersOK' /\ MonitorOK'
    BY <1>5, <2>1 DEF UsersOK, MonitorOK, DeleteLoadBalancer, user
  <2>4. MonitorFits'
    BY <1>5, <2>2, FitsKept DEF DeleteLoadBalancer, user
  <2>5. QED
    BY <2>1, <2>2, <2>3, <2>4
<1>6. ASSUME CreateTimesOut(s) \/ Fail(s) PROVE IInv'
  <2>1. CommandsOK' /\ due' \subseteq Services
    BY <1>0, <1>6, EndTyped DEF CreateTimesOut, Fail
  <2>2. LbsOK' /\ LbsKept
    BY <1>6, SameKeeps DEF CreateTimesOut, Fail
  <2>3. UsersOK' /\ MonitorOK'
    BY <1>6, <2>1, EventTyped DEF UsersOK, MonitorOK, CreateTimesOut, Fail, user
  <2>4. MonitorFits'
    BY <1>6, <2>2, FitsKept DEF CreateTimesOut, Fail, user
  <2>5. QED
    BY <2>1, <2>2, <2>3, <2>4
<1>7. QED
  BY <1>1, <1>2, <1>3, <1>4, <1>5, <1>6 DEF Command

LEMMA WorldStep ==
  ASSUME IInv,
         \/ \E s \in Services : SetService(s)
         \/ LoadBalancerFails \/ Settle \/ LateCreate
  PROVE  IInv'
<1> USE DEF IInv
<1>1. ASSUME NEW s \in Services, SetService(s) PROVE IInv'
  <2>1. CommandsOK' /\ MonitorOK'
    BY <1>1 DEF SetService, run, CommandsOK, MonitorOK
  <2>2. LbsOK' /\ LbsKept
    BY <1>1, SameKeeps DEF SetService
  <2>3. UsersOK'
    BY <1>1, EventTyped DEF UsersOK, SetService
  <2>4. MonitorFits'
    BY <1>1, <2>2, FitsKept DEF SetService
  <2>5. QED
    BY <2>1, <2>2, <2>3, <2>4
<1>2. ASSUME LoadBalancerFails \/ Settle \/ LateCreate PROVE IInv'
  <2>1. CommandsOK' /\ MonitorOK'
    BY <1>2 DEF LoadBalancerFails, Settle, LateCreate, run, CommandsOK, MonitorOK
  <2>2. LbsOK' /\ LbsKept
    <3>1. CASE LoadBalancerFails
      BY <3>1, StatusKeeps DEF LoadBalancerFails, Statuses
    <3>2. CASE Settle
      BY <3>2, StatusKeeps, RemoveKeeps DEF Settle, Statuses
    <3>3. CASE LateCreate
      BY <3>3, CreateKeeps, SameKeeps DEF LateCreate, UsersOK
    <3>4. QED
      BY <1>2, <3>1, <3>2, <3>3
  <2>3. UsersOK'
    BY <1>2, EventTyped DEF UsersOK, LoadBalancerFails, Settle, LateCreate, user
  <2>4. MonitorFits'
    BY <1>2, <2>2, FitsKept DEF LoadBalancerFails, Settle, LateCreate, user
  <2>5. QED
    BY <2>1, <2>2, <2>3, <2>4
<1>3. QED
  BY <1>1, <1>2

LEMMA MonitorStep ==
  ASSUME IInv, Monitor \/ MonitorFails
  PROVE  IInv'
<1> USE DEF IInv
<1>1. CommandsOK'
  BY DEF Monitor, MonitorListServices, MonitorListLoadBalancers, MonitorDelete,
         MonitorFails, run, CommandsOK
<1>2. LbsOK' /\ LbsKept
  BY SameKeeps, DeleteKeeps
     DEF Monitor, MonitorListServices, MonitorListLoadBalancers, MonitorDelete, MonitorFails
<1>3. Idle.services = {} /\ Idle.stale = {}
      /\ Idle \in [pc : {"idle", "list", "clean"}, services : SUBSET Services, stale : SUBSET LbIds]
  BY DEF Idle
<1>4. ASSUME MonitorListServices PROVE MonitorOK' /\ UsersOK' /\ MonitorFits'
  BY <1>4 DEF MonitorListServices, KubeServices, MonitorOK, UsersOK, MonitorFits
<1>5. ASSUME MonitorListLoadBalancers PROVE MonitorOK' /\ UsersOK' /\ MonitorFits'
  <2>1. StaleLbs(monitor.services) \subseteq LbIds
    BY DEF StaleLbs, LbsOK
  <2>2. CASE StaleLbs(monitor.services) = {}
    BY <1>5, <1>3, <2>2 DEF MonitorListLoadBalancers, MonitorOK, UsersOK, MonitorFits
  <2>3. CASE StaleLbs(monitor.services) # {}
    <3>1. monitor' = [monitor EXCEPT !.pc = "clean", !.stale = StaleLbs(monitor.services)]
          /\ steady' = steady
      BY <1>5, <2>3 DEF MonitorListLoadBalancers
    <3>2. MonitorOK' /\ monitor'.services = monitor.services
          /\ monitor'.stale = StaleLbs(monitor.services)
      BY <3>1, <2>1 DEF MonitorOK
    <3>3. UsersOK'
      BY <1>5, <3>1 DEF MonitorListLoadBalancers, UsersOK
    <3>4. lbs' = lbs
      BY <1>5 DEF MonitorListLoadBalancers
    <3>5. MonitorFits'
      BY <3>1, <3>2, <3>4 DEF MonitorFits, StaleLbs
    <3>6. QED
      BY <3>2, <3>3, <3>5
  <2>4. QED
    BY <2>2, <2>3
<1>6. ASSUME MonitorDelete PROVE MonitorOK' /\ UsersOK' /\ MonitorFits'
  <2>1. PICK i \in monitor.stale :
          /\ monitor' = IF monitor.stale \ {i} = {} THEN Idle
                        ELSE [monitor EXCEPT !.stale = monitor.stale \ {i}]
          /\ steady' = IF monitor.stale \ {i} = {} THEN {} ELSE steady
    BY <1>6 DEF MonitorDelete
  <2>2. UsersOK'
    <3>1. raced' = raced \/ \E j \in DOMAIN lbs : raced' = raced \cup {lbs[j].name}
      BY <1>6 DEF MonitorDelete, DeleteAccepted
    <3>2. \A j \in DOMAIN lbs : lbs[j].name \in Services
      BY DEF LbsOK, Lb
    <3>3. QED
      BY <1>6, <2>1, <3>1, <3>2 DEF MonitorDelete, UsersOK
  <2>3. CASE monitor.stale \ {i} = {}
    BY <1>3, <2>1, <2>2, <2>3 DEF MonitorOK, MonitorFits
  <2>4. CASE monitor.stale \ {i} # {}
    <3>1. MonitorOK' /\ monitor'.services = monitor.services
          /\ monitor'.stale = monitor.stale \ {i} /\ steady' = steady
      BY <2>1, <2>4 DEF MonitorOK
    <3>2. MonitorFits'
      BY <1>2, <3>1 DEF MonitorFits, LbsKept
    <3>3. QED
      BY <2>2, <3>1, <3>2
  <2>5. QED
    BY <2>3, <2>4
<1>7. ASSUME MonitorFails PROVE MonitorOK' /\ UsersOK' /\ MonitorFits'
  BY <1>3, <1>7, EventTyped DEF MonitorFails, MonitorOK, UsersOK, MonitorFits
<1>8. QED
  BY <1>1, <1>2, <1>4, <1>5, <1>6, <1>7 DEF Monitor

LEMMA StutterStep ==
  ASSUME IInv, UNCHANGED vars
  PROVE  IInv'
  BY DEF IInv, vars, LbsOK, CommandsOK, MonitorOK, UsersOK, MonitorFits

LEMMA Invariance == Spec => []IInv
<1>1. IInv /\ [Next]_vars => IInv'
  BY CommandStep, WorldStep, MonitorStep, StutterStep DEF Next
<1>2. QED
  BY InitIInv, <1>1, PTL DEF Spec

-----------------------------------------------------------------------------
\* The state of the commands, of monitor and of the VPC API has its type, and
\* no command uses a load balancer it did not find.
THEOREM LifecycleTypeCorrect == Spec => []TypeOK
<1>1. IInv => TypeOK
  BY TypeParts DEF IInv
<1>2. QED
  BY Invariance, <1>1, PTL

\* monitor deletes no load balancer of a service that was a LoadBalancer or
\* NodePort service all the time since monitor read the services.
THEOREM MonitorSparesSteadyServices == Spec => []SteadyNotStale
<1>1. IInv => SteadyNotStale
  BY DEF IInv, MonitorFits, SteadyNotStale
<1>2. QED
  BY Invariance, <1>1, PTL

-----------------------------------------------------------------------------
(* Nobody is forgotten. *)

Alive(s) == {i \in Named(s) : Status(i) # "delete_pending"}

\* A command found the load balancer of its own service.
FoundOwn ==
  \A s \in Services : found[s] \in DOMAIN lbs => lbs[found[s]].name = s

\* A LoadBalancer service that vpcctl will not be called for has a load balancer,
\* or create-lb runs for it and has not finished.
Remembered(s) ==
  kube[s] = "LoadBalancer" /\ s \notin raced /\ s \notin due =>
    /\ pc[s] # "idle" => cmd[s] = "create-lb" /\ pc[s] # "delete"
    /\ pc[s] = "update" => found[s] \in Alive(s)
    /\ pc[s] = "idle" => Alive(s) # {}

RInv == FoundOwn /\ \A s \in Services : Remembered(s)

\* The load balancers that are there keep their names, and none that a command
\* found comes back under another.
NamesKept ==
  \A i \in DOMAIN lbs' : \/ i \in DOMAIN lbs /\ lbs'[i].name = lbs[i].name
                         \/ \A t \in Services : found[t] # i

AllAliveKept == \A t \in Services : Alive(t) \subseteq Alive(t)'

LEMMA CreateAlive ==
  ASSUME LbsOK, NEW s \in Services, CreateRequest(s)
  PROVE  NamesKept /\ AllAliveKept /\ Alive(s)' # {}
<1>1. PICK i \in LbIds \ DOMAIN lbs :
         /\ \A t \in Services : found[t] # i
         /\ lbs' = [j \in DOMAIN lbs \cup {i} |->
                      IF j = i THEN [name |-> s, status |-> "create_pending"] ELSE lbs[j]]
  BY DEF CreateRequest
<1>2. /\ DOMAIN lbs' = DOMAIN lbs \cup {i}
      /\ lbs'[i].name = s /\ lbs'[i].status = "create_pending"
      /\ \A j \in DOMAIN lbs : lbs'[j] = lbs[j]
  BY <1>1
<1>3. i \in Alive(s)'
  BY <1>2 DEF Alive, Named, Status
<1> QED
  BY <1>1, <1>2, <1>3 DEF NamesKept, AllAliveKept, Alive, Named, Status

LEMMA StatusAlive ==
  ASSUME LbsOK, NEW i \in DOMAIN lbs, NEW st, lbs' = [lbs EXCEPT ![i].status = st]
  PROVE  /\ NamesKept
         /\ \A t \in Services : st # "delete_pending" \/ lbs[i].name # t =>
              Alive(t) \subseteq Alive(t)'
<1>1. lbs[i] \in Lb
  BY DEF LbsOK
<1>2. /\ DOMAIN lbs' = DOMAIN lbs
      /\ lbs'[i].name = lbs[i].name /\ lbs'[i].status = st
      /\ \A j \in DOMAIN lbs \ {i} : lbs'[j] = lbs[j]
  BY <1>1 DEF Lb
<1> QED
  BY <1>2 DEF NamesKept, Alive, Named, Status

\* A load balancer that gets another status than delete_pending stays alive.
LEMMA LiveStatusAlive ==
  ASSUME LbsOK, NEW i \in DOMAIN lbs, NEW st \in {"update_pending", "active", "failed"},
         lbs' = [lbs EXCEPT ![i].status = st]
  PROVE  NamesKept /\ AllAliveKept
<1>1. st # "delete_pending"
  OBVIOUS
<1>2. NamesKept /\ \A t \in Services : st # "delete_pending" \/ lbs[i].name # t =>
                                        Alive(t) \subseteq Alive(t)'
  BY StatusAlive
<1> QED
  BY <1>1, <1>2 DEF AllAliveKept

LEMMA DeleteAlive ==
  ASSUME LbsOK, NEW i, DeleteRequest(i)
  PROVE  /\ NamesKept
         /\ \A t \in Services : ~(DeleteAccepted(i) /\ lbs[i].name = t) =>
              Alive(t) \subseteq Alive(t)'
<1>1. CASE DeleteAccepted(i)
  <2>1. i \in DOMAIN lbs /\ lbs' = [lbs EXCEPT ![i].status = "delete_pending"]
    BY <1>1 DEF DeleteRequest, DeleteAccepted
  <2> QED
    BY <1>1, <2>1, StatusAlive
<1>2. CASE ~DeleteAccepted(i)
  <2>1. lbs' = lbs
    BY <1>2 DEF DeleteRequest
  <2> QED
    BY <2>1 DEF NamesKept, Alive, Named, Status
<1> QED
  BY <1>1, <1>2

LEMMA SameAlive == ASSUME UNCHANGED lbs PROVE NamesKept /\ AllAliveKept
  BY DEF NamesKept, AllAliveKept, Alive, Named, Status

\* A load balancer is removed only when it is being deleted.
LEMMA RemoveAlive ==
  ASSUME NEW i \in DOMAIN lbs, Status(i) = "delete_pending", lbs' = Restrict(lbs, DOMAIN lbs \ {i})
  PROVE  NamesKept /\ AllAliveKept
<1>1. DOMAIN lbs' = DOMAIN lbs \ {i} /\ \A j \in DOMAIN lbs' : lbs'[j] = lbs[j]
  BY DEF Restrict
<1> QED
  BY <1>1 DEF NamesKept, AllAliveKept, Alive, Named, Status

\* A step that leaves service t and the command for it alone.
LEMMA StillRemembered ==
  ASSUME NEW t \in Services, Remembered(t), Alive(t) \subseteq Alive(t)',
         pc'[t] = pc[t], cmd'[t] = cmd[t], found'[t] = found[t], kube'[t] = kube[t],
         t \in due => t \in due', t \in raced => t \in raced'
  PROVE  Remembered(t)'
  BY DEF Remembered

LEMMA StillOwn ==
  ASSUME FoundOwn, LbsOK, NamesKept,
         \A s \in Services : \/ found'[s] = found[s] \/ found'[s] = NoLb
                             \/ found'[s] \in Named(s) /\ UNCHANGED lbs,
         LbsOK'
  PROVE  FoundOwn'
<1>1. NoLb \notin DOMAIN lbs'
  BY LifecycleAssumption DEF LbsOK, NoLb
<1> QED
  BY <1>1 DEF FoundOwn, NamesKept, Named

\* What the command for one service does leaves the others alone.
LEMMA OthersRemembered ==
  ASSUME IInv, RInv, NEW s \in Services, Command(s) \/ CreateTimesOut(s) \/ Fail(s),
         NEW t \in Services \ {s}
  PROVE  Remembered(t)'
<1> USE DEF IInv, CommandsOK
<1>1. /\ pc'[t] = pc[t] /\ cmd'[t] = cmd[t] /\ found'[t] = found[t]
      /\ kube' = kube /\ raced' = raced /\ (t \in due => t \in due')
  BY DEF Command, Start, FindLoadBalancer, CreateLoadBalancer, UpdateLoadBalancer,
         DeleteLoadBalancer, CreateTimesOut, Fail, Goto, Success, Retry, Finish, user
<1>2. Alive(t) \subseteq Alive(t)'
  <2>1. CASE UNCHANGED lbs
    BY <2>1, SameAlive DEF AllAliveKept
  <2>2. CASE CreateRequest(s)
    BY <2>2, CreateAlive DEF AllAliveKept
  <2>3. CASE UpdateLoadBalancer(s) /\ lbs' # lbs
    <3>1. found[s] \in DOMAIN lbs /\ lbs' = [lbs EXCEPT ![found[s]].status = "update_pending"]
      BY <2>3 DEF UpdateLoadBalancer
    <3> QED
      BY <3>1, LiveStatusAlive DEF AllAliveKept
  <2>4. CASE DeleteLoadBalancer(s)
    <3>1. DeleteRequest(found[s])
      BY <2>4 DEF DeleteLoadBalancer
    <3>2. DeleteAccepted(found[s]) => lbs[found[s]].name = s
      BY DEF RInv, FoundOwn, DeleteAccepted
    <3> QED
      BY <3>1, <3>2, DeleteAlive
  <2> QED
    BY <2>1, <2>2, <2>3, <2>4 DEF Command, Start, FindLoadBalancer, CreateLoadBalancer,
       UpdateLoadBalancer, CreateTimesOut, Fail
<1> QED
  BY <1>1, <1>2, StillRemembered DEF RInv

\* The command for a service ends when it has its load balancer, or is due again.
LEMMA OwnRemembered ==
  ASSUME IInv, RInv, NEW s \in Services, Command(s) \/ CreateTimesOut(s) \/ Fail(s)
  PROVE  Remembered(s)'
<1> USE DEF IInv, CommandsOK
<1>1. CASE Retry(s)
  <2>1. s \in due'
    BY <1>1 DEF Retry
  <2> QED
    BY <2>1 DEF Remembered
<1>2. kube' = kube /\ raced' = raced
  BY DEF Command, Start, FindLoadBalancer, CreateLoadBalancer, UpdateLoadBalancer,
         DeleteLoadBalancer, CreateTimesOut, Fail, user
<1>3. Remembered(s)
  BY DEF RInv
<1>4. CASE Start(s)
  BY <1>2, <1>4 DEF Start, Remembered
<1>5. ASSUME Success(s) PROVE pc'[s] = "idle" /\ due' = due
  BY <1>5 DEF Success, Finish
<1>6. CASE FindLoadBalancer(s)
  <2>1. pc[s] = "find" /\ lbs' = lbs
    BY <1>6 DEF FindLoadBalancer
  <2>2. \A t : Alive(t)' = Alive(t)
    BY <2>1 DEF Alive, Named, Status
  <2>3. CASE cmd[s] = "create-lb" /\ Goto(s, "create", NoLb)
    BY <1>2, <1>3, <2>1, <2>3 DEF Goto, Remembered
  <2>4. CASE cmd[s] = "delete-lb" /\ (Success(s) \/ \E i \in Named(s) : Goto(s, "delete", i))
    <3>1. due' = due
      BY <2>4, <1>5 DEF Goto
    <3>2. ~(kube[s] = "LoadBalancer" /\ s \notin raced /\ s \notin due)
      BY <1>3, <2>1, <2>4 DEF Remembered
    <3> QED
      BY <1>2, <3>1, <3>2 DEF Remembered
  <2>5. ASSUME NEW i \in Named(s), Status(i) = "active", Goto(s, "update", i), cmd[s] = "create-lb"
        PROVE  Remembered(s)'
    <3>1. i \in Alive(s)'
      BY <2>2, <2>5 DEF Alive
    <3>2. pc'[s] = "update" /\ found'[s] = i /\ cmd'[s] = "create-lb"
      BY <2>5 DEF Goto
    <3> QED
      BY <3>1, <3>2 DEF Remembered
  <2> QED
    BY <1>1, <1>6, <2>3, <2>4, <2>5 DEF FindLoadBalancer
<1>7. CASE CreateLoadBalancer(s) /\ ~Retry(s)
  <2>1. CreateRequest(s) /\ Success(s)
    BY <1>7 DEF CreateLoadBalancer
  <2>2. Alive(s)' # {}
    BY <2>1, CreateAlive
  <2> QED
    BY <1>5, <2>1, <2>2 DEF Remembered
<1>8. CASE UpdateLoadBalancer(s) /\ ~Retry(s)
  <2>1. pc[s] = "update" /\ Success(s)
    BY <1>8 DEF UpdateLoadBalancer
  <2>2. Alive(s) \subseteq Alive(s)'
    <3>1. CASE UNCHANGED lbs
      BY <3>1, SameAlive DEF AllAliveKept
    <3>2. CASE lbs' # lbs
      <4>1. found[s] \in DOMAIN lbs /\ lbs' = [lbs EXCEPT ![found[s]].status = "update_pending"]
        BY <1>8, <3>2 DEF UpdateLoadBalancer
      <4> QED
        BY <4>1, LiveStatusAlive DEF AllAliveKept
    <3> QED
      BY <3>1, <3>2
  <2> QED
    BY <1>2, <1>3, <1>5, <2>1, <2>2 DEF Remembered
<1>9. CASE DeleteLoadBalancer(s) /\ ~Retry(s)
  <2>1. pc[s] = "delete" /\ Success(s)
    BY <1>9 DEF DeleteLoadBalancer
  <2>2. ~(kube[s] = "LoadBalancer" /\ s \notin raced /\ s \notin due)
    BY <1>3, <2>1 DEF Remembered
  <2> QED
    BY <1>2, <1>5, <2>1, <2>2 DEF Remembered
<1> QED
  BY <1>1, <1>4, <1>6, <1>7, <1>8, <1>9 DEF Command, CreateTimesOut, Fail

LEMMA CommandOwn ==
  ASSUME IInv, IInv', RInv, NEW s \in Services, Command(s) \/ CreateTimesOut(s) \/ Fail(s)
  PROVE  FoundOwn'
<1> USE DEF IInv, CommandsOK
<1>1. \A t \in Services : \/ found'[t] = found[t] \/ found'[t] = NoLb
                          \/ found'[t] \in Named(t) /\ UNCHANGED lbs
  BY DEF Command, Start, FindLoadBalancer, CreateLoadBalancer, UpdateLoadBalancer,
         DeleteLoadBalancer, CreateTimesOut, Fail, Goto, Success, Retry, Finish
<1>2. NamesKept
  <2>1. CASE UNCHANGED lbs \/ CreateRequest(s)
    BY <2>1, SameAlive, CreateAlive
  <2>2. CASE UpdateLoadBalancer(s) /\ lbs' # lbs
    BY <2>2, StatusAlive DEF UpdateLoadBalancer
  <2>3. CASE DeleteLoadBalancer(s)
    BY <2>3, DeleteAlive DEF DeleteLoadBalancer
  <2> QED
    BY <2>1, <2>2, <2>3 DEF Command, Start, FindLoadBalancer, CreateLoadBalancer,
       UpdateLoadBalancer, CreateTimesOut, Fail
<1> QED
  BY <1>1, <1>2, StillOwn DEF RInv

\* The steps of users, of the VPC service and of monitor.
LEMMA WorldRemembers ==
  ASSUME IInv, IInv', RInv,
         \/ \E s \in Services : SetService(s)
         \/ LoadBalancerFails \/ Settle \/ LateCreate \/ Monitor \/ MonitorFails
         \/ UNCHANGED vars
  PROVE  RInv'
<1> USE DEF IInv, UsersOK
<1>1. UNCHANGED run
  BY DEF SetService, LoadBalancerFails, Settle, LateCreate, Monitor, MonitorListServices,
         MonitorListLoadBalancers, MonitorDelete, MonitorFails, run, vars
<1>2. ASSUME NamesKept, AllAliveKept, UNCHANGED <<kube, due>>, raced \subseteq raced'
      PROVE  RInv'
  <2>1. FoundOwn'
    BY <1>1, <1>2, StillOwn DEF RInv, run
  <2>2. ASSUME NEW t \in Services PROVE Remembered(t)'
    BY <1>1, <1>2, StillRemembered DEF RInv, run, AllAliveKept
  <2> QED
    BY <2>1, <2>2 DEF RInv
<1>3. ASSUME NEW s \in Services, SetService(s) PROVE RInv'
  <2>1. NamesKept /\ AllAliveKept
    BY <1>3, SameAlive DEF SetService
  <2>2. FoundOwn'
    BY <1>1, <2>1, StillOwn DEF RInv, run
  <2>3. ASSUME NEW t \in Services PROVE Remembered(t)'
    <3>1. CASE t = s
      BY <1>3, <3>1 DEF SetService, Remembered
    <3>2. CASE t # s
      <4>1. kube'[t] = kube[t] /\ (t \in due => t \in due') /\ (t \in raced => t \in raced')
        BY <1>3, <3>2 DEF SetService
      <4> QED
        BY <1>1, <2>1, <4>1, StillRemembered DEF RInv, run, AllAliveKept
    <3> QED
      BY <3>1, <3>2
  <2> QED
    BY <2>2, <2>3 DEF RInv
<1>4. CASE LoadBalancerFails
  <2>1. PICK i \in DOMAIN lbs : lbs' = [lbs EXCEPT ![i].status = "failed"]
    BY <1>4 DEF LoadBalancerFails
  <2>2. NamesKept /\ AllAliveKept
    BY <2>1, LiveStatusAlive
  <2> QED
    BY <1>2, <1>4, <2>2 DEF LoadBalancerFails, user
<1>5. CASE Settle
  <2>1. PICK i \in DOMAIN lbs :
          \/ lbs' = [lbs EXCEPT ![i].status = "active"]
          \/ Status(i) = "delete_pending" /\ lbs' = Restrict(lbs, DOMAIN lbs \ {i})
    BY <1>5 DEF Settle
  <2>2. NamesKept /\ AllAliveKept
    BY <2>1, LiveStatusAlive, RemoveAlive
  <2> QED
    BY <1>2, <1>5, <2>2 DEF Settle, user
<1>6. CASE LateCreate
  <2>1. \E s \in Services : CreateRequest(s) \/ UNCHANGED lbs
    BY <1>6 DEF LateCreate
  <2>2. NamesKept /\ AllAliveKept
    BY <2>1, CreateAlive, SameAlive
  <2> QED
    BY <1>2, <1>6, <2>2 DEF LateCreate, user
<1>7. CASE MonitorListServices \/ MonitorListLoadBalancers \/ MonitorFails \/ UNCHANGED vars
  BY <1>2, <1>7, SameAlive DEF MonitorListServices, MonitorListLoadBalancers, MonitorFails, vars
<1>8. CASE MonitorDelete
  <2>1. PICK i \in monitor.stale :
          /\ DeleteRequest(i)
          /\ raced' = IF DeleteAccepted(i) /\ Monitored(kube[lbs[i].name])
                      THEN raced \cup {lbs[i].name} ELSE raced
    BY <1>8 DEF MonitorDelete
  <2>2. NamesKept /\ UNCHANGED <<kube, due>>
    BY <1>8, <2>1, DeleteAlive DEF MonitorDelete
  <2>3. ASSUME NEW t \in Services PROVE Remembered(t)'
    <3>1. CASE DeleteAccepted(i) /\ lbs[i].name = t
      <4>1. kube[t] = "LoadBalancer" => t \in raced'
        BY <2>1, <3>1 DEF Monitored
      <4> QED
        BY <2>2, <4>1 DEF Remembered
    <3>2. CASE ~(DeleteAccepted(i) /\ lbs[i].name = t)
      <4>1. Alive(t) \subseteq Alive(t)'
        BY <2>1, <3>2, DeleteAlive
      <4> QED
        BY <1>1, <2>1, <2>2, <4>1, StillRemembered DEF RInv, run
    <3> QED
      BY <3>1, <3>2
  <2>4. FoundOwn'
    BY <1>1, <2>2, StillOwn DEF RInv, run
  <2> QED
    BY <2>3, <2>4 DEF RInv
<1> QED
  BY <1>3, <1>4, <1>5, <1>6, <1>7, <1>8 DEF Monitor

\* Before the first step vpcctl is due for every LoadBalancer service.
LEMMA InitRemembers == Init => RInv
<1> SUFFICES ASSUME Init PROVE RInv
  OBVIOUS
<1>1. FoundOwn
  BY DEF Init, FoundOwn
<1>2. ASSUME NEW s \in Services PROVE Remembered(s)
  BY DEF Init, Remembered
<1> QED
  BY <1>1, <1>2 DEF RInv

\* Every LoadBalancer service has a load balancer that is not being deleted, or
\* create-lb runs for it or will; unless monitor deleted it by mistake.
THEOREM NobodyIsForgotten == Spec => []NobodyForgotten
<1>1. IInv /\ IInv' /\ RInv /\ [Next]_vars => RInv'
  <2> SUFFICES ASSUME IInv, IInv', RInv, [Next]_vars PROVE RInv'
    OBVIOUS
  <2>1. ASSUME NEW s \in Services, Command(s) \/ CreateTimesOut(s) \/ Fail(s) PROVE RInv'
    BY <2>1, CommandOwn, OwnRemembered, OthersRemembered DEF RInv
  <2> QED
    BY <2>1, WorldRemembers DEF Next
<1>2. IInv /\ RInv => NobodyForgotten
  <2> SUFFICES ASSUME RInv, NEW s \in Services \ raced, kube[s] = "LoadBalancer"
               PROVE  \/ \E i \in Named(s) : Status(i) # "delete_pending"
                      \/ s \in due
                      \/ pc[s] # "idle" /\ cmd[s] = "create-lb"
    BY DEF NobodyForgotten
  <2> QED
    BY DEF RInv, Remembered, Alive
<1> QED
  BY <1>1, <1>2, InitRemembers, Invariance, PTL DEF Spec
==============================================================================
