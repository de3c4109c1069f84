----------------------------- MODULE LbLifecycle -----------------------------
(***************************************************************************)
(* The load balancers of a cluster from creation to deletion: create-lb,   *)
(* delete-lb and monitor (vpcctl_main.go, and the same flows for the cloud *)
(* provider in vpc_provider.go) while users create, change and delete      *)
(* services.                                                               *)
(*                                                                         *)
(* A load balancer is found by its name, which is made of the UID of the   *)
(* service, so the service stands for the name.  What an update does to    *)
(* the listeners and pools is the subject of LbUpdate; here it makes the   *)
(* load balancer busy.                                                     *)
(***************************************************************************)
EXTENDS Integers, FiniteSets, Functions

CONSTANTS
  Services,     \* services, by UID
  LbIds,        \* identifiers the VPC API can give to a load balancer
  MaxEvents     \* bound on the edits and failures of a behaviour

ASSUME LifecycleAssumption ==
  /\ LbIds \subseteq Nat \ {0}
  /\ MaxEvents \in Nat

VARIABLES
  kube,     \* type of each service in Kubernetes; one that is not there yet is
            \* like a ClusterIP service: it has no load balancer
  lbs,      \* the load balancers, as the VPC API has them
  late,     \* services with a create request that was not answered in time
  due,      \* services the cloud provider has to call vpcctl for
  pc,       \* the call the command for each service makes next
  cmd,      \* the command
  found,    \* the load balancer it found
  monitor,  \* what monitor does next, the services it read, the load
            \* balancers it will delete
  steady,   \* services of the types monitor looks for ever since it read them
  raced,    \* services of these types whose load balancer monitor deleted
            \* since the last edit
  events    \* edits and failures so far

vars == <<kube, lbs, late, due, pc, cmd, found, monitor, steady, raced, events>>
run  == <<pc, cmd, found>>
user == <<kube, steady, raced>>

Types    == {"deleted", "ClusterIP", "NodePort", "LoadBalancer"}
\* online/active is "active"; every other operating status is left out.
Statuses == {"create_pending", "active", "update_pending", "delete_pending", "failed"}
NoLb     == 0

\* The types; and a command that goes on to update or to delete has found a
\* load balancer (CreateLoadBalancer and DeleteLoadBalancer of vpcctl_main.go
\* do not use the nil of one that was not found).
TypeOK ==
  /\ kube \in [Services -> Types]
  /\ DOMAIN lbs \subseteq LbIds
  /\ lbs \in [DOMAIN lbs -> [name : Services, status : Statuses]]
  /\ late \subseteq Services
  /\ due \subseteq Services
  /\ pc \in [Services -> {"idle", "find", "create", "update", "delete"}]
  /\ cmd \in [Services -> {"create-lb", "delete-lb"}]
  /\ found \in [Services -> LbIds \cup {NoLb}]
  /\ \A s \in Services : found[s] = NoLb <=> pc[s] \notin {"update", "delete"}
  /\ monitor \in [pc : {"idle", "list", "clean"}, services : SUBSET Services,
                  stale : SUBSET LbIds]
  /\ steady \subseteq Services
  /\ raced \subseteq Services
  /\ events \in 0..MaxEvents

\* Users have created some services of type LoadBalancer.
Init ==
  /\ kube \in [Services -> {"ClusterIP", "LoadBalancer"}]
  /\ lbs = [i \in {} |-> [name |-> "none", status |-> "failed"]]
  /\ late = {}
  /\ due = {s \in Services : kube[s] = "LoadBalancer"}
  /\ pc = [s \in Services |-> "idle"]
  /\ cmd = [s \in Services |-> "delete-lb"]
  /\ found = [s \in Services |-> NoLb]
  /\ monitor = [pc |-> "idle", services |-> {}, stale |-> {}]
  /\ steady = {}
  /\ raced = {}
  /\ events = 0

-----------------------------------------------------------------------------
(* The VPC API. *)

Named(s)  == {i \in DOMAIN lbs : lbs[i].name = s}
Status(i) == lbs[i].status

\* Names are unique, and an identifier is not used twice while somebody may
\* still refer to it.
CreateRequest(s) ==
  /\ Named(s) = {}
  /\ \E i \in LbIds \ DOMAIN lbs :
       /\ i \notin monitor.stale
       /\ \A t \in Services : found[t] # i
       /\ lbs' = [j \in DOMAIN lbs \cup {i} |->
                    IF j = i THEN [name |-> s, status |-> "create_pending"] ELSE lbs[j]]

\* A load balancer that is busy cannot be deleted.
DeleteAccepted(i) == i \in DOMAIN lbs /\ Status(i) \in {"active", "failed"}

DeleteRequest(i) ==
  lbs' = IF DeleteAccepted(i) THEN [lbs EXCEPT ![i].status = "delete_pending"] ELSE lbs

\* The service has carried out the last request.
Settle ==
  /\ \E i \in DOMAIN lbs :
       \/ /\ Status(i) \in {"create_pending", "update_pending"}
          /\ lbs' = [lbs EXCEPT ![i].status = "active"]
       \/ /\ Status(i) = "delete_pending"
          /\ lbs' = Restrict(lbs, DOMAIN lbs \ {i})
  /\ UNCHANGED <<user, late, due, run, monitor, events>>

\* A create request that timed out at the client is carried out, or not.
LateCreate ==
  /\ \E s \in late :
       /\ late' = late \ {s}
       /\ CreateRequest(s) \/ UNCHANGED lbs
  /\ UNCHANGED <<user, due, run, monitor, events>>

-----------------------------------------------------------------------------
(* Users, and what goes wrong. *)

Event ==
  /\ events < MaxEvents
  /\ events' = events + 1

Monitored(type) == type \in {"LoadBalancer", "NodePort"}

\* A UID is not used again after its service is deleted.
SetService(s) ==
  /\ Event
  /\ kube[s] # "deleted"
  /\ \E type \in Types \ {kube[s]} :
       /\ kube' = [kube EXCEPT ![s] = type]
       /\ steady' = IF Monitored(type) THEN steady ELSE steady \ {s}
  /\ due' = due \cup {s}
  /\ raced' = raced \ {s}
  /\ UNCHANGED <<lbs, late, run, monitor>>

LoadBalancerFails ==
  /\ Event
  /\ \E i \in DOMAIN lbs :
       /\ Status(i) \in {"create_pending", "update_pending", "active"}
       /\ lbs' = [lbs EXCEPT ![i].status = "failed"]
  /\ UNCHANGED <<user, late, due, run, monitor>>

-----------------------------------------------------------------------------
(* create-lb and delete-lb.  The cloud provider runs one command at a time   *)
(* for a service, and runs one again after an error or PENDING.              *)

Finish(s) ==
  /\ pc' = [pc EXCEPT ![s] = "idle"]
  /\ found' = [found EXCEPT ![s] = NoLb]
  /\ UNCHANGED cmd

Success(s) == Finish(s) /\ UNCHANGED due
Retry(s)   == Finish(s) /\ due' = due \cup {s}

\* create-lb may also be run by hand for a NodePort service.
Start(s) ==
  /\ pc[s] = "idle"
  /\ s \in due
  /\ due' = due \ {s}
  /\ pc' = [pc EXCEPT ![s] = "find"]
  /\ \E c \in {"create-lb", "delete-lb"} :
       /\ kube[s] = "LoadBalancer" => c = "create-lb"
       /\ c = "create-lb" => Monitored(kube[s])
       /\ cmd' = [cmd EXCEPT ![s] = c]
  /\ UNCHANGED <<user, lbs, late, found, monitor, events>>

Goto(s, next, i) ==
  /\ pc' = [pc EXCEPT ![s] = next]
  /\ found' = [found EXCEPT ![s] = i]
  /\ UNCHANGED <<cmd, due>>

\* Mutant: delete-lb goes on with the load balancer it did not find.
MutantDeleteNil(s) ==
  /\ pc[s] = "find"
  /\ \/ Named(s) = {} /\ cmd[s] = "create-lb" /\ Goto(s, "create", NoLb)
     \/ Named(s) = {} /\ cmd[s] = "delete-lb" /\ Goto(s, "delete", NoLb)
     \/ \E i \in Named(s) :
          \/ cmd[s] = "delete-lb" /\ Goto(s, "delete", i)
          \/ cmd[s] = "create-lb" /\ Status(i) = "active" /\ Goto(s, "update", i)
          \/ cmd[s] = "create-lb" /\ Status(i) # "active" /\ Retry(s)
  /\ UNCHANGED <<user, lbs, late, monitor, events>>

\* Mutant: a load balancer that exists is good enough, ready or not.
MutantBusyIsSuccess(s) ==
  /\ pc[s] = "find"
  /\ \/ Named(s) = {} /\ cmd[s] = "create-lb" /\ Goto(s, "create", NoLb)
     \/ Named(s) = {} /\ cmd[s] = "delete-lb" /\ Success(s)
     \/ \E i \in Named(s) :
          \/ cmd[s] = "delete-lb" /\ Goto(s, "delete", i)
          \/ cmd[s] = "create-lb" /\ Status(i) = "active" /\ Goto(s, "update", i)
          \/ cmd[s] = "create-lb" /\ Status(i) # "active" /\ Success(s)
  /\ UNCHANGED <<user, lbs, late, monitor, events>>

FindLoadBalancer(s) ==
  /\ pc[s] = "find"
  /\ \/ Named(s) = {} /\ cmd[s] = "create-lb" /\ Goto(s, "create", NoLb)
     \/ Named(s) = {} /\ cmd[s] = "delete-lb" /\ Success(s)
     \/ \E i \in Named(s) :
          \/ cmd[s] = "delete-lb" /\ Goto(s, "delete", i)
          \/ cmd[s] = "create-lb" /\ Status(i) = "active" /\ Goto(s, "update", i)
          \/ cmd[s] = "create-lb" /\ Status(i) # "active" /\ Retry(s)
  /\ UNCHANGED <<user, lbs, late, monitor, events>>

\* A new application load balancer is a success, a network load balancer is
\* busy until it is ready.
CreateLoadBalancer(s) ==
  /\ pc[s] = "create"
  /\ \/ CreateRequest(s) /\ (Success(s) \/ Retry(s))
     \/ Named(s) # {} /\ UNCHANGED lbs /\ Retry(s)
  /\ UNCHANGED <<user, late, monitor, events>>

\* Mutant: a create request that timed out counts as done.
MutantTimeOutIsSuccess(s) ==
  /\ pc[s] = "create"
  /\ Event
  /\ late' = late \cup {s}
  /\ Success(s)
  /\ UNCHANGED <<user, lbs, monitor>>

CreateTimesOut(s) ==
  /\ pc[s] = "create"
  /\ Event
  /\ late' = late \cup {s}
  /\ Retry(s)
  /\ UNCHANGED <<user, lbs, monitor>>

\* Nothing to update, updates that all succeed, or one that fails.
UpdateLoadBalancer(s) ==
  LET ready == found[s] \in DOMAIN lbs /\ Status(found[s]) = "active" IN
  /\ pc[s] = "update"
  /\ \/ UNCHANGED lbs /\ Success(s)
     \/ /\ ready
        /\ lbs' = [lbs EXCEPT ![found[s]].status = "update_pending"]
        /\ Success(s)
     \/ ~ready /\ UNCHANGED lbs /\ Retry(s)
  /\ UNCHANGED <<user, late, monitor, events>>

DeleteLoadBalancer(s) ==
  /\ pc[s] = "delete"
  /\ DeleteRequest(found[s])
  /\ IF DeleteAccepted(found[s]) THEN Success(s) ELSE Retry(s)
  /\ UNCHANGED <<user, late, monitor, events>>

\* A call fails, or the command is killed.
Fail(s) ==
  /\ pc[s] # "idle"
  /\ Event
  /\ Retry(s)
  /\ UNCHANGED <<user, lbs, late, monitor>>

Command(s) ==
  \/ Start(s)
  \/ FindLoadBalancer(s)
  \/ CreateLoadBalancer(s)
  \/ UpdateLoadBalancer(s)
  \/ DeleteLoadBalancer(s)

-----------------------------------------------------------------------------
(* monitor: VpcMonitorLoadBalancers. *)

\* Mutant: NodePort services do not count.
MutantKubeServices == {s \in Services : kube[s] = "LoadBalancer"}

\* The services of lbMap and npMap.
KubeServices == {s \in Services : Monitored(kube[s])}

\* Mutant: the test for ready is the wrong way round.
MutantNotReady(services) ==
  {i \in DOMAIN lbs : Status(i) # "active" /\ lbs[i].name \notin services}

StaleLbs(services) ==
  {i \in DOMAIN lbs : Status(i) = "active" /\ lbs[i].name \notin services}

MonitorListServices ==
  /\ monitor.pc = "idle"
  /\ monitor' = [pc |-> "list", services |-> KubeServices, stale |-> {}]
  /\ steady' = {s \in Services : Monitored(kube[s])}
  /\ UNCHANGED <<kube, raced, lbs, late, due, run, events>>

Idle == [pc |-> "idle", services |-> {}, stale |-> {}]

MonitorListLoadBalancers ==
  LET stale == StaleLbs(monitor.services) IN
  /\ monitor.pc = "list"
  /\ monitor' = IF stale = {} THEN Idle
                ELSE [monitor EXCEPT !.pc = "clean", !.stale = stale]
  /\ steady' = IF stale = {} THEN {} ELSE steady
  /\ UNCHANGED <<kube, raced, lbs, late, due, run, events>>

\* An error is logged; the other load balancers are still deleted.
MonitorDelete ==
  /\ monitor.pc = "clean"
  /\ \E i \in monitor.stale :
       LET rest == monitor.stale \ {i} IN
       /\ DeleteRequest(i)
       /\ monitor' = IF rest = {} THEN Idle ELSE [monitor EXCEPT !.stale = rest]
       /\ steady' = IF rest = {} THEN {} ELSE steady
       /\ raced' = IF DeleteAccepted(i) /\ Monitored(kube[lbs[i].name])
                   THEN raced \cup {lbs[i].name} ELSE raced
  /\ UNCHANGED <<kube, late, due, run, events>>

\* A list call fails, or monitor is killed.
MonitorFails ==
  /\ monitor.pc # "idle"
  /\ Event
  /\ monitor' = Idle
  /\ steady' = {}
  /\ UNCHANGED <<kube, raced, lbs, late, due, run>>

Monitor == MonitorListServices \/ MonitorListLoadBalancers \/ MonitorDelete

-----------------------------------------------------------------------------
Next ==
  \/ \E s \in Services : SetService(s) \/ Command(s) \/ CreateTimesOut(s) \/ Fail(s)
  \/ LoadBalancerFails
  \/ Settle
  \/ LateCreate
  \/ Monitor
  \/ MonitorFails

Spec == Init /\ [][Next]_vars

\* The VPC service carries out what it accepted, the cloud provider calls
\* until a call succeeds, and runs monitor again and again.
Fairness ==
  /\ \A s \in Services : WF_vars(Command(s))
  /\ WF_vars(Settle)
  /\ WF_vars(LateCreate)
  /\ WF_vars(Monitor)

FairSpec == Spec /\ Fairness

-----------------------------------------------------------------------------
(* Properties. *)

\* monitor never deletes the load balancer of a service that has been a
\* LoadBalancer or NodePort service during the whole run of monitor, whatever
\* commands, edits and failures happen meanwhile.
SteadyNotStale ==
  \A i \in monitor.stale \cap DOMAIN lbs : lbs[i].name \notin steady

\* No LoadBalancer service is forgotten, whichever steps of create-lb, delete-lb,
\* monitor, the VPC service and the user come in between: it has a load balancer
\* that is not being deleted, or create-lb is running or will be run.
NobodyForgotten ==
  \A s \in Services \ raced : kube[s] = "LoadBalancer" =>
    \/ \E i \in Named(s) : Status(i) # "delete_pending"
    \/ s \in due
    \/ pc[s] # "idle" /\ cmd[s] = "create-lb"

\* vpc_provider.go:197 "Clean up any VPC LBs that are in READY state that do
\* not have Kube LB or node port service": what monitor deletes has none.
OnlyStaleDeleted == raced = {}

\* Load balancers without a service do not stay, not even the one whose create
\* request was carried out after delete-lb had found nothing to delete; only a
\* failed one is left.
OrphansGone ==
  <>[](\A i \in DOMAIN lbs : Status(i) # "failed" => Monitored(kube[lbs[i].name]))

\* A LoadBalancer service comes to have a load balancer and keeps it, also
\* when an older load balancer of the same name was still being deleted.  Only
\* one that failed, or that monitor deleted by mistake, is not replaced.
Served ==
  \A s \in Services \ raced : kube[s] = "LoadBalancer" =>
    \E i \in Named(s) : Status(i) \in {"active", "failed"}

EventuallyServed == <>[]Served
==============================================================================
