----------------------------- MODULE LbMonitor -----------------------------
(***************************************************************************)
(* The monitor of the cloud provider, VpcMonitorLoadBalancers of           *)
(* ibm_vpc_cloud.go and vpc_provider.go: it lists the load balancers of    *)
(* the account page by page, deletes those of its own cluster that lost    *)
(* their service, and raises an event on a service when its load balancer  *)
(* has become active or has twice been seen in another state.              *)
(*                                                                         *)
(* The load balancers of all clusters of the account come and go between   *)
(* any two calls.  The last statuses and the client, with the credentials  *)
(* it was made with, live in the memory of the process.                    *)
(***************************************************************************)
EXTENDS Integers, Sequences, FiniteSets, Functions, SequencesExt, FiniteSetsExt

CONSTANTS
  Chars,       \* what names are made of; "kube" counts as one
  Services,    \* services of this cluster
  UID,         \* the UID of each service: five groups of characters, "-" between
  ClusterID,   \* the identifier of this cluster, a sequence of characters
  Others,      \* load balancers that are not for a service of this cluster
  OtherName,   \* the name of each
  NameLimit,   \* the most characters a name can have
  LbIds,       \* identifiers of load balancers, in the order they are listed
  PageSize,    \* load balancers on a page
  MaxEdits,    \* bound on edits of services and changes of load balancers
  MaxFaults    \* bound on failures, new keys and restarts

\* strings.ReplaceAll(UID, "-", ""): the groups of the UID without the dashes.
serviceID(s) == UID[s][1] \o UID[s][2] \o UID[s][3] \o UID[s][4] \o UID[s][5]

\* Mutant: without the "-" that ends the identifier of the cluster.
MutantLbPrefix == <<"kube", "-">> \o ClusterID

\* A name begins with the identifier of the cluster.
lbPrefix == <<"kube", "-">> \o ClusterID \o <<"-">>

\* Mutant: one character less.
MutantGetLoadBalancerName(s) == SubSeq(lbPrefix \o serviceID(s), 1, NameLimit - 1)

vpcGetLoadBalancerName(s) ==
  LET ret == lbPrefix \o serviceID(s)
  IN  IF Len(ret) > NameLimit THEN SubSeq(ret, 1, NameLimit) ELSE ret

ASSUME MonitorAssumption ==
  /\ {"kube", "-"} \subseteq Chars
  /\ UID \in [Services -> [1..5 -> Seq(Chars)]]
  /\ ClusterID \in Seq(Chars)
  /\ OtherName \in [Others -> Seq(Chars)]
  /\ \A o, p \in Others : OtherName[o] = OtherName[p] => o = p
  /\ Services \cap Others = {}
  /\ NameLimit \in Nat
  /\ LbIds \subseteq Nat \ {0}
  /\ PageSize \in Nat \ {0}
  /\ MaxEdits \in Nat
  /\ MaxFaults \in Nat

\* UIDs have one length and differ before the cut, and no load balancer of
\* another cluster has a name that begins like those of this one: no identifier
\* of a cluster is this one with "-" and something else behind it.
ASSUME NamesAssumption ==
  /\ Len(lbPrefix) <= NameLimit
  /\ \A s, t \in Services : s # t =>
       /\ Len(serviceID(s)) = Len(serviceID(t))
       /\ \E k \in 1..(NameLimit - Len(lbPrefix)) :
            k <= Len(serviceID(s)) /\ serviceID(s)[k] # serviceID(t)[k]
  /\ \A o \in Others : ~IsPrefix(<<"kube", "-">> \o ClusterID \o <<"-">>, OtherName[o])

\* "other" is also the type of a service that is not there yet or any more.
Types    == {"other", "NodePort", "LoadBalancer"}
\* "active" is online/active, "failed" stands for the others that last.
Statuses == {"create_pending", "active", "failed", "delete_pending"}

VARIABLES
  kube,     \* the type of each service
  lbs,      \* the load balancers of the account: for whom, and their status
  vpc,      \* the cached client: none yet, or one whose API key is still valid,
            \* or was replaced since
  status,   \* the last status of each service the monitor has seen
  mon,      \* what the run of the monitor does next and what it has read
  told,     \* the last event on each service
  same,     \* load balancers that did not change since the run began to list
  ailing,   \* services that did not have an active load balancer all through
            \* the listing of an earlier run of this process
  edits,    \* edits and changes so far
  faults    \* failures, new keys and restarts so far

vars == <<kube, lbs, vpc, status, mon, told, same, ailing, edits, faults>>
process == <<vpc, status, told, ailing>>
bounds  == <<edits, faults>>

\* The name of the load balancer of a service, or of another one.
NameOf == [x \in Services \cup Others |->
             IF x \in Services THEN vpcGetLoadBalancerName(x) ELSE OtherName[x]]
Names  == {NameOf[x] : x \in Services \cup Others}
\* The names that the monitor takes for names of its cluster.
OwnNames == {n \in Names : IsPrefix(lbPrefix, n)}

Name(i)    == NameOf[lbs[i].for]
Active(s)  == \E i \in DOMAIN lbs : lbs[i].for = s /\ lbs[i].status = "active"
\* Services that had an active load balancer all through the listing.
Steady     == {lbs[i].for : i \in {j \in same : lbs[j].status = "active"}}

Idle == [pc |-> "idle", services |-> [s \in Services |-> "other"], start |-> 0,
         vpcMap |-> [n \in {} |-> n], stale |-> {}, todo |-> {}]

Entry == [id : LbIds, status : Statuses]

TypeOK ==
  /\ kube \in [Services -> Types]
  /\ DOMAIN lbs \subseteq LbIds
  /\ lbs \in [DOMAIN lbs -> [for : Services \cup Others, status : Statuses]]
  /\ vpc \in {"none", "valid", "invalid"}
  /\ status \in [Services -> Statuses \cup {"", "not_found"}]
  /\ mon.pc \in {"idle", "init", "list", "process"}
  /\ mon = [pc |-> mon.pc, services |-> mon.services, start |-> mon.start,
            vpcMap |-> mon.vpcMap, stale |-> mon.stale, todo |-> mon.todo]
  /\ mon.services \in [Services -> Types]
  /\ mon.start \in LbIds \cup {0}
  /\ DOMAIN mon.vpcMap \subseteq Names
  /\ mon.vpcMap \in [DOMAIN mon.vpcMap -> Entry]
  /\ mon.stale \subseteq LbIds
  /\ mon.todo \subseteq Services
  /\ mon.stale \cup mon.todo # {} <=> mon.pc = "process"
  /\ told \in [Services -> {"none", "normal", "warning"}]
  /\ same \subseteq DOMAIN lbs
  /\ ailing \subseteq Services
  /\ edits \in 0..MaxEdits
  /\ faults \in 0..MaxFaults

\* Users have created services; other clusters have load balancers already.
Init ==
  /\ kube \in [Services -> {"other", "LoadBalancer"}]
  /\ \E id \in Injection(Others, LbIds) :
       lbs = [i \in Range(id) |->
                [for |-> CHOOSE x \in DOMAIN id : id[x] = i, status |-> "active"]]
  /\ vpc = "none"
  /\ status = [s \in Services |-> ""]
  /\ mon = Idle
  /\ told = [s \in Services |-> "none"]
  /\ same = {}
  /\ ailing = {}
  /\ edits = 0
  /\ faults = 0

-----------------------------------------------------------------------------
(* Users, the VPC service, and what goes wrong. *)

Edit  == edits < MaxEdits /\ edits' = edits + 1 /\ UNCHANGED faults
Fault == faults < MaxFaults /\ faults' = faults + 1 /\ UNCHANGED edits

\* The load balancers become new.
Become(new) ==
  /\ lbs' = new
  /\ same' = {i \in same : i \in DOMAIN new /\ new[i] = lbs[i]}

SetService(s) ==
  /\ Edit
  /\ \E type \in Types \ {kube[s]} : kube' = [kube EXCEPT ![s] = type]
  /\ UNCHANGED <<lbs, process, mon, same>>

\* The API accepts a name that is not in use.  Identifiers are not used twice
\* while the monitor may still refer to them.
NewLb(x) ==
  /\ \A i \in DOMAIN lbs : Name(i) # NameOf[x]
  /\ \E i \in LbIds \ (DOMAIN lbs \cup mon.stale) :
       /\ \A n \in DOMAIN mon.vpcMap : mon.vpcMap[n].id # i
       /\ Become([j \in DOMAIN lbs \cup {i} |->
                    IF j = i THEN [for |-> x, status |-> "create_pending"] ELSE lbs[j]])

\* The cloud provider or vpcctl creates the load balancer of a service.
CreateLb(s) ==
  /\ kube[s] \in {"NodePort", "LoadBalancer"}
  /\ NewLb(s)
  /\ UNCHANGED <<kube, process, mon, bounds>>

CreateOtherLb ==
  /\ \E o \in Others : NewLb(o)
  /\ UNCHANGED <<kube, process, mon, bounds>>

\* A load balancer fails, is maintained, is well again, or is deleted.
ChangeLb(i) ==
  /\ Edit
  /\ i \in DOMAIN lbs
  /\ lbs[i].status \in {"active", "failed"}
  /\ \E st \in {"active", "failed", "delete_pending"} \ {lbs[i].status} :
       Become([lbs EXCEPT ![i].status = st])
  /\ UNCHANGED <<kube, process, mon>>

\* The service has carried out a request.
Settle(i) ==
  /\ i \in DOMAIN lbs
  /\ \/ /\ lbs[i].status = "create_pending"
        /\ Become([lbs EXCEPT ![i].status = "active"])
     \/ /\ lbs[i].status = "delete_pending"
        /\ Become(Restrict(lbs, DOMAIN lbs \ {i}))
  /\ UNCHANGED <<kube, process, mon, bounds>>

\* The API key is replaced, in the file of the credentials as well.
RotateKey ==
  /\ Fault
  /\ vpc = "valid"
  /\ vpc' = "invalid"
  /\ UNCHANGED <<kube, lbs, status, mon, told, same, ailing>>

Restart ==
  /\ Fault
  /\ vpc' = "none"
  /\ status' = [s \in Services |-> ""]
  /\ mon' = Idle
  /\ same' = {}
  /\ ailing' = {}
  /\ UNCHANGED <<kube, lbs, told>>

-----------------------------------------------------------------------------
(* A run of the monitor. *)

EndRun == mon' = Idle /\ same' = {}

\* The caller lists the services, of all types.  The list is never empty: there
\* is always the service of the API server.
VpcMonitorLoadBalancers ==
  /\ mon.pc = "idle"
  /\ mon' = [Idle EXCEPT !.pc = "init", !.services = kube]
  /\ UNCHANGED <<kube, lbs, process, same, bounds>>

\* The client that exists is used as it is.
InitCloudVpc ==
  /\ mon.pc = "init"
  /\ vpc' = IF vpc = "none" THEN "valid" ELSE vpc
  /\ mon' = [mon EXCEPT !.pc = "list"]
  /\ same' = DOMAIN lbs
  /\ UNCHANGED <<kube, lbs, status, told, ailing, edits, faults>>

InitFails ==
  /\ mon.pc = "init"
  /\ vpc = "none"
  /\ Fault
  /\ EndRun
  /\ UNCHANGED <<kube, lbs, process>>

\* The load balancers from the start value on, as many as a page can hold.
FromStart == {i \in DOMAIN lbs : i >= mon.start}
Page(from) == {i \in from : Cardinality({j \in from : j < i}) < PageSize}

\* vpcMap with the load balancers of this cluster on the page: of two with one
\* name the one that is listed last counts.
Listed(page) ==
  LET own   == {i \in page : Name(i) \in OwnNames}
      at(n) == {i \in own : Name(i) = n}
  IN  [n \in DOMAIN mon.vpcMap \cup {Name(i) : i \in own} |->
         IF at(n) = {} THEN mon.vpcMap[n]
         ELSE [id |-> Max(at(n)), status |-> lbs[Max(at(n))].status]]

\* The services of lbMap: of two with one name the one that is read last.
LbMaps ==
  LET lbServices == {s \in Services : mon.services[s] = "LoadBalancer"}
  IN  {todo \in SUBSET lbServices :
         \A s \in lbServices : Cardinality({t \in todo : NameOf[t] = NameOf[s]}) = 1}

\* The ready load balancers of vpcMap that have no service.
StaleLbs(vpcMap) ==
  LET kubeNames == {NameOf[s] : s \in {t \in Services : mon.services[t] # "other"}}
  IN  {vpcMap[n].id : n \in {m \in DOMAIN vpcMap \ kubeNames : vpcMap[m].status = "active"}}

\* The maps are made; the run ends when there is nothing to do with them.
MakeMaps(vpcMap) ==
  \E stale \in {StaleLbs(vpcMap)}, todo \in LbMaps :
    IF stale \cup todo = {}
    THEN EndRun
    ELSE /\ mon' = [mon EXCEPT !.pc = "process", !.vpcMap = vpcMap, !.start = 0,
                               !.stale = stale, !.todo = todo]
         /\ UNCHANGED same

\* Mutant: the first page is taken for all.
MutantListPage ==
  /\ mon.pc = "list"
  /\ vpc = "valid"
  /\ \E vpcMap \in {Listed(Page(FromStart))} : MakeMaps(vpcMap)
  /\ UNCHANGED <<kube, lbs, process, bounds>>

\* ListLoadBalancers asks for one page after another, with the start value of
\* the answer before.
ListPage ==
  /\ mon.pc = "list"
  /\ vpc = "valid"
  /\ \E from \in {FromStart} : \E page \in {Page(from)} : \E vpcMap \in {Listed(page)} :
       IF page = from
       THEN MakeMaps(vpcMap)
       ELSE /\ mon' = [mon EXCEPT !.vpcMap = vpcMap, !.start = Min(from \ page)]
            /\ UNCHANGED same
  /\ UNCHANGED <<kube, lbs, process, bounds>>

\* The credentials of the client are no longer valid.
ListRefused ==
  /\ mon.pc = "list"
  /\ vpc = "invalid"
  /\ EndRun
  /\ UNCHANGED <<kube, lbs, process, bounds>>

ListFails ==
  /\ mon.pc = "list"
  /\ Fault
  /\ EndRun
  /\ UNCHANGED <<kube, lbs, process>>

\* Mutant: the run goes on when nothing is left.
MutantContinue(stale, todo) == mon' = [mon EXCEPT !.stale = stale, !.todo = todo]

\* What is left of the run.
Continue(stale, todo) ==
  mon' = IF stale \cup todo = {} THEN Idle ELSE [mon EXCEPT !.stale = stale, !.todo = todo]

\* An error is logged; a load balancer that is busy or gone is not deleted.
DeleteStale(i) ==
  LET accepted == i \in DOMAIN lbs /\ lbs[i].status \in {"active", "failed"} IN
  /\ mon.pc = "process"
  /\ i \in mon.stale
  /\ Continue(mon.stale \ {i}, mon.todo)
  /\ Become(IF accepted THEN [lbs EXCEPT ![i].status = "delete_pending"] ELSE lbs)
  /\ UNCHANGED <<kube, process, bounds>>

\* Mutant: the last status is looked up after the new one is stored.
MutantReport(s, new) ==
  told' = [told EXCEPT ![s] = IF new = "active" THEN "normal" ELSE "warning"]

\* The event for a service whose status is new.
Report(s, new) ==
  told' = [told EXCEPT ![s] = CASE new = "active" /\ status[s] # "active" -> "normal"
                                [] new # "active" /\ status[s] = new      -> "warning"
                                [] OTHER                                  -> @]

VerifyService(s) ==
  LET n   == NameOf[s]
      new == IF n \in DOMAIN mon.vpcMap THEN mon.vpcMap[n].status ELSE "not_found"
  IN
  /\ mon.pc = "process"
  /\ mon.stale = {}
  /\ s \in mon.todo
  /\ status' = [status EXCEPT ![s] = new]
  /\ Report(s, new)
  /\ ailing' = IF s \in Steady THEN ailing ELSE ailing \cup {s}
  /\ Continue({}, mon.todo \ {s})
  /\ same' = IF mon.todo = {s} THEN {} ELSE same
  /\ UNCHANGED <<kube, lbs, vpc, bounds>>

Run ==
  \/ VpcMonitorLoadBalancers
  \/ InitCloudVpc
  \/ ListPage
  \/ ListRefused
  \/ \E i \in LbIds : DeleteStale(i)
  \/ \E s \in Services : VerifyService(s)

Next ==
  \/ \E s \in Services : SetService(s) \/ CreateLb(s)
  \/ CreateOtherLb
  \/ \E i \in LbIds : ChangeLb(i) \/ Settle(i)
  \/ RotateKey
  \/ Restart
  \/ InitFails
  \/ ListFails
  \/ Run

Spec == Init /\ [][Next]_vars

\* The monitor is called again and again.  Nothing is assumed of the rest.
FairSpec == Spec /\ WF_vars(Run)

-----------------------------------------------------------------------------
(* Properties. *)

\* The pages together show every load balancer of the cluster that did not
\* change meanwhile as it is, and show no service without one a load balancer of
\* another name, whatever comes and goes on other pages.
ListingExact ==
  mon.pc = "process" =>
    \A i \in same : lbs[i].for \in Services =>
      /\ Name(i) \in DOMAIN mon.vpcMap
      /\ mon.vpcMap[Name(i)] = [id |-> i, status |-> lbs[i].status]

\* The monitor never deletes a load balancer of another cluster, nor one whose
\* service it has read.
OthersSpared ==
  \A i \in mon.stale \cap DOMAIN lbs :
    lbs[i].for \in Services /\ mon.services[lbs[i].for] = "other"

\* A warning is raised only on a service that lacked an active load balancer at
\* some time while this run was listing, and while an earlier run of the same
\* process was: never after one look, not after a restart either.
NoFalseAlarm ==
  [][\A s \in Services : told[s] # "warning" /\ told'[s] = "warning" =>
       s \notin Steady /\ s \in ailing]_vars

\* When all is quiet the last event on each service says whether its load
\* balancer is active, unless the key of the cached client is no longer
\* valid: that client is used until the process restarts.
ToldRight ==
  \A s \in Services : kube[s] = "LoadBalancer" =>
    told[s] = IF Active(s) THEN "normal" ELSE "warning"

EventuallyTold == <>[](vpc = "invalid" \/ ToldRight)
=============================================================================
