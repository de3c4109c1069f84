# A TLA+ model of the VPC load balancer controller

The repository is the IBM Cloud VPC part of a Kubernetes cloud provider. For each Kubernetes service of type
LoadBalancer it keeps one VPC load balancer: it creates it, adapts its listeners, pools and pool members when the
service or the nodes change, deletes it with the service, and cleans up load balancers without a service. The same
code runs inside a cloud controller manager (`internal/ibm`) and as the command `vpcctl` (`cmd`, `internal/cli`);
the logic is in `pkg/vpcctl`.

## Inventory

| Part | Code | State | Operations | Interacts with |
|---|---|---|---|---|
| Planning of updates | `vpc_lbaas.go` 56-305, `vpc_config.go` 213-261 | none (lists in, list out) | eight steps of `UpdateLoadBalancer` | lists read from the API, service, nodes |
| Processing of updates | `vpc_lbaas.go` 389-464, 491-738, `vpc_provider.go` 222-256 | what a run read, the updates left | one API request per update, wait between them | VPC API |
| Wait | `vpc_lbaas.go` 742-767 | iteration, clock, last answer | poll | VPC API |
| Creation and deletion | `vpc_provider.go` 32-114, `vpcctl_main.go` 43-184 | what a command found | create-lb, delete-lb | VPC API, Kubernetes |
| Monitor | `vpc_provider.go` 153-219, `vpcctl_main.go` 211-246, `ibm_vpc_cloud.go` 244-308 | services read, pages of load balancers listed; last status of each service | clean-up, events | both, and runs beside the commands |
| Selection and validation | `vpc_config.go` 204-210, 264-307, 478-572, `vpc_lbaas.go` 307-353, 502-553 | what a run read, why it was refused | filters of nodes and subnets, validations of new and of changed services | Kubernetes, VPC API |
| Names | `vpc_config.go` 310-318, `ibm_vpc_cloud.go` 172-181 | none | name of the load balancer of a service, prefix of a cluster | monitor and commands |
| VPC API client | `vpc_sdk_gen2.go`, `vpc_sdk_base.go` | the client | one function per request, pages of lists | the VPC service |
| Glue | `ibm.go`, `ibm_vpc_cloud.go` 41-94, `vpcctl_kube.go`, `main.go` | cached client with its credentials | read configuration and nodes, pass calls on | all of them |
| Rest | event recorder, command line, logging, fake SDK | none | output, arguments, a test double | |

What is hard here: nothing is locked. Each `vpcctl` command is a process of its own, the cloud provider's calls for
one service (EnsureLoadBalancer on edits, UpdateLoadBalancer on node changes) may overlap, and the state that
matters lives in the VPC service, where every accepted request makes the load balancer busy for a while. An update
of a load balancer is a sequence of requests that can stop anywhere; the next run has nothing to go by but what it
reads. The properties that make each part correct are those listed with the runs below.

## Modules

| Module | Models | Built on |
|---|---|---|
| `LbPlan` | the plan: the updates a load balancer needs, as pure operators | |
| `VpcLbApi` | one load balancer as the VPC API has it, the requests, and when they are accepted | `LbPlan` |
| `LbRoutes` | abstract: what clients see of a load balancer | |
| `LbUpdate` | runs of VpcUpdateLoadBalancer, several at once, against one load balancer; implements `LbRoutes` | `VpcLbApi`, `LbRoutes` |
| `LbWait` | `WaitLoadBalancerReady` with its clock | |
| `LbLifecycle` | create-lb, delete-lb and monitor over the load balancers of a cluster | |
| `LbMonitor` | monitor in the cloud provider: pages, names, clean-up, events, restarts, the cached client | |
| `LbSelect` | the choice and validation of subnets and nodes, at creation and at each update | |
| `MCLbUpdate`, `MCLbWait`, `MCLbLifecycle`, `MCLbMonitor`, `MCLbSelect` | values for the constants | the module of that name |
| `LbUpdateProofs`, `LbRoutesProofs`, `LbSerialProofs`, `LbSyncProofs` | theorems about `LbUpdate` | each on the first, the last on `LbSerialProofs` |
| `LbWaitProofs`, `LbLifecycleProofs`, `LbMonitorProofs`, `LbSelectProofs` | theorems | the module of that name |

How they fit: `LbLifecycle` has whole commands over many load balancers, each an abstraction of what `LbSelect` (first
half of a command: who is served, where) and `LbUpdate` (second half: the requests) have in detail for one service;
`LbWait` is the wait inside `LbUpdate`. `LbLifecycle` and `LbMonitor` both have monitor: the first beside the commands
it races with, the second with the detail of its lists and its memory.

Operators whose name starts with `Mutant` are wrong variants of the operator after them. They belong to no
specification; with one of them in its place the property named in `PROJECT.json` fails.

### LbPlan

The code collects the updates in a list of strings, pass by pass. The model has a *set* of update records (`op`,
`step`, `id`, `name`, `member`) and the order `Precedes` in which the code appended them; `UpdatesRequired` is the
union of the seven passes after `checkForMultiplePoolMemberUpdates`. A pool that step 2 renames to
POOL-TO-BE-DELETED is one that is not in `KeptPools`. A pool name is the pair of its ports, or `Unparsable`.
Members are pairs of a node and a port; the code deletes them by an identifier, so a member that was replaced in
the meantime would be refused there, while `LbUpdate` still deletes it. The model has more behaviours in
this respect, and a refusal is covered by `Fail`.

`filterNodesByServiceMemberQuota` returns the *set* of node lists the code can end with, since the order in which
nodes are listed is not determined; it is empty when the annotation is no number. A negative quota limits nothing,
as in the code.

### VpcLbApi

The VPC service is outside the repository. `Accepts` states what it accepts: only requests to a load balancer that
is ready; no deletion of a pool that is the default pool of a listener (SDK comment in the vendored `vpc_v1.go`,
and rule 1 of `vpc_lbaas.go` 585); unique pool names; one listener per port (rule 3). Requests are atomic and make the
load balancer busy until `Settle`.

### LbUpdate

Variables: `lb` (the VPC service), `svc` and `nodes` (Kubernetes), and for each process `pc`, `job` (what the run
knows), `due` (a change to report) and `outcome`. One action per call:

| Action | Code |
|---|---|
| `ReadKube` | the service and nodes the caller passes in |
| `FindLoadBalancer`, `RefuseUpdate` | `VpcUpdateLoadBalancer`, ready check and check for nodes |
| `ListLoadBalancerListeners`, `ListLoadBalancerPools`, `ListLoadBalancerPoolMembers` | one API request each, the last once per pool |
| `Plan`, `RefusePlan` | node list, eight steps, errors of quota and pool names |
| `GetLoadBalancer`, `WaitLoadBalancerReady` | before every update but the first |
| `deleteLoadBalancerListener` ... `createLoadBalancerListener` | the eight cases of the switch |
| `Rejected`, `Fail` | an update is refused; a call fails, times out, or the process is killed |

`nodes` are the nodes left after the filters of `UpdateLoadBalancer`, which are in `LbSelect` with the validations that
refuse a service (protocol, type, subnets); here a refusal ends a run as `Fail` does. `job` is cleared when a run
ends and the parts that are not read again are cleared earlier, which only saves states. `NodesNoIP` are nodes without
an internal address.

### LbRoutes

The promise to the clients of a service, with two variables: `serves`, the external port each pool was made for, and
`routes`, the port and the pool of each listener. Listeners open and close but never change (rule 8 of
`UpdateLoadBalancer`), one per port (rule 3); a pool keeps its port and stays while a listener leads to it (rule 1).
`ImplementsRoutes` of `LbUpdate` states that the load balancer implements it, with `serves` the port in the name of each
pool (renaming a pool for another node port is a stutter) and `routes` the listeners. Member updates, health monitors,
`Settle` and all reading are stutters too. It holds for overlapping runs, which may undo each other's work otherwise.

`SuccessMeansInSync`, `QuietMeansInSync` and `InSync` do not ask the filter of the code which nodes are due. `DueNodes` says
it on its own: all of them, or as many as a positive quota leaves; a negative one limits nothing, and with one that is no
number nothing counts as done. Only a run that is at its updates is compared with its own node list, since what it read is
cleared by then. A wrong filter, one that cuts off one node too many or takes a quota that is no number for none, breaks
these properties.

### LbWait

One action per statement of the loop; `elapsed` counts seconds, a `Get` takes up to `MaxLatency`. `LbUpdate` abstracts
the whole wait to "a poll finds it ready" or `Fail`.

### LbLifecycle

`lbs` maps identifiers to load balancers with a name and a status; a service stands for the name made of its UID.
`late` holds create requests whose answer was lost, which the VPC service may still carry out. For each service one
command runs at a time (the cloud provider's service controller works that way), beside monitor. `steady` and
`raced` are history variables for the properties. A deleted service is gone at once: with the finalizer of the
service controller it would be listed a while longer, which hides some of these behaviours. A create request for an
application load balancer is a success, one for a network load balancer ends as busy; both are allowed.

### LbMonitor

The account has load balancers of this cluster and of others (`Others`). Names are sequences of characters, so the
removal of dashes, the cut after `NameLimit` characters and the prefix test are what they are in the code. One action
per call, and one per service for events:

| Action | Code |
|---|---|
| `VpcMonitorLoadBalancers` | the caller lists the services and calls |
| `InitCloudVpc`, `InitFails` | the client is made unless it is cached |
| `ListPage`, `ListRefused`, `ListFails` | one page of `ListLoadBalancers`; after the last one `MakeMaps` makes the maps of `VpcMonitorLoadBalancers` and the list of stale load balancers |
| `DeleteStale` | one request of the clean-up loop, whose error is only logged |
| `VerifyService` | one turn of the loop over `lbMap`, with its event (`Report`) and the new last status |
| `SetService`, `CreateLb`, `CreateOtherLb`, `ChangeLb`, `Settle`, `RotateKey`, `Restart` | users, commands, other clusters, the VPC service, an API key that is replaced, the process |

`status` is the map of last statuses and lives as long as the process. `same` (load balancers that did not change since
the listing began) and `ailing` (services that lacked an active load balancer at some time during an earlier listing of
this process) are history variables. The early return for an empty list of services is left out: the list always has
the service of the API server. `active` is online/active; the other statuses that can last (failed, offline, under
maintenance) are one, `failed`.

### LbSelect

One service, the nodes with their labels and the subnets of the account. `job` is what a run read: the service and the
usable nodes at `ReadKube`, the load balancer at `FindLoadBalancer`, the subnets at `CreateLoadBalancer` or
`UpdateLoadBalancer`, which then filter, validate and choose as one step because nothing but the list of subnets is
read there. `Request` stands for all requests that follow: a creation, or the updates that `LbUpdate` has one by one;
`members` there are the `nodes` here. `Refuse` ends a run with the reason `why`; `Retry` is the service controller
calling again. `made` is a history variable with the service and the names of subnets at the time of creation. The
substring test of configured subnet names is the relation `PartOf`. `LbLifecycle` has deletion in detail; here it is one
step.

What the code does and a reader may not expect (the model does the same):

- The check for changed subnets is skipped without the annotation, so *removing* the annotation goes unnoticed and the
  load balancer stays where it was. The check of the type looks at public or private only.
- A zone annotation edited later moves the members and not the load balancer; `ZoneTogether` is therefore about
  services that keep their zone.
- A node selector replaces the zone and the edge label, both.
- A subnet is chosen if its name is a *part* of the configured list, so `net-1` is chosen by `net-10`.
- `IsVpcConfigStoredInSecret` is always false, so no handler resets the cached client, and a client with a replaced
  API key is used until the process restarts. That is why `EventuallyTold` excepts this case.
- Names tell clusters apart only if no cluster identifier is another one followed by a dash and more, and services
  only if their UIDs differ before the cut (`NamesAssumption`). The identifiers the platform gives out do both.

What the properties leave open, and why:

- A foreign pool makes every plan fail until its owner removes it (`ForeignPoolUntouched` says only that it is left
  alone), and so does a quota that is no number; `InSync` excepts both, as nothing but an edit ends them.
- A load balancer that failed is never made anew: `OrphansGone` and `EventuallyServed` take it as it is. The code has
  nothing that would do otherwise, so there is nothing to hold it to.
- `Local` without a health check port is planned without a test of the health monitor, and `Matches` follows the code.

## Runs

| Run | Question | Bounds |
|---|---|---|
| `LbUpdateSerial` | one updater: types; `NoUpdateRejected`: the order of updates gives the API no reason to refuse one; `OnePoolPerPort`; `SuccessMeansInSync`: success means all is done, after any partial failure; `QuietMeansInSync`: when nothing is due any more the service *as it is now* is served, so no edit was lost to a run that had read it before; `PoolNeverDrained`; `InSyncIsStable`: no update is planned for a load balancer in sync; `UpdatesMakeProgress`: each update leaves fewer to do, so a run that fails leaves less for the next | 8 services over 2 ports, 3 node ports, Local with and without health check port, all kinds of quota; 3 nodes; 3 edits or failures |
| `LbUpdateLive` | `EventuallyInSync`; `ForeignPoolUntouched` | the same services, 2 nodes, 2 events, a pool of somebody else |
| `LbUpdateOverlap` | two updaters: `ListenerPoolMatch`, `KnownPoolsKeepPort`, `WantedMemberKept`, `ImplementsRoutes` | 3 services, 2 nodes, 2 events, 3 pools |
| `LbWait` | types, `BoundedWait`, `NoEarlyTimeout`, `Termination` | the two pairs of times the code uses |
| `LbLifecycle` | types; `SteadyNotStale`; `NobodyForgotten`: a service that asks for a load balancer has one that stays, or create-lb runs or will run; `OrphansGone`; `EventuallyServed` | 2 services, 3 load balancers, 2 events after the creation of the services |
| `LbMonitor` | types; `ListingExact`: the pages miss and mistake nothing that did not change meanwhile; `OthersSpared`: nothing of other clusters and of services read is deleted; `NoFalseAlarm`: no warning after one look, nor across a restart; `EventuallyTold`: the last event comes to be true | 2 services whose names are cut, 1 load balancer of a cluster with a similar identifier, 3 identifiers on pages of 2, 1 edit, 1 fault |
| `LbSelect` | types; `AtHome`: on existing subnets of the cluster's VPC; `UntouchedNotRefused` and `ChangedIsRefused`: an update is refused for its subnets only if, and whenever, what the annotation means is not what the load balancer has; `NotStarved`; `ZoneTogether`; `EventuallyPlaced` | 10 kinds of service, 3 subnets in 2 VPCs with a shared address block and names one part of the other, 2 nodes in 2 zones, one of them edge, 2 edits, 1 fault |
| `LbUpdateTwoPools` | finding: two pools for a port | as `LbUpdateOverlap` |
| `LbUpdateNoAddress` | finding: empty node list | one node without address |
| `LbUpdateCreatesLast` | finding: rule 4 | two ports, 3 nodes, 3 events |
| `LbWaitReady` | finding: the last answer is not tested | as `LbWait` |
| `LbLifecycleRace` | finding: monitor deletes what is needed | 1 service |

Why the bounds are enough: a plan depends on each port separately, except for the order of the updates and the node
list, so two ports and three node ports show every relation of pools; three nodes let a quota choose and let a pool
need one or several member updates; three events allow an edit, a failure in the middle of the run and another
edit. In `LbLifecycle` two events after the start allow a change of type and back, or a lost answer and a
deletion. In `LbMonitor` pages of two and three identifiers put a load balancer on the second page, let one move to
an identifier before or behind the page being read, and let one name be listed twice; one edit makes a load balancer fail
or a service go, one fault is a restart, a new key or a failed call. In `LbSelect` two edits rename a subnet and
change the service, or swap two things between two calls. `MaxEvents`, `MaxEdits` and `MaxFaults` bound edits and
failures, never the steps of the controller or the monitor. Nodes, processes and services are symmetric where a cfg
says so; liveness is checked without symmetry. Deadlock is not checked because all these systems may stop: a wait that
has ended, or a controller with nothing to do after the last allowed event.

### Fairness

`LbUpdate`: `Settle` and the steps of each process. The service controller calls again until a call succeeds and
reports every change, a started call goes on unless it fails (which counts as an event), and the VPC service
carries out what it accepted. `LbWait`: the loop goes on. `LbLifecycle`: the same for the commands, and monitor is
run again and again, by a timer of the cloud provider. `LbMonitor`: only that monitor is called again and goes on; the
VPC service need not carry out anything, since events are about what is there. `LbSelect`: a started call goes on and the
service controller retries until one succeeds. No fairness is assumed of edits and failures.

## Findings

1. `WaitLoadBalancerReady` never tests the answer of its last `Get` (`LbWaitReady`).
2. The check for available nodes comes before nodes without an address are dropped (`LbUpdateNoAddress`): every
   pool is emptied.
3. Rule 4, "all CREATE operations will be done last", does not hold for REPLACE-POOL-MEMBERS (`LbUpdateCreatesLast`).
4. Overlapping runs, one with an older service, leave two pools for a port (`LbUpdateTwoPools`); from then on each
   plan has a rename the API refuses.
5. monitor lists services before load balancers and can delete one that was just created (`LbLifecycleRace`);
   nothing but an edit of the service brings it back.

## Theorems

All theorems are checked by TLAPS, for every value of the constants, under the assumptions named in the modules:
identifiers and ports are positive numbers, 0 is a possible quota, nodes are a finite set, services have the type
of services.

*LbUpdateProofs.* `TypeCorrect`, `ListenersKeepTheirPools` (`ListenerPoolMatch`), `StaleNamesKeepThePort`
(`KnownPoolsKeepPort`) and `WantedMembersStay` (`WantedMemberKept`) hold for any number of overlapping runs. None is
inductive. A listener keeps its pool because (a) a pool in use is not deleted and (b) a pool is never renamed to
another port. (b) holds because an update carries the port of the pool it was planned from, and that knowledge
is old: so the invariant `IInv` says of every process that whatever it knows of a pool (its view of the load balancer,
the list it read, its plan) names the pool's present port if the pool still exists (`Knows`); and that the members its plan
takes out are not members it wants (`Spares`). Knowledge survives the steps of other processes since no request
changes the port of a pool and identifiers of deleted pools are not given again while anybody refers to them.

*LbWaitProofs.* `WaitIsBounded` and `WaitIsNotCutShort` for all times and latencies: the invariant relates the clock to
the number of iterations, `elapsed >= i * minSleep`, and to the last test of the time.

*LbLifecycleProofs.* `LifecycleTypeCorrect` and `MonitorSparesSteadyServices` (`SteadyNotStale`). The invariant relates
both the services that stayed and the stale load balancers to the list of services monitor read (`MonitorFits`).
`NobodyIsForgotten` (`NobodyForgotten`) needs to know what a command in the middle is going to do: `Remembered` says that
for a LoadBalancer service with nothing due only create-lb can be running, that the load balancer it is about to update is
its own and is not being deleted, and that where nothing runs one is there; `FoundOwn` that a command deletes only load
balancers of its own service. Services whose load balancer monitor deleted by the race (`raced`) are excepted: that is the
finding.

*LbRoutesProofs.* `UpdatesImplementRoutes` (`ImplementsRoutes`): every step of any number of overlapping runs maps to a
step of `LbRoutes` or to a stutter, from `IInv`. `ForeignPoolsStay` (`ForeignPoolUntouched`), for any number of runs: by
`Knows` an update is never about a pool of another port, and the port of a pool with a foreign name is no port at all.

*LbSerialProofs* and *LbSyncProofs* assume one process and no pools of others (`Procs = {p}`, `UserPools = {}`); without
either the statements are false, as the finding `LbUpdateTwoPools` shows. `OrderIsRight` (`NoUpdateRejected`) and
`OnePoolForAPort` (`OnePoolPerPort`) follow from the invariant `SInv`: what a run read is what there is, since nobody else
changes it, and what is left of its plan *fits* the load balancer (`Fits`), which has three parts. `Shape`: the kind of an
update gives its step and its name. `Apart`: two updates are about different things. `Due`: what an update is about is
still as it was planned for, or another update *in what is left of the plan* sees to that before, as a listener of a
pool to delete is still to be deleted itself. `Due` is what makes it inductive: when an update leaves the plan, what the
others relied on has happened. `SyncIsStable` (`InSyncIsStable`) also assumes that every service has a port, as Kubernetes
demands; it rests on `QuotaKeeps`, that the quota prefers exactly the nodes the first pool has.

`SuccessIsInSync` (`SuccessMeansInSync`) needs the converse of `Fits`, the invariant `CInv`: what is left of a plan
*covers* the differences between the load balancer and what the run wants (`Covers`). A listener or pool of a port that
the service has no more is still to be deleted, a missing one to be created, a pool with an old name or health monitor to
be updated, one with other members to have them changed; and an update of a single member is the last one its pool needs
(`LastOfPool`), since several are merged into a replacement. A new plan covers what it was planned from (`NewPlanCovers`),
each update removes the difference it is for and leaves the others covered, and where nothing is left of the plan there is
no difference (`NothingLeft`). `ChoicesAreDue` adds that the filter leaves what is due (`DueNodes`). `PoolsStayServed` (`PoolNeverDrained`) follows: by `LastOfPool` and `Spares` every change
of members leaves exactly those the run wants, and those are some, as every node has an address (`NodesNoIP = {}`; without
that a run may work with an empty list of nodes, as `LbUpdateNoAddress` shows).

`PlanIsExact` puts the two directions together for the planner: in every state that one updater can leave behind, half way
or not, and for *every* service and list of nodes, nothing is planned if and only if the load balancer is in sync.

`QuietIsInSync` (`QuietMeansInSync`) is about the service as it is *now*, not as the run had read it: the invariant `QInv`
says that a run for which nothing new is due works with the present service and nodes, and that a run which ended well
with nothing due has left the load balancer in sync with them. It holds because `due` is cleared when the service is read
and not when the run ends.

`ProgressIsMade` (`UpdatesMakeProgress`) counts. The plan is a union of small plans, one per pool and one for the rest
(`PlanByPool`), an update changes the small plan of its own pool only (`PlanOfChangedPools`, `OtherPlanSame`), and it is
*still needed* when its turn comes (`NeededInv`), so planned anew its small plan is smaller. A new pool would bring a small plan
of its own, but it is created with the members and health monitor that are wanted, so that plan is empty. Plans are finite because ports are (`IsFiniteSet(Ports)`, the
theorem's assumption, besides one process and no pools of others).

*LbMonitorProofs.* `MonitorTypeCorrect`, `PagesAreExact` (`ListingExact`), `ForeignSpared` (`OthersSpared`) and
`WarningsAreEarned` (`NoFalseAlarm`), for every page size and any names that satisfy `NamesAssumption`. The invariant says
that the load balancers before the start value that did not change are in the half-read list as they are (`SameExact`),
that an entry is listed under its own name as long as its load balancer exists (`EntriesNamed`), and that a service
with a bad last status is `ailing` (`MemoryOK`). The lemmas on names show that truncation keeps the names of
services apart and that the prefix test takes those of this cluster.

*LbSelectProofs.* One theorem per safety property of `LbSelect`. The invariant says of a run that waits for its request
how its subnets and members follow from what it read (`JobOK`), and of the load balancer that its subnets are what
`SubnetsForNew` chose at creation (`MadeOK`, `MadeFrom`): an update can then not find other subnets unless one of its own
was renamed, because identifiers and, inside a VPC, names and blocks are unique. `QuietIsPlaced` is what `EventuallyPlaced`
comes down to, without liveness: where no call is under way or due, the load balancer is there for the service as it is,
with the nodes it is due (`Current` is the invariant).

Only model-checked: liveness (`EventuallyInSync`, `Termination`, `OrphansGone`, `EventuallyServed`, `EventuallyTold`, `EventuallyPlaced`), which is
out of the prover's reach. Their safety parts are proved where they have one: `QuietIsInSync` and `ProgressIsMade` of
`EventuallyInSync`, `NobodyIsForgotten` of `EventuallyServed`, `QuietIsPlaced` of `EventuallyPlaced`, `WaitIsBounded` of
`Termination`. The findings are counterexamples of TLC.

## Not modelled

Parsing of configuration files and service annotations into their fields, the informers of the cloud provider, metadata
of nodes, the set-up of the IAM and HTTP clients, conversion of fields nobody reads to and from the types of the SDK:
pure input, with no state of load balancers. The event recorder, the command line and logging: output and arguments. The
status commands, which change nothing. The fake SDK: a test double. A cluster identifier so long that the prefix alone
reaches the limit of names is excluded by `NamesAssumption`; with it all services would share a name. Pages are
modelled for load balancers, where they matter most; the list of subnets is one step.

## State of the work

Done: the core (`LbPlan`, `VpcLbApi`, `LbUpdate`, `LbWait`), the commands (`LbLifecycle`), monitor with its events
(`LbMonitor`), selection and validation (`LbSelect`), the abstract specification `LbRoutes`, and the theorems above.

Worth doing next:

1. The safety parts of `OrphansGone` (what is nobody's gets on monitor's list) and of `EventuallyTold` as theorems.
2. `LbLifecycle` with `LbUpdate` in the place of its update step, on a very small instance.
