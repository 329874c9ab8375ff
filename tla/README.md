# A TLA+ development of the IBM Cloud provider for Kubernetes

This directory holds TLA+ models of `cloud-provider-ibm`, the TLC
configurations that check them on small instances, and proofs that the TLA+
proof system (TLAPS) checks for every instance.  Every module says which code
it models; `PROJECT.json` maps each definition to its source lines.

## The system

The provider is linked into a Kubernetes cloud controller manager.  Its
callers are Kubernetes' service controller (create, update and delete load
balancers), node controllers (look up instances and zones), a timer (monitor
the load balancers) and two file and node watches.  What it manages lives in
IBM Cloud VPC and is reached only through the VPC REST API.

| Component | Source | State it keeps | Operations | Correct when |
|---|---|---|---|---|
| VPC load balancer reconciliation | `pkg/vpcctl/vpc_provider.go`, `vpc_lbaas.go` | none between calls; in a call, the load balancer, listeners and pools as last read and the list of updates | `EnsureLoadBalancer`, `EnsureLoadBalancerUpdated`, `EnsureLoadBalancerDeleted`, `CreateLoadBalancer`, `UpdateLoadBalancer` (planner, then one API call per update), `DeleteLoadBalancer`, `WaitLoadBalancerReady` | a success means that the VPC holds what was asked for; failed passes can be repeated; updates come in an order the VPC accepts; traffic of one port never reaches the pool of another |
| Service, node and subnet rules | `pkg/vpcctl/vpc_config.go`, `vpc_sdk_base.go` | none | filters of nodes and subnets, validations, pool names | a load balancer is never taken for something it is not |
| VPC SDK adapter | `pkg/vpcctl/vpc_sdk_gen2.go` | client with its token | one function per VPC API request | requests carry everything the service asks for |
| Waiting for the first nodes | `ibm/ibm_vpc_cloud.go` 123-153, 253-275 | `CreateUpdateChan`, `CreateUpdateMutex` | `VpcEnsureLoadBalancer` waits, `VpcUpdateLoadBalancer` closes the channel | closed once, no wake up lost, nobody stuck |
| Cloud entry points | `ibm/ibm_loadbalancer.go`, `ibm_vpc_cloud.go` | - | dispatch to the VPC or classic provider, unsupported configurations | - |
| Load balancer monitor | `vpc_provider.go` 222-286, 362-419, `ibm_loadbalancer.go` 133-170, `ibm_vpc_cloud.go` | status per service of the previous run | compares services and load balancers, sends events, deletes stale load balancers | deletes only what no service owns; warns exactly about what lasts |
| Cloud credential watch | `ibm_vpc_cloud.go` 287-327, `pkg/vpcctl` `ResetCloudVpc` | the shared `CloudVpc` object | reset on a change of the credential file | after the last change the new credential is used |
| Node metadata cache | `ibm_metadata_service.go`, `ibm_node_watch.go`, `ibm_vpc_client.go` | cached metadata per node with a time to live, VPC client | read, refresh, delete, watch | never answers with the metadata of a node's predecessor |
| Cloud tasks | `ibm_task.go` | ticker and stop channel per task | start, stop | one task per function, which runs until it is stopped and pauses between runs |
| Instances, zones | `ibm_instances.go`, `ibm_zones.go` | - | thin readers of the metadata | - |
| Construction | `ibm.go`, `main.go` | the `Cloud` object | `NewCloud` before, `SetInformers` after leader election | nothing that changes in between is missed |
| Event recorder, classic stubs, clusters, routes, logging, fake SDK | see `PROJECT.json` | - | - | not modelled: no behaviour of their own |

### How the parts interact, and what is hard

* The service controller runs *sync workers* (one call per service at a time)
  and, in a goroutine of its own, a *node sync* that calls
  `EnsureLoadBalancerUpdated` with the service **as it was last synced
  successfully**.  Nothing in the provider serialises the two: two passes of
  `UpdateLoadBalancer` may work on one load balancer, each with its own
  listing and its own list of updates.
* One update takes the VPC about 30 seconds, in which the load balancer is
  `update_pending` and refuses everything.  A pass is therefore minutes long,
  can fail at every update (busy, API error, lost reply, time-out) and is not
  undone; a restart of the controller loses the list of updates.
* The VPC has rules on the order of updates (a pool in use cannot be deleted,
  a port cannot have two listeners...), listed at `vpc_lbaas.go` 564-573.
* Creates that are called before the cluster has nodes block a sync worker on
  one channel that all services share.
* The monitor, the credential watch, the node watch and the API calls share
  objects: the VPC object and client without a lock, the metadata cache with
  one that is not held from the look up to the new entry.
* The monitor decides on two lists made at different times and deletes load
  balancers on its own account.
* Lists come in pages, one request each, of a collection that changes.

`PROJECT.json` lists these hazards with the line where each bites and the
properties that cover it; a hazard without one has a note, which names the
configuration that shows what happens.

## Modules

| Module | Contents |
|---|---|
| `VpcConfig` | the records of services, subnets, listeners and pools, and the helpers of `vpc_config.go` as operators on sets |
| `VpcPlan` | the planner of `UpdateLoadBalancer`, one operator per `check...` function; `Plan` is the list of updates |
| `VpcLoadBalancer` | EXTENDS `VpcPlan`: the state machine of one service, its load balancer and the two callers; its properties |
| `MCVpcLoadBalancer` | services, nodes and subnets for TLC |
| `VpcLoadBalancerProofs` | lemmas on the planner and every API operation; the theorems that hold whatever overlaps |
| `VpcSerialProofs` | EXTENDS `VpcLoadBalancerProofs`: the theorems on calls that do not overlap |
| `PortRoutes` | the abstract specification: routes from external ports to targets; `VpcLoadBalancer` instantiates it |
| `VpcPages`, `VpcPagesProofs` | `FindLoadBalancer` over the paged `ListLoadBalancers` |
| `CreateUpdateSync`, `MCCreateUpdateSync`, `CreateUpdateSyncProofs` | the channel and the mutex, the threads of any number of services |
| `LbMonitor`, `MCLbMonitor`, `LbMonitorProofs` | the monitor between changing services and load balancers |
| `CloudCredential`, `MCCloudCredential`, `CloudCredentialProofs` | the credential file, its watch and the objects made from it |
| `MetadataCache`, `MCMetadataCache`, `MetadataCacheProofs` | the node metadata service and the node watch |
| `CloudTask`, `CloudTaskProofs` | the ticker tasks |

### VpcLoadBalancer: state and actions

`lb`, `listeners`, `pools` are the objects in the VPC.  `kube` is what
Kubernetes wants (`service`, `wanted`, `nodes`) and the controller's side:
`cached`, the service of the last successful sync, and the two work queues.
`wk["sync"]` and `wk["nodes"]` are the two calls that can be in progress; a
call record holds its arguments and its local variables, `pc` the API request
it makes next.

| Action | Code |
|---|---|
| `StartEnsure`, `StartDelete`, `StartUpdate`, `Return` | external: the service controller; it queues a failed call again |
| `FindLoadBalancer` with `EnsureLoadBalancer`, `EnsureLoadBalancerDeleted`, `EnsureLoadBalancerUpdated` | the three operations of `vpc_provider.go` up to and including `FindLoadBalancer`, with the validations of `UpdateLoadBalancer` |
| `CreateLoadBalancer`, `DeleteLoadBalancer` | the functions of that name in `vpc_lbaas.go` and the SDK request each makes |
| `ListLoadBalancerListeners`, `ListLoadBalancerPools` | the two listings, and after the second steps 1 to 8 of the planner |
| `ExecUpdate` | one turn of the loop over the list: `createLoadBalancerPool` and its seven siblings, with the SDK request |
| `GetLoadBalancer`, `WaitLoadBalancerReady`, `WaitTimeout` | the read before every further update; the polls; giving up by count or by time |
| `ChangeService`, `ToggleWanted`, `ChangeNodes` | the cluster |
| `CloudReady`, `CloudDeleted`, `Maintenance`, `AddForeignPool`, `RemoveForeignPool` | external: the VPC and other users of the account |
| `ApiFails`, `ReplyLost`, `Restart` | a request fails, takes effect without an answer, or the controller restarts |

Each API request is one step, so the other caller, the cluster and the VPC may
act between any two requests of a call.  Code between two requests is local to
the call and belongs to the step of the request before it.

Abstractions: a pool name is kept as its three fields, and a name that
does not parse has protocol `other`; a node stands for its internal address,
and nodes without one are those not in `Addressed`; subnets, zones and labels
are opaque strings, and which name occurs inside which other is the constant
`NameInfix`; `UDP` stands for every protocol but TCP, which
`validateService` refuses whether or not `isServiceConfigurationSupported` has
done so before; the code's loops over
ports and pools visit them in ascending order.  Identifiers of pools are never
reused while anyone still remembers them.  `MaxPolls` stands for
`maxWait / minSleep` (15 by default).  The listing of the pools and the
listings of their members are one step; what is said of overlapping calls does
not depend on members.  Entries of the subnets annotation select every subnet
they match, which is the first one since identifiers and names are unique in a
VPC.  The provisioning status `failed` is left out: it ends waits like a wait in
vain does.  The service controller, which is not part of this repository,
replaces its cached service only after a successful sync; a node update with a
service that was never synced is therefore not modelled.

What a load balancer is placed as (`Placed`) is its type and its subnets.  The
zone annotation is not part of it: it chooses the subnets of a new load
balancer, and a later change of it is accepted and only moves the members
(`vpc_lbaas.go:52`).

### CreateUpdateSync: state and actions

`set` is `CreateUpdateChan # nil`, `closes` counts the closes, `mutex` is the
holder of `CreateUpdateMutex`.  An `Ensurer` is a `VpcEnsureLoadBalancer`
without nodes: read the variable (`ReadChan`), `Select`, then `Woken` or
`Minute` up to `MaxWait` times, then the error and Kubernetes' `Retry`.  An
`Updater` is a `VpcUpdateLoadBalancer` with nodes: test the variable, `Lock`,
`Check` again, `Close`, `Clear`, `Unlock`.  The first read of both is outside
the mutex and races with the assignment of nil: it may see either value.

### PortRoutes: the abstract specification

What users rely on: a table of routes from external ports to targets.  A
target serves one port as long as it exists, a port is opened only towards an
existing target of its own, is closed before the target goes and is never
redirected.  In `VpcLoadBalancer` a pool is the target for the external port
in its name and a listener is a route (`Routes`); `RoutesImplemented` says
that every step of every interleaving is one of `PortRoutes` or changes
neither.  All of the planner, the waits and the two callers are hidden.

### VpcPages: state and actions

`find` is one call of `FindLoadBalancer`; `ListLoadBalancers` is one turn of
the loop (a page and its `Next`), `ListFails` the error that ends it.
`CreateLb` and `DeleteLb` are everybody else.  `answers` is a history: what
one look at the whole collection would have answered at each moment of the
call.  `VpcLoadBalancer` and `LbMonitor` take a listing as one step; this
module is why they may.  That the collection is ordered by identifier, and
`start` the first item of a page, is taken from the URL `ListSubnets` quotes.

### LbMonitor: state and actions

`svc` holds the services, `lb` the load balancers by name, `status` the map
kept between runs.  A run is `ListServices` (with
`filterLoadBalancersFromServiceList`; no service ends it), `GatherLoadBalancers`
(the list and what is stale on it), one `DeleteStale` per stale load balancer,
and `Report` (the events).  `ListFails` ends a run early.  `EditService`,
`CreateLb`, `DeleteLb`, `VpcStatus` and `Restart` are the surroundings.  Names
are model values; which of them have the cluster's prefix, and which one an
annotation gives, are constants.  Of the statuses that are not ready a failed
one and one under maintenance are kept.  `last` and `well` are histories.

### CloudCredential: state and actions

`file` is the credential file: a key, half of one, nothing, or a text with
spaces.  `cloudVpc` and `vpcClient` are the two objects made from it, each
standing for the text it was made with.  The checks of the text stop the
empty one and, in `NewConfigVpc` only, the one with spaces; half a key is
stopped by the first request made with it.  For `cloudVpc` that is the look up
of the resource group, before the object is kept; for `vpcClient` the look up
of the region, which is left out when the endpoint is given
(`EndpointOverride`), so that the client may hold any text.  A half-written or
empty text resets both objects like a key does, one with spaces resets
neither.  A `Caller`
goes through `InitCloudVpc` in three steps (`GetCloudVpc`, `NewConfigVpc`,
`NewCloudVpc`), a `Reader` through the part of `GetNodeMetadata` that needs
the client; the watcher takes an event, reads the file and resets one object
after the other.  `NewCloud` and `SetInformers` order the first use and the
start of the watch.  `excused` is a history of the windows in which a change
can be missed: an initialisation under way during the reset, a failed read
(until the next event is read), a change before the watch began (until the
first reset).

### MetadataCache: state and actions

`InstanceMetadata` and `GetZoneByNodeName` start a call with `getCachedNode`;
`GetNode`, `SetNodeCondition`, `deleteCachedNode`, `populateNodeMetadata` and
`putCachedNode` are the steps of `GetNodeMetadata`, `RequestFails` its errors,
`EndCall` the result.  `handleNodeDelete` is the node watch, whose event
`LoseEvent` may lose.  A node registered again under its name is another
incarnation, and the VPC instance of a name is the one of the registered node;
metadata is the incarnation it describes.  `cacheAge` and the
ages of entries stand for the clock.

### CloudTask: state and actions

`StartTask`, `StopTask`; the goroutine of a task is at its `select`, in the
task function, asleep or ended (`Select`, `EndRun`, `EndSleep`); `Time` moves
every ticker and duration by one unit.

## Runs

| Run | Checks | Shows |
|---|---|---|
| `serial` | `TypeOK`, `RulesRespected`, `OnePoolPerPort`, `SuccessMeansDesired`, `SettledMeansDesired`, `NeverEmptiesPool` | one call at a time, any two changes and any one fault, eight services that differ in ports, policy, type, subnets, zone, selector, protocol and node ports: plans are accepted by the VPC even after a pass that stopped half way, no port gets a second pool, success means done, an idle controller means that nothing was lost, replacing nodes never empties a pool |
| `overlap` | `ListenerTargetsOwnPort`, `PortInv`, `RoutesImplemented` | with both callers inside the provider a listener still forwards to the pool of its own port, and the listeners and pools implement `PortRoutes` |
| `converges` | `Converges` | retries reach the wanted state, or remove the load balancer of a service no longer wanted; for calls that do not overlap |
| `create_update_sync` | `TypeOK`, `ClosedOnce`, `NilMeansClosed`, `NoLateWait`, `CallsReturn` | the channel protocol, two waiting creates and three updates |
| `pages` | `TypeOK`, `FindIsAtomic`, `FindReturns` | a look up page by page answers what one look at the VPC at some moment of the call would have answered, and ends |
| `lb_monitor` | `TypeOK`, `KeepsServed`, `DeletesWhatItListed`, `NoFalseAlarm`, `EventsSettle`, `OrphansRemoved` | the monitor deletes no load balancer of an unchanged service it listed and none made since; events settle on the truth; orphans go |
| `credential` | `TypeOK`, `OnlyKeysUsed`, `CurrentUnlessRaced`, `CredentialTakesEffect` | no call about a load balancer goes on with an object made from half a key or from anything else that is none; outside the windows of `excused` no object with an old credential is left when the watcher rests, and the next event makes good a read that failed; one reset does not end the watch |
| `metadata` | `TypeOK`, `CurrentUnlessRaced`, `StalenessBounded`, `CacheRecovers` | outside the named races no answer for a deleted node or a predecessor; no answer older than the time to live plus one call; the cache recovers |
| `cloud_task` | `TypeOK`, `OneTask`, `NoRunAfterStop`, `NotConstantlyRunning`, `StoppedTaskEnds` | start, stop and long runs in every order |
| `proxy`, `lb_unsupported`, `credential_race` | one property each | the findings below |

`RulesRespected`, `OnePoolPerPort`, `SuccessMeansDesired`,
`SettledMeansDesired`, `NeverEmptiesPool` and `Converges` are claims about one
call at a time.  They are not claimed for overlapping calls: two passes with different
services do meet each other's half-made changes (`VpcHosts.cfg`,
`VpcTwoPools.cfg` and `VpcLastMember.cfg` show how).

Bounds.  Two external ports and three node ports let a service add, remove and
keep a port, change the node port of a port that stays and move a node port
from one port to another, and change the policy alone; two nodes let the
members of a pool be kept, added, removed and all replaced, and split a zone.
`converges` makes one of the nodes an edge node.
`PoolId` has as many identifiers as those states can hold at once.  `MaxPolls`
is 2: one poll that goes on, and the last one; in `overlap` it is 1, because a
poll that goes on is the same as one that comes later.  `MaxChanges` is 2, so that a
second change comes in the middle of the pass for the first, and `MaxFaults`
1 where faults are allowed.  `overlap` allows no fault; the proof of the same
invariant covers faults and every other bound.  The runs of `VpcLoadBalancer` set
`CHECK_DEADLOCK FALSE`: when the queues are empty and the changes are used up
the system is at rest.  `MaxWait` is 3 (10 in the code): a first, a middle and
a last minute.
`lb_monitor` has two services and two names, so that one can take over the
other's name; `MaxChanges` 2 allows an edit in the middle of a run and one
more change, `MaxId` 1 a second load balancer of a name.  `credential` has
two callers and one reader, so that one initialises while another one uses
the object, and sets `EndpointOverride`, which allows every behaviour there is
without it.  `metadata` has two calls for one name with two incarnations; the
time to live and the longest fill are one unit each, which is enough for a
fill to begin before an expiry and end after it.  `cloud_task` starts its
function twice, with an interval of four units and runs of up to six, so that
one run can outlast the interval and a stop can fall inside a run.  `pages`
has pages of one item, five identifiers and three names, so that load
balancers are created and deleted between the requests of one listing.

Fairness.  A call in progress takes its next step and an operation of the VPC
ends (weak fairness).  The service controller retries a failed call for ever,
and the provider may be held by the other caller in between, hence strong
fairness of the `Start...` actions.  `Converges` further assumes that the
waits are not in vain for ever: while every wait times out, a node sync with
the old service and a service sync can undo each other's first update for
ever.  `CallsReturn` assumes that runnable goroutines run and that Go's mutex
does not starve a waiter; no call has to happen.  `EventsSettle` and
`OrphansRemoved` assume that the ticker calls the monitor and a run goes on;
`CredentialTakesEffect` that the watching goroutine runs; `CacheRecovers` that
calls end, the watch delivers and time passes; `StoppedTaskEnds` that
goroutines run, the task function returns and time passes; `FindReturns` that
the loop goes on.  None of them assumes that anybody calls or changes anything.

## Findings

Each is a run of `PROJECT.json` that violates what a comment, a document or a
test says.

1. **Proxy protocol of an added pool** (`proxy`): `CreateLoadBalancerPool`
   (`vpc_sdk_gen2.go:195`) does not send `ProxyProtocol`.  A port added to a
   service with `proxy-protocol` has it disabled until some later pass, though
   the call succeeds.
2. **The monitor deletes the load balancer of an existing service**
   (`lb_unsupported`): `filterLoadBalancersFromServiceList`
   (`ibm_loadbalancer.go:138`) drops services with an unsupported
   configuration from the list, so a working load balancer whose service is
   edited to, say, an SCTP port counts as stale and is deleted by the next run.
3. **A lost reset of the credential** (`credential_race`): a call that read
   the old credential stores its object (`vpc_provider.go:93`) after the watch
   has reset it.  The old credential stays in use until the file changes again.

### Further divergences

These configurations belong to no run of `PROJECT.json`; TLC violates the one
property each of them names (`tlc -config <cfg> <module>`).

| Configuration, module | Property | What happens |
|---|---|---|
| `VpcHosts`, `MCVpcLoadBalancer` | `UpdateChangesOnlyHosts` | `EnsureLoadBalancerUpdated`, described as updating the hosts (`vpc_provider.go:183`), runs all of `UpdateLoadBalancer` with the service last synced and can delete listeners and pools a newer sync has just made; the next sync repairs it |
| `VpcTwoPools`, `MCVpcLoadBalancer` | `OnePoolPerPort` | a node update with an older service and a sync with a newer one each find no pool for a port and create one (`vpc_lbaas.go:615`), under two names because the node port differs; renaming one to the other's name is then refused as long as the service keeps the port |
| `VpcLastMember`, `MCVpcLoadBalancer` | `NeverEmptiesPool` | two overlapping passes with different nodes each remove a member that is not the last on their own listing |
| `VpcNoAddress`, `MCVpcLoadBalancer` | `NeverEmptiesPool` | the check for available nodes (`vpc_lbaas.go:539`) comes before `getNodeIDs` drops nodes without an internal address (556), so pools can be emptied |
| `VpcSubnetNames`, `MCVpcLoadBalancer` | `OnlyConfiguredSubnets` | `s-1` is used when only `s-10` is configured (`vpc_config.go:212`) |
| `LbNodePort`, `MCLbMonitor` | `NodePortKept` | `npMap` (`vpc_provider.go:246-260`) is always empty, because the caller has dropped node port services (`ibm_loadbalancer.go:137`); their load balancers are deleted |
| `LbForeignName`, `MCLbMonitor` | `NoFalseAlarm` | a service whose annotation gives a name without the cluster's prefix is reported as not found though its load balancer is active (`vpc_provider.go:237`) |
| `LbTwoFailures`, `MCLbMonitor` | `TwoFailuresWarn` | failed in one run and under maintenance in the next gives no warning, because the same status is wanted twice (`vpc_provider.go:401`, against `ibm_loadbalancer.go:150`) |
| `CredentialReplaced`, `MCCloudCredential` | `ReplacedTakesEffect` | a file that is replaced, as a mounted secret is, gives no Write event (`ibm_vpc_cloud.go:303`) and is never noticed |
| `CredentialHalf`, `MCCloudCredential` | `ClientFromKey` | with an endpoint override the metadata service keeps a client made from half a key or from a text with spaces (`ibm_vpc_client.go:109-124`), which `NewConfigVpc` refuses (`ibm_vpc_cloud.go:113`); a text with spaces stays until the file is written again, because the watch ignores it too |
| `CredentialNil`, `MCCloudCredential` | `NoNilClient` | the client is reset between its test and its use (`ibm_metadata_service.go:208`, `216`) |
| `CredentialStartup`, `MCCloudCredential` | `NoMissedChange` | a change between `NewCloud` and `SetInformers`, that is while a standby waits to become leader, is missed (`ibm.go:195`, `293`) |
| `MetadataProvider`, `MCMetadataCache` | `ProviderIDMatches` | the comparison of provider ids (`ibm_metadata_service.go:194`) is reached only after a miss and compares with the empty value; metadata of a predecessor is answered from the cache |
| `MetadataCondition`, `MCMetadataCache` | `InitialisedWithCondition` | a cache hit (`ibm_metadata_service.go:120`) skips the condition NetworkUnavailable of a new node (`ibm.go:137`) |

Seen while modelling, and part of the models: with no monitored service the
monitor returns before it lists the load balancers (`ibm_vpc_cloud.go:240`),
so orphans stay as long as that lasts (`OrphansRemoved` says so); the status
map is never pruned; of two services that give one name only the later one is
reported.  `KeepsServed` is about services on the monitor's list: a service
made after the list was, whose load balancer is ready before the load
balancers are listed, would lose it.

## Proofs

Every invariant and every action property that a run checks is a theorem: it
holds for every set of services, nodes, subnets, ports, identifiers and
threads, and every bound.  The theorems assume what the modules assume of
their constants:

* `PortAssumption`, `NodeAssumption`, `SubnetAssumption`: ports and
  identifiers are positive, `Addressed` nodes are nodes, subnets are subnets;
* `ServiceAssumption`: services are well formed and have one port of a number
  and protocol, which Kubernetes enforces;
* `BoundAssumption`, `SyncAssumption`, `CredentialAssumption`: bounds are
  numbers; `NoneAssumption`: no object is no credential;
* `TaskAssumption`: the interval is an even number of units, so that
  `maxTaskRunDuration` (`ibm_task.go:94`), half of it, is a whole one;
* `CacheAssumption`, `PageAssumption`: there is a name; the time to live, the
  longest fill and a page are not zero;
* `MonitorAssumption`: a generated name has the cluster's prefix and belongs to
  one service.

Where a theorem needs more it says so in its own hypotheses:

| Hypothesis | Theorems | Why |
|---|---|---|
| `~Overlap` | all of `VpcSerialProofs` | two passes with different services do meet each other's half-made changes; `VpcTwoPools.cfg` and `VpcLastMember.cfg` violate `OnePoolPerPort` and `NeverEmptiesPool` |
| `SomeAddress`: of the nodes a service selects one has an address | `NeverEmptied` | the code does not check it, and without it pools are emptied (`VpcNoAddress.cfg`) |
| `LocalHealth`: a service with local traffic policy has a health check port | `SuccessDesired`, `SettledDesired` | the API server allocates one; the planner leaves the health monitor alone while it is 0 |
| `UniqueSubnets`: an identifier tells a subnet | `SuccessDesired`, `SettledDesired` | identifiers of the VPC |
| names from annotations have the cluster's prefix | `NoAlarm` | others are reported as missing (`LbForeignName.cfg`); `OwnNotAlarmed` needs no hypothesis and is about the services whose name has it |

The arguments:

* `TypeCorrect`: `TypeOK` is inductive by itself.  Most of the work is
  `PlanType` (every update the planner makes is well formed) and `PerformType`
  (every API operation keeps pools and listeners well formed).
* `PortCorrect`, `ListenersSafe`: `ListenerTargetsOwnPort` is not inductive.  A
  listener is made from a pool the call *remembers*, a pool is renamed by an
  update that was *planned* earlier.  `PortInv` adds that identifiers are
  unique (`UniqueIds`), that what a call remembers of an existing pool still
  tells its external port (`ViewsAgree`), and that a planned rename stays
  within the port (`RenamesKeepPort`, from the lemma `PlanRenames` on the
  planner).  `PerformKeepsPorts` shows for each of the eight operations that
  the invariant survives, whatever the other caller does.
* `RoutesRefined`: initial states map to initial states of `PortRoutes` and
  every step to one of its steps or to a stutter (`CloudEffect` sorts the steps
  by what they do to the VPC).  It needs `PortInv` and `RoutesInv`: a load
  balancer that does not exist has neither listeners nor pools, so that a
  create opens ports that were closed, and a port has one listener.
* `SerialCorrect`, `RulesKept`, `PoolsUnique`, `NeverEmptied`: a plan is made
  from one listing and performed over many steps, with the VPC changed in
  between by the plan itself.  `SerialInv` says what the *rest* of a plan keeps
  while it is performed (`PlanGood`): listeners to delete are there, pools to
  create are the first of their port, a pool to delete is freed first, a
  listener to create has its pool or gets it first, a member to remove is not
  the last.  `PlanIsGood` proves it of what steps 1 to 8 make, `PerformGood`
  that each of the eight operations, taken in the order of the plan, keeps it;
  a pass that stops leaves `CloudGood`, which is all the next listing needs.
* `LeadCorrect`, `SuccessDesired`: `RulesRespected` alone allows a planner that
  does nothing.  `LeadInv` says that what is there *and* what the rest of the
  plan will do is what the service asks for (`Leads`, per port and per pool:
  listener, pool, name and health monitor, members), that the load balancer is
  in its place (`PlacedAs`), and that with the plan done the VPC matches
  (`LeadsMatches`).  `PlanLeads` is completeness of the planner, including that
  the grouping of step 8 replaces members only by the wanted ones
  (`StepEightReplaces`); `PerformLeads` shows that an update takes out of the
  plan exactly what it brings about.
* `SettledDesired`: `SettledInv` ties the controller's queues to the VPC: a
  sync under way that is not queued again is for the service as it is
  (`SyncCurrent`); once it is over, the load balancer is there and in place,
  `cached` is the service, a node update under way has it too, and the hosts
  are right unless `nodePending` (`SyncDone`).
* `SyncClosedOnce`, `SyncNilMeansClosed`, `SyncNoLateWait`, `SyncTypeCorrect`:
  from `SyncInv` (mutual exclusion, and what a thread between `Check` and
  `Clear` knows) and `WaitInv` (a thread that is blocked has counted no late
  minute, so it can count at most one), for any number of threads.
* `PagesTypeCorrect`, `FindAtomic`: from `PagesInv`.  Names are unique at any
  moment, so an item of the name that was read was the answer when it was read
  (`Counted`); while none was read, one is still to come or there was a moment
  without one (`NotMissed`).
* `MonitorTypeCorrect`, `ServedKept`, `ListedDeleted`, `OwnNotAlarmed`,
  `NoAlarm`: from `MonitorInv`: what is stale was active on the list and has no
  service on it (`StaleListed`); a service that has been well since the run
  began is as listed and its load balancer is listed as active (`WellListed`);
  the status map and the last events agree (`ActiveReported`).
* `CredentialTypeCorrect`, `KeysOnly`, `ObjectsCurrent`: from `CredentialInv`:
  `OnlyKeysUsed` is inductive with the types (`KeysRead`), because an object
  is kept only after the look up of the resource group; and once the watcher has passed the reset of an object, the object *and every
  initialisation under way* have the credential in the file (`VpcCurrent`,
  `ClientCurrent`), which is what `excused` names the exceptions to.
* `CacheTypeCorrect`, `CacheCurrent`, `CacheNotStale`: from `CacheInv`: what a
  call has read and not yet put into the cache is about a node that is still
  there, or the call's name is excused or the event is still to come
  (`CallsOK`); an entry is older than the cache by one call at most
  (`AgesBounded`).
* `TaskTypeCorrect`, `OneTaskAtMost`, `StopIsFinal`, `TaskIsPaced`: from
  `TaskInv`: a stopped ticker has no tick waiting (`Stopped`), and after a run
  that is not followed by a sleep the next tick is more than half an interval
  away, so a third run in a row cannot begin (`Paced`).

Only model-checked: the liveness properties `Converges`, `CallsReturn`,
`FindReturns`, `EventsSettle`, `OrphansRemoved`, `CredentialTakesEffect`,
`CacheRecovers` and `StoppedTaskEnds`, since the prover has no rules for
fairness and `ENABLED`.  `SerialInv`, `LeadInv` and `SettledInv` were checked
by TLC on the instance of `serial` before they were proved.

## Not modelled

Network load balancers: `CreateLoadBalancer` of the SDK adapter requests no
network profile, so the one branch on `IsNLB` is never taken for a load
balancer this provider makes.  Formatting and parsing of text, pointer conversions of the SDK,
IAM tokens, endpoint selection, reading of the configuration file and building
of clients, the text of events and logs, the classic provider (not in the
repository), clusters and routes (not supported), the fake SDK (a test
double).  Panics of the node watch handler (`handleNodeWatchCrash`) and of a
task are not modelled beyond the panic `NoNilClient` is about.

## Plan

Invariants that the liveness properties rest on, as theorems: that what a
waiting state waits for is still to come (a wake up in `CreateUpdateSync`, an
event in `MetadataCache`, a queued call in `VpcLoadBalancer`).
