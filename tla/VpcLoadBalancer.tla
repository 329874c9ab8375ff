--------------------------- MODULE VpcLoadBalancer ---------------------------
(***************************************************************************)
(* One Kubernetes service and its VPC load balancer.  Two callers drive    *)
(* the provider: the service worker ("sync": EnsureLoadBalancer and        *)
(* EnsureLoadBalancerDeleted) and the node worker ("nodes":                *)
(* EnsureLoadBalancerUpdated, with the service as it was last synced).     *)
(* Every call to the VPC API is one step, so that the other worker, the    *)
(* cluster and the VPC itself can act between any two of them; so is a     *)
(* listing, which takes several requests (VpcPages).                       *)
(*                                                                         *)
(* The VPC API and the Kubernetes service controller are external: they    *)
(* are modelled from how the provider uses them.                           *)
(***************************************************************************)
EXTENDS VpcPlan, Integers

CONSTANTS
    Overlap,     \* may the two workers be inside the provider at once?
    MaxPolls,    \* maxWait / minSleep of WaitLoadBalancerReady
    MaxChanges,  \* bound on the changes of the service and of the nodes
    MaxFaults    \* bound on API failures, restarts, maintenance, foreign pools

ASSUME BoundAssumption ==
    /\ Overlap \in BOOLEAN
    /\ MaxPolls \in Nat \ {0}
    /\ MaxChanges \in Nat
    /\ MaxFaults \in Nat

VARIABLES
    lb,         \* the load balancer object in the VPC
    listeners,  \* its listeners
    pools,      \* its pools and their members
    kube,       \* what Kubernetes wants, and the controller's work queues
    wk,         \* the two calls into the provider
    changes,    \* changes used of MaxChanges
    faults      \* faults used of MaxFaults

vars == <<lb, listeners, pools, kube, wk, changes, faults>>

Worker == {"sync", "nodes"}

Status == {"none", "create_pending", "active", "update_pending",
           "maintenance_pending", "delete_pending"}

\* The provider's view of a pool in VpcLoadBalancer.Pools.
PoolRef == [id: PoolId, name: VpcPoolNameFields]

\* A call: its arguments (op, svc, nodes), the load balancer it found (lb,
\* refs), what it listed (listeners, pools), what it has still to do (plan).
Call ==
    [pc: {"idle", "find", "create", "delete", "listeners", "pools", "get",
          "wait", "exec", "done"},
     op: {"none", "ensure", "update", "delete"},
     svc: Services, nodes: SUBSET Node, lb: Nat, refs: SUBSET PoolRef,
     listeners: SUBSET VpcLoadBalancerListener,
     pools: SUBSET VpcLoadBalancerPool, plan: SUBSET Update,
     polls: 0 .. MaxPolls - 1, result: {"none", "ok", "busy", "rule", "error"}]

IdleCall ==
    [pc |-> "idle", op |-> "none", svc |-> CHOOSE s \in Services : TRUE,
     nodes |-> {}, lb |-> 0, refs |-> {}, listeners |-> {}, pools |-> {},
     plan |-> {}, polls |-> 0, result |-> "none"]

NoLb == [id |-> 0, status |-> "none", public |-> FALSE, subnets |-> {}]

\* Type correctness of the cloud, cluster and call state.
TypeOK ==
    /\ lb \in [id: Nat, status: Status, public: BOOLEAN, subnets: SUBSET STRING]
    /\ listeners \subseteq VpcLoadBalancerListener
    /\ pools \subseteq VpcLoadBalancerPool
    /\ kube \in [service: Services, wanted: BOOLEAN, nodes: SUBSET Node,
                 cached: SUBSET Services, syncPending: BOOLEAN,
                 nodePending: BOOLEAN]
    /\ wk \in [Worker -> Call]
    /\ changes \in 0 .. MaxChanges
    /\ faults \in 0 .. MaxFaults

Init ==
    /\ lb = NoLb
    /\ listeners = {}
    /\ pools = {}
    /\ \E s \in Services, n \in SUBSET Node :
          kube = [service |-> s, wanted |-> TRUE, nodes |-> n, cached |-> {},
                  syncPending |-> TRUE, nodePending |-> FALSE]
    /\ wk = [w \in Worker |-> IdleCall]
    /\ changes = 0
    /\ faults = 0

-----------------------------------------------------------------------------
(* The VPC API (external) *)

IsReady == lb.status = "active"

Refs == {[id |-> p.id, name |-> p.name] : p \in pools}

\* Identifiers some part of the system still knows; a new pool gets none of
\* them (the VPC never reuses an identifier).
UsedIds ==
    {p.id : p \in pools} \cup {l.pool : l \in listeners}
      \cup (UNION {{r.id : r \in wk[w].refs} : w \in Worker})
      \cup (UNION {{p.id : p \in wk[w].pools} : w \in Worker})
      \cup (UNION {{l.pool : l \in wk[w].listeners} : w \in Worker})

FreshIds == PoolId \ UsedIds

\* The object a call works on still exists.
Found(w) == lb.status # "none" /\ lb.id = wk[w].lb

\* Rules of the VPC API on the operations of a plan; the listener's pool is
\* looked up by createLoadBalancerListener in the load balancer last read.
Allowed(w, u) ==
    LET named == {p \in pools : u.cmd # "DELETE-LISTENER" /\ p.name = u.name}
        known == IF u.cmd \in {"DELETE-LISTENER", "CREATE-POOL", "CREATE-LISTENER"}
                 THEN {} ELSE {p \in pools : p.id = u.pool}
    IN  CASE u.cmd = "DELETE-LISTENER" -> u.listener \in listeners
          [] u.cmd = "DELETE-POOL" ->
                known # {} /\ \A l \in listeners : l.pool # u.pool
          [] u.cmd = "CREATE-POOL" -> named = {}
          [] u.cmd = "CREATE-LISTENER" ->
                /\ \E r \in wk[w].refs : /\ r.name = u.name
                                         /\ \E p \in pools : p.id = r.id
                /\ \A l \in listeners : l.port # u.name.port
          [] u.cmd = "UPDATE-POOL" -> known # {} /\ named \subseteq known
          [] u.cmd = "REPLACE-POOL-MEMBERS" -> known # {}
          [] u.cmd = "CREATE-POOL-MEMBER" ->
                known # {} /\ \A p \in known : u.member \notin p.members
          [] u.cmd = "DELETE-POOL-MEMBER" ->
                known # {} /\ \A p \in known : u.member \in p.members

-----------------------------------------------------------------------------
(* The operations of a plan: the SDK call and its effect in the VPC *)

\* Mutant: the listener is bound to any pool of the load balancer.
createLoadBalancerListenerAnyPool(w, u) ==
    /\ u.cmd = "CREATE-LISTENER"
    /\ \E r \in wk[w].refs :
          /\ r.id \in {p.id : p \in pools}
          /\ listeners' = listeners \cup
                {[protocol |-> u.name.protocol, port |-> u.name.port, pool |-> r.id]}
    /\ UNCHANGED pools

createLoadBalancerListener(w, u) ==
    /\ u.cmd = "CREATE-LISTENER"
    /\ \E r \in wk[w].refs :
          /\ r.name = u.name
          /\ r.id \in {p.id : p \in pools}
          /\ listeners' = listeners \cup
                {[protocol |-> u.name.protocol, port |-> u.name.port, pool |-> r.id]}
    /\ UNCHANGED pools

\* CreateLoadBalancerPool sends no proxy protocol: the VPC default, disabled.
createLoadBalancerPool(w, u) ==
    /\ u.cmd = "CREATE-POOL"
    /\ FreshIds # {}
    /\ pools' = pools \cup
          {[id |-> CHOOSE i \in FreshIds : TRUE, name |-> u.name,
            hm |-> genLoadBalancerHealthMonitor(u.name.nodePort,
                      getServiceHealthCheckNodePort(wk[w].svc)),
            proxy |-> "disabled",
            members |-> genLoadBalancerMembers(u.name.nodePort,
                           NodeList(wk[w].svc, wk[w].nodes))]}
    /\ UNCHANGED listeners

createLoadBalancerPoolMember(w, u) ==
    /\ u.cmd = "CREATE-POOL-MEMBER"
    /\ pools' = {IF p.id = u.pool THEN [p EXCEPT !.members = @ \cup {u.member}]
                                 ELSE p : p \in pools}
    /\ UNCHANGED listeners

deleteLoadBalancerListener(w, u) ==
    /\ u.cmd = "DELETE-LISTENER"
    /\ listeners' = listeners \ {u.listener}
    /\ UNCHANGED pools

deleteLoadBalancerPool(w, u) ==
    /\ u.cmd = "DELETE-POOL"
    /\ pools' = {p \in pools : p.id # u.pool}
    /\ UNCHANGED listeners

deleteLoadBalancerPoolMember(w, u) ==
    /\ u.cmd = "DELETE-POOL-MEMBER"
    /\ pools' = {IF p.id = u.pool THEN [p EXCEPT !.members = @ \ {u.member}]
                                 ELSE p : p \in pools}
    /\ UNCHANGED listeners

replaceLoadBalancerPoolMembers(w, u) ==
    /\ u.cmd = "REPLACE-POOL-MEMBERS"
    /\ LET members == genLoadBalancerMembers(u.name.nodePort,
                          NodeList(wk[w].svc, wk[w].nodes))
       IN  pools' = {IF p.id = u.pool THEN [p EXCEPT !.members = members]
                                      ELSE p : p \in pools}
    /\ UNCHANGED listeners

\* The patch holds the name and the health monitor, and the proxy protocol
\* when the pool as listed differs from the one requested.
updateLoadBalancerPool(w, u) ==
    LET svc == wk[w].svc
        requested == IF svc.proxyProtocol THEN "v1" ELSE "disabled"
        differs == \E q \in wk[w].pools : q.id = u.pool /\ q.proxy # requested
        hm == genLoadBalancerHealthMonitor(u.name.nodePort,
                 getServiceHealthCheckNodePort(svc))
    IN  /\ u.cmd = "UPDATE-POOL"
        /\ pools' = {IF p.id = u.pool
                     THEN [p EXCEPT !.name = u.name, !.hm = hm,
                                    !.proxy = IF differs THEN requested ELSE @]
                     ELSE p : p \in pools}
        /\ UNCHANGED listeners

Perform(w, u) ==
    \/ createLoadBalancerListener(w, u)
    \/ createLoadBalancerPool(w, u)
    \/ createLoadBalancerPoolMember(w, u)
    \/ deleteLoadBalancerListener(w, u)
    \/ deleteLoadBalancerPool(w, u)
    \/ deleteLoadBalancerPoolMember(w, u)
    \/ replaceLoadBalancerPoolMembers(w, u)
    \/ updateLoadBalancerPool(w, u)

-----------------------------------------------------------------------------
(* A call into the provider *)

cluster == <<kube, changes, faults>>
cloud == <<lb, listeners, pools>>

Idle(w) == wk[w].pc = "idle"

\* Without overlap one call at a time is inside the provider.
MayStart(w) == Idle(w) /\ (Overlap \/ \A v \in Worker : Idle(v))

\* EnsureLoadBalancer refuses a configuration that is not supported, and like
\* UpdateLoadBalancer an empty node list.
Refused(op, svc, nodes) ==
    \/ op = "ensure" /\ ~isServiceConfigurationSupported(svc)
    \/ op # "delete" /\ nodes = {}

Begin(w, op, svc, nodes) ==
    wk' = [wk EXCEPT ![w] =
        [IdleCall EXCEPT !.op = op, !.svc = svc, !.nodes = nodes,
            !.pc = IF Refused(op, svc, nodes) THEN "done" ELSE "find",
            !.result = IF Refused(op, svc, nodes) THEN "error" ELSE "none"]]

Finish(w, result) ==
    wk' = [wk EXCEPT ![w].pc = "done", ![w].result = result]

\* Go on with the load balancer that was found.
Take(w, pc) ==
    wk' = [wk EXCEPT ![w].pc = pc, ![w].lb = lb.id, ![w].refs = Refs]

\* UpdateLoadBalancer returns an error before it lists the listeners.
UpdateInvalid(c) ==
    \/ ~validateService(c.svc)
    \/ ~validateServiceTypeNotUpdated(c.svc, lb.public)
    \/ ~validateServiceSubnetsNotUpdated(c.svc, lb.subnets)
    \/ FilterNodes(c.svc, c.nodes) = {}

BeginUpdate(w) ==
    CASE ~IsReady -> Finish(w, "busy")
      [] IsReady /\ UpdateInvalid(wk[w]) -> Finish(w, "error")
      [] OTHER -> Take(w, "listeners")

EnsureLoadBalancer(w) ==
    /\ wk[w].op = "ensure"
    /\ IF lb.status = "none" THEN wk' = [wk EXCEPT ![w].pc = "create"]
                             ELSE BeginUpdate(w)

EnsureLoadBalancerDeleted(w) ==
    /\ wk[w].op = "delete"
    /\ IF lb.status = "none" THEN Finish(w, "ok") ELSE Take(w, "delete")

EnsureLoadBalancerUpdated(w) ==
    /\ wk[w].op = "update"
    /\ IF lb.status = "none" THEN Finish(w, "ok") ELSE BeginUpdate(w)

\* FindLoadBalancer, and what the caller makes of its answer.
FindLoadBalancer(w) ==
    /\ wk[w].pc = "find"
    /\ \/ EnsureLoadBalancer(w)
       \/ EnsureLoadBalancerDeleted(w)
       \/ EnsureLoadBalancerUpdated(w)
    /\ UNCHANGED <<cloud, cluster>>

\* CreateLoadBalancer returns an error before it calls the API.
CreateInvalid(c) ==
    \/ ~validateService(c.svc)
    \/ SubnetList(c.svc) = {}
    \/ FilterNodes(c.svc, c.nodes) = {}

Injective(f) == \A x, y \in DOMAIN f : f[x] = f[y] => x = y

\* The load balancer, listeners and pools of a create request.
CreateRequest(w) ==
    LET c == wk[w]
        names == getServicePoolNames(c.svc)
        ids == CHOOSE f \in [names -> FreshIds] : Injective(f)
    IN  /\ \E f \in [names -> FreshIds] : Injective(f)
        /\ lb' = [id |-> lb.id + 1, status |-> "create_pending",
                  public |-> c.svc.public, subnets |-> SubnetList(c.svc)]
        /\ pools' = {[id |-> ids[n], name |-> n,
                      hm |-> genLoadBalancerHealthMonitor(n.nodePort,
                                getServiceHealthCheckNodePort(c.svc)),
                      proxy |-> IF c.svc.proxyProtocol THEN "v1" ELSE "disabled",
                      members |-> genLoadBalancerMembers(n.nodePort,
                                     NodeList(c.svc, c.nodes))] : n \in names}
        /\ listeners' = {[protocol |-> "tcp", port |-> n.port, pool |-> ids[n]] :
                            n \in names}

\* The API refuses a second load balancer of that name.
CreateLoadBalancer(w) ==
    /\ wk[w].pc = "create"
    /\ IF CreateInvalid(wk[w]) \/ lb.status # "none"
       THEN Finish(w, "error") /\ UNCHANGED cloud
       ELSE CreateRequest(w) /\ Finish(w, "ok")
    /\ UNCHANGED cluster

DeleteRequest ==
    /\ lb' = [lb EXCEPT !.status = "delete_pending"]
    /\ UNCHANGED <<listeners, pools>>

\* The API deletes only a load balancer that has no operation pending.
DeleteLoadBalancer(w) ==
    /\ wk[w].pc = "delete"
    /\ IF Found(w) /\ IsReady
       THEN DeleteRequest /\ Finish(w, "ok")
       ELSE Finish(w, "busy") /\ UNCHANGED cloud
    /\ UNCHANGED cluster

ListLoadBalancerListeners(w) ==
    /\ wk[w].pc = "listeners"
    /\ IF Found(w)
       THEN wk' = [wk EXCEPT ![w].pc = "pools", ![w].listeners = listeners]
       ELSE Finish(w, "error")
    /\ UNCHANGED <<cloud, cluster>>

\* ListLoadBalancerPools, then steps 1 to 8 on the two listings.
ListLoadBalancerPools(w) ==
    /\ wk[w].pc = "pools"
    /\ LET c == wk[w]
           plan == Plan(c.svc, NodeList(c.svc, c.nodes), c.listeners, pools)
       IN  CASE ~Found(w) \/ PlanError(pools) -> Finish(w, "error")
             [] Found(w) /\ ~PlanError(pools) /\ plan = {} -> Finish(w, "ok")
             [] OTHER -> wk' = [wk EXCEPT ![w].pc = "exec", ![w].pools = pools,
                                          ![w].plan = plan]
    /\ UNCHANGED <<cloud, cluster>>

\* An update was accepted: go on with the next one or return.
Performed(w, u) ==
    /\ Perform(w, u)
    /\ lb' = [lb EXCEPT !.status = "update_pending"]

Advance(w, u) ==
    LET rest == wk[w].plan \ {u}
    IN  wk' = [wk EXCEPT ![w].plan = rest,
                         ![w].pc = IF rest = {} THEN "done" ELSE "get",
                         ![w].result = IF rest = {} THEN "ok" ELSE "none"]

\* Process the current update of the plan.
ExecUpdate(w) ==
    /\ wk[w].pc = "exec"
    /\ \E u \in wk[w].plan :
          /\ IsNext(u, wk[w].plan)
          /\ CASE ~Found(w) \/ ~IsReady ->
                     Finish(w, "busy") /\ UNCHANGED cloud
               [] Found(w) /\ IsReady /\ ~Allowed(w, u) ->
                     Finish(w, "rule") /\ UNCHANGED cloud
               [] OTHER -> Performed(w, u) /\ Advance(w, u)
    /\ UNCHANGED cluster

\* The load balancer is read again before each update but the first.
GetLoadBalancer(w) ==
    /\ wk[w].pc = "get"
    /\ IF Found(w)
       THEN wk' = [wk EXCEPT ![w].refs = Refs, ![w].polls = 0,
                             ![w].pc = IF IsReady THEN "exec" ELSE "wait"]
       ELSE Finish(w, "error")
    /\ UNCHANGED <<cloud, cluster>>

\* Mutant: the loop does not count its polls.
WaitWithoutLimit(w) ==
    /\ wk[w].pc = "wait"
    /\ IF Found(w)
       THEN wk' = [wk EXCEPT ![w].refs = Refs, ![w].polls = @ + 1,
                             ![w].pc = IF IsReady THEN "exec" ELSE "wait"]
       ELSE Finish(w, "error")
    /\ UNCHANGED <<cloud, cluster>>

\* One sleep and Get of the loop; the answer of the last Get is not looked at.
WaitLoadBalancerReady(w) ==
    /\ wk[w].pc = "wait"
    /\ CASE ~Found(w) -> Finish(w, "error")
         [] Found(w) /\ wk[w].polls + 1 = MaxPolls -> Finish(w, "busy")
         [] OTHER -> wk' = [wk EXCEPT ![w].refs = Refs, ![w].polls = @ + 1,
                                      ![w].pc = IF IsReady THEN "exec" ELSE "wait"]
    /\ UNCHANGED <<cloud, cluster>>

\* More than maxWait seconds have passed although polls are left.
WaitTimeout(w) ==
    /\ wk[w].pc = "wait"
    /\ Finish(w, "busy")
    /\ UNCHANGED <<cloud, cluster>>

\* The call returns to the controller, which queues a failed one again and
\* remembers the service of a successful one.
Return(w) ==
    /\ wk[w].pc = "done"
    /\ LET c == wk[w]
           failed == c.result # "ok"
       IN  kube' = [kube EXCEPT
              !.syncPending = @ \/ (failed /\ c.op # "update"),
              !.nodePending = @ \/ (failed /\ c.op = "update"),
              !.cached = CASE failed \/ c.op = "update" -> @
                           [] ~failed /\ c.op = "ensure" -> {c.svc}
                           [] OTHER -> {}]
    /\ wk' = [wk EXCEPT ![w] = IdleCall]
    /\ UNCHANGED <<cloud, changes, faults>>

-----------------------------------------------------------------------------
(* The service controller (external) *)

StartEnsure ==
    /\ MayStart("sync") /\ kube.syncPending /\ kube.wanted
    /\ Begin("sync", "ensure", kube.service, kube.nodes)
    /\ kube' = [kube EXCEPT !.syncPending = FALSE]
    /\ UNCHANGED <<cloud, changes, faults>>

StartDelete ==
    /\ MayStart("sync") /\ kube.syncPending /\ ~kube.wanted
    /\ Begin("sync", "delete", kube.service, {})
    /\ kube' = [kube EXCEPT !.syncPending = FALSE]
    /\ UNCHANGED <<cloud, changes, faults>>

StartUpdate ==
    /\ MayStart("nodes") /\ kube.nodePending
    /\ \E s \in kube.cached : Begin("nodes", "update", s, kube.nodes)
    /\ kube' = [kube EXCEPT !.nodePending = FALSE]
    /\ UNCHANGED <<cloud, changes, faults>>

-----------------------------------------------------------------------------
(* The cluster and the VPC *)

ChangeService ==
    /\ changes < MaxChanges
    /\ \E s \in Services \ {kube.service} :
          kube' = [kube EXCEPT !.service = s, !.syncPending = TRUE]
    /\ changes' = changes + 1
    /\ UNCHANGED <<cloud, wk, faults>>

\* The service is deleted, or is no longer of type LoadBalancer, or is again.
ToggleWanted ==
    /\ changes < MaxChanges
    /\ kube' = [kube EXCEPT !.wanted = ~@, !.syncPending = TRUE]
    /\ changes' = changes + 1
    /\ UNCHANGED <<cloud, wk, faults>>

ChangeNodes ==
    /\ changes < MaxChanges
    /\ \E n \in SUBSET Node \ {kube.nodes} :
          kube' = [kube EXCEPT !.nodes = n, !.nodePending = TRUE]
    /\ changes' = changes + 1
    /\ UNCHANGED <<cloud, wk, faults>>

CloudReady ==
    /\ lb.status \in {"create_pending", "update_pending", "maintenance_pending"}
    /\ lb' = [lb EXCEPT !.status = "active"]
    /\ UNCHANGED <<listeners, pools, wk, cluster>>

CloudDeleted ==
    /\ lb.status = "delete_pending"
    /\ lb' = [NoLb EXCEPT !.id = lb.id]
    /\ listeners' = {}
    /\ pools' = {}
    /\ UNCHANGED <<wk, cluster>>

Maintenance ==
    /\ faults < MaxFaults /\ lb.status = "active"
    /\ lb' = [lb EXCEPT !.status = "maintenance_pending"]
    /\ faults' = faults + 1
    /\ UNCHANGED <<listeners, pools, wk, kube, changes>>

\* Somebody adds a pool of a name of their own to the load balancer, or
\* removes it again.
AddForeignPool ==
    /\ faults < MaxFaults /\ lb.status = "active" /\ FreshIds # {}
    /\ \E e \in ExtPort, n \in NodePort :
          pools' = pools \cup
            {[id |-> CHOOSE i \in FreshIds : TRUE,
              name |-> [protocol |-> "other", port |-> e, nodePort |-> n],
              hm |-> [type |-> "tcp", port |-> n], proxy |-> "disabled",
              members |-> {}]}
    /\ faults' = faults + 1
    /\ UNCHANGED <<lb, listeners, wk, kube, changes>>

RemoveForeignPool ==
    /\ lb.status = "active"
    /\ \E p \in pools : /\ p.name.protocol = "other"
                        /\ \A l \in listeners : l.pool # p.id
                        /\ pools' = pools \ {p}
    /\ UNCHANGED <<lb, listeners, wk, cluster>>

\* An API call fails and has had no effect.
ApiFails(w) ==
    /\ faults < MaxFaults
    /\ wk[w].pc \notin {"idle", "done"}
    /\ Finish(w, "error")
    /\ faults' = faults + 1
    /\ UNCHANGED <<cloud, kube, changes>>

\* A request takes effect and its reply is lost (the client times out).
ReplyLost(w) ==
    /\ faults < MaxFaults
    /\ \/ /\ wk[w].pc = "exec" /\ Found(w) /\ IsReady
          /\ \E u \in wk[w].plan : /\ IsNext(u, wk[w].plan)
                                   /\ Allowed(w, u)
                                   /\ Performed(w, u)
       \/ /\ wk[w].pc = "create" /\ ~CreateInvalid(wk[w]) /\ lb.status = "none"
          /\ CreateRequest(w)
       \/ /\ wk[w].pc = "delete" /\ Found(w) /\ IsReady
          /\ DeleteRequest
    /\ Finish(w, "error")
    /\ faults' = faults + 1
    /\ UNCHANGED <<kube, changes>>

\* The controller restarts: both calls are gone, every service is synced
\* again.
Restart ==
    /\ faults < MaxFaults
    /\ wk' = [w \in Worker |-> IdleCall]
    /\ kube' = [kube EXCEPT !.cached = {}, !.syncPending = TRUE,
                            !.nodePending = FALSE]
    /\ faults' = faults + 1
    /\ UNCHANGED <<cloud, changes>>

CallStep(w) ==
    \/ FindLoadBalancer(w) \/ CreateLoadBalancer(w) \/ DeleteLoadBalancer(w)
    \/ ListLoadBalancerListeners(w) \/ ListLoadBalancerPools(w)
    \/ ExecUpdate(w) \/ GetLoadBalancer(w) \/ WaitLoadBalancerReady(w)
    \/ Return(w)

Next ==
    \/ \E w \in Worker : CallStep(w) \/ WaitTimeout(w) \/ ApiFails(w) \/ ReplyLost(w)
    \/ StartEnsure \/ StartDelete \/ StartUpdate
    \/ ChangeService \/ ToggleWanted \/ ChangeNodes
    \/ CloudReady \/ CloudDeleted \/ Maintenance
    \/ AddForeignPool \/ RemoveForeignPool \/ Restart

Spec == Init /\ [][Next]_vars

\* A call in progress goes on, an operation of the VPC ends, and a queued
\* service is started again and again although the other worker may hold it
\* off in between.
Fairness ==
    /\ \A w \in Worker : WF_vars(CallStep(w))
    /\ SF_vars(StartEnsure) /\ SF_vars(StartDelete) /\ SF_vars(StartUpdate)
    /\ WF_vars(CloudReady) /\ WF_vars(CloudDeleted)

FairSpec == Spec /\ Fairness

-----------------------------------------------------------------------------
(* Properties *)

\* The pools this provider can have made: their names parse.
OwnPools == {p \in pools : Parses(p.name)}

\* The VPC holds what the service and nodes ask for: a listener and a pool
\* per port, and the members and health monitor of each pool.
Matches(svc, nodes) ==
    /\ {<<l.protocol, l.port>> : l \in listeners}
          = {<<Lower(kp.protocol), kp.port>> : kp \in svc.ports}
    /\ {p.name : p \in OwnPools} = getServicePoolNames(svc)
    /\ \A p \in OwnPools :
          /\ p.members = genLoadBalancerMembers(p.name.nodePort, NodeList(svc, nodes))
          /\ p.hm = genLoadBalancerHealthMonitor(p.name.nodePort,
                       getServiceHealthCheckNodePort(svc))

\* The load balancer is of the type and in the subnets svc asks for, an entry
\* of the subnets annotation being an identifier, a name or a CIDR.  The zone
\* annotation is not looked at: it chooses the subnets of a new load balancer,
\* and when it changes later only the members follow (Matches).
Placed(svc) ==
    LET Names(s) == {s.id, s.name, s.cidr}
    IN  /\ lb.public = svc.public
        /\ \A i \in lb.subnets : \E s \in Subnets :
              /\ s.id = i /\ s.vpc = VpcName
              /\ svc.subnets # {} => svc.subnets \cap Names(s) # {}
        /\ \A e \in svc.subnets : \E s \in Subnets :
              s.id \in lb.subnets /\ e \in Names(s)

\* Every listener forwards to an existing pool whose name carries the
\* listener's own external port, whatever the two callers of
\* UpdateLoadBalancer have seen of each other's work: a listener is never
\* updated (rule 8 of the code), so a wrong pool would stay.
ListenerTargetsOwnPort ==
    \A l \in listeners : \E p \in pools : p.id = l.pool /\ p.name.port = l.port

\* What makes ListenerTargetsOwnPort inductive: identifiers are unique, what
\* a call remembers of a pool still tells its external port, and a plan
\* renames a pool only within its port.
UniqueIds == \A p, q \in pools : p.id = q.id => p = q

ViewsAgree ==
    \A w \in Worker : \A p \in pools :
        /\ \A r \in wk[w].refs : r.id = p.id => r.name.port = p.name.port
        /\ \A q \in wk[w].pools : q.id = p.id => q.name.port = p.name.port

RenamesKeepPort ==
    \A w \in Worker : \A u \in wk[w].plan :
        u.cmd = "UPDATE-POOL" =>
            \E q \in wk[w].pools : q.id = u.pool /\ q.name.port = u.name.port

PortInv == ListenerTargetsOwnPort /\ UniqueIds /\ ViewsAgree /\ RenamesKeepPort

\* The order in which a plan is performed respects the rules of the VPC: no
\* update of UpdateLoadBalancer is refused because a pool is still in use,
\* is missing, or a name or port is taken, even in a pass that follows one
\* that failed half way.
RulesRespected == \A w \in Worker : wk[w].result # "rule"

\* No external port ever has two pools of this provider, in particular not
\* after a node port change between two passes that failed.
OnePoolPerPort ==
    \A p, q \in OwnPools : p.name.port = q.name.port => p = q

\* A call that EnsureLoadBalancer or EnsureLoadBalancerUpdated reports as
\* successful has left exactly the listeners, pools, members and health
\* monitors its service and nodes ask for, on a load balancer of the right
\* type in the right subnets.
SuccessMeansDesired ==
    \A w \in Worker :
        (/\ wk[w].pc = "done" /\ wk[w].result = "ok"
         /\ wk[w].op \in {"ensure", "update"} /\ lb.status # "none")
        => Matches(wk[w].svc, wk[w].nodes) /\ Placed(wk[w].svc)

\* After a successful call every pool uses proxy protocol exactly when the
\* service's enable-features annotation requests it.
SuccessHonoursProxyProtocol ==
    \A w \in Worker :
        (/\ wk[w].pc = "done" /\ wk[w].result = "ok"
         /\ wk[w].op \in {"ensure", "update"} /\ lb.status # "none")
        => \A p \in OwnPools : (p.proxy = "v1") <=> wk[w].svc.proxyProtocol

\* A load balancer created for a service without a subnets annotation is
\* placed only in subnets whose names are on the configured list.
OnlyConfiguredSubnets ==
    \A w \in Worker :
        (/\ wk[w].pc = "done" /\ wk[w].result = "ok" /\ wk[w].op = "ensure"
         /\ lb.status = "create_pending" /\ wk[w].svc.subnets = {})
        => \A s \in Subnets : s.id \in lb.subnets => s.name \in SubnetNames

\* EnsureLoadBalancerUpdated changes the hosts under the load balancer, and
\* neither its listeners nor which pools it has.
UpdateChangesOnlyHosts ==
    [][(wk["nodes"].pc = "exec" /\ wk'["nodes"] # wk["nodes"])
       => listeners' = listeners /\ {p.id : p \in pools'} = {p.id : p \in pools}]_vars

\* Nothing is queued and no call is in progress.
Quiet ==
    /\ \A w \in Worker : Idle(w)
    /\ ~kube.syncPending
    /\ ~(kube.nodePending /\ kube.cached # {})

\* When the controller has nothing left to do, the VPC holds what the latest
\* service and nodes ask for: no change is lost between the two callers,
\* failed passes and restarts.
SettledMeansDesired ==
    Quiet => IF kube.wanted
             THEN /\ lb.status \notin {"none", "delete_pending"}
                  /\ Matches(kube.service, kube.nodes)
                  /\ Placed(kube.service)
             ELSE lb.status \in {"none", "delete_pending"}

\* A pass over a load balancer never takes the last member out of a pool it
\* keeps, not even between two updates: replaced nodes are replaced at once
\* (step 8).
NeverEmptiesPool ==
    [][\A p \in pools, q \in pools' :
          p.id = q.id /\ p.members # {} => q.members # {}]_vars

\* The service can be served by the load balancer as it is.
Servable ==
    /\ kube.wanted
    /\ isServiceConfigurationSupported(kube.service)
    /\ validateService(kube.service)
    /\ SubnetList(kube.service) # {}
    /\ FilterNodes(kube.service, kube.nodes) # {}
    /\ lb.status # "none" =>
          /\ validateServiceTypeNotUpdated(kube.service, lb.public)
          /\ validateServiceSubnetsNotUpdated(kube.service, lb.subnets)
    /\ OwnPools = pools

\* A wait for the load balancer ends without it: polls or time are used up.
WaitInVain == \E w \in Worker : wk[w].pc = "wait" /\ wk'[w].pc = "done"

\* Once the service and nodes stop changing, and can be served, and the VPC
\* gets ready within the waits, retries of EnsureLoadBalancer and
\* EnsureLoadBalancerUpdated bring the load balancer to the wanted state and
\* leave it there; a service no longer wanted loses its load balancer.
\* (When every wait is in vain, a node update that still holds the old
\* service and a service update can undo each other's first step for ever.
\* The calls are those of a controller whose two callers do not overlap; with
\* Overlap two passes can leave a second pool for a port.)
Converges ==
    /\ <>[]Servable /\ <>[][~WaitInVain]_vars
          => <>[](IsReady /\ Matches(kube.service, kube.nodes))
    /\ <>[]~kube.wanted => <>[](lb.status = "none")

-----------------------------------------------------------------------------
(* The routes this provider maintains *)

\* A pool is a target for the external port in its name, a listener a route.
Routes == INSTANCE PortRoutes WITH
    Port <- ExtPort,
    Target <- PoolId,
    targets <- {<<p.id, p.name.port>> : p \in pools},
    routes <- {<<l.port, l.pool>> : l \in listeners}

\* Whatever the two callers of UpdateLoadBalancer have seen of each other's
\* work, and however many of their passes fail half way, the listeners and
\* pools of the VPC change as PortRoutes allows: a port is opened towards a
\* pool of its own that exists, is never redirected, and a pool goes only
\* when no listener uses it (rules 1 to 8 in UpdateLoadBalancer).
RoutesImplemented == Routes!Spec

=============================================================================
