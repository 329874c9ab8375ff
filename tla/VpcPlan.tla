------------------------------- MODULE VpcPlan -------------------------------
(***************************************************************************)
(* The planner of UpdateLoadBalancer (vpc_lbaas.go): from the listeners    *)
(* and pools that exist and the service and nodes that are wanted, the     *)
(* updates to make, in order.                                              *)
(*                                                                         *)
(* The code appends text lines to a list.  Here a plan is a set of update  *)
(* records; "at" is the position of the record in the list, as the triple  *)
(* <<step, position in the step, position in the pair>>.  The listeners,   *)
(* pools and service ports of a step are visited in ascending order.       *)
(***************************************************************************)
EXTENDS VpcConfig

Key == Nat \X Nat \X Nat

\* a is appended before b.
Before(a, b) ==
    \/ a[1] < b[1]
    \/ a[1] = b[1] /\ a[2] < b[2]
    \/ a[1] = b[1] /\ a[2] = b[2] /\ a[3] < b[3]

MemberCmd == {"CREATE-POOL-MEMBER", "DELETE-POOL-MEMBER"}

Update ==
    [at: Key, cmd: {"DELETE-LISTENER"}, listener: VpcLoadBalancerListener]
      \cup
    [at: Key, cmd: {"CREATE-POOL", "CREATE-LISTENER"}, name: VpcPoolNameFields]
      \cup
    [at: Key, cmd: {"DELETE-POOL", "UPDATE-POOL", "REPLACE-POOL-MEMBERS"},
     name: VpcPoolNameFields, pool: PoolId]
      \cup
    [at: Key, cmd: MemberCmd, name: VpcPoolNameFields, pool: PoolId,
     member: Member]

-----------------------------------------------------------------------------
(* Each check* operator is the set of updates that the function of that    *)
(* name appends.                                                           *)

checkListenerForExtPortDeletedFromService(listener, ports) ==
    IF \E kp \in ports : isServicePortEqualListener(kp, listener)
    THEN {}
    ELSE {[at |-> <<1, listener.port, 0>>, cmd |-> "DELETE-LISTENER",
           listener |-> listener]}

\* Mutant: the pool of a removed port goes before the listener that uses it.
DeletePoolBeforeListener(pool, ports) ==
    IF \E kp \in ports : isServicePortEqualPoolName(kp, pool.name)
    THEN {}
    ELSE {[at |-> <<0, pool.id, 0>>, cmd |-> "DELETE-POOL",
           name |-> pool.name, pool |-> pool.id]}

checkPoolForExtPortDeletedFromService(pool, ports) ==
    IF \E kp \in ports : isServicePortEqualPoolName(kp, pool.name)
    THEN {}
    ELSE {[at |-> <<2, pool.id, 0>>, cmd |-> "DELETE-POOL",
           name |-> pool.name, pool |-> pool.id]}

\* The service has this pool's external port, on another node port.
NodePortChanged(pool, ports) ==
    \E kp \in ports : /\ isServicePortEqualPoolName(kp, pool.name)
                      /\ pool.name.nodePort # kp.nodePort

\* Mutant: a member left on the old node port is not noticed.
NodesToDeleteByTarget(pool, ports, nodeList) ==
    IF NodePortChanged(pool, ports)
    THEN {}
    ELSE {[at |-> <<3, pool.id, 0>>, cmd |-> "DELETE-POOL-MEMBER",
           name |-> pool.name, pool |-> pool.id, member |-> m] :
             m \in {x \in pool.members : x.target \notin nodeList}}

checkPoolForNodesToDelete(pool, ports, nodeList) ==
    IF NodePortChanged(pool, ports)
    THEN {}
    ELSE {[at |-> <<3, pool.id, 0>>, cmd |-> "DELETE-POOL-MEMBER",
           name |-> pool.name, pool |-> pool.id, member |-> m] :
             m \in {x \in pool.members : \/ x.target \notin nodeList
                                         \/ x.port # pool.name.nodePort}}

\* Mutant: a health monitor left on the old policy is not noticed.
NeedsUpdateIgnoringPolicy(pool, kp, svc) ==
    \/ genLoadBalancerPoolName(kp) # pool.name
    \/ svc.proxyProtocol /\ pool.proxy # "v1"
    \/ ~svc.proxyProtocol /\ pool.proxy # "disabled"

NeedsUpdate(pool, kp, svc) ==
    \/ genLoadBalancerPoolName(kp) # pool.name
    \/ /\ svc.policy = "Local"
       /\ svc.healthCheckNodePort > 0
       /\ pool.hm # [type |-> "http", port |-> svc.healthCheckNodePort]
    \/ /\ svc.policy = "Cluster"
       /\ pool.hm # [type |-> "tcp", port |-> kp.nodePort]
    \/ svc.proxyProtocol /\ pool.proxy # "v1"
    \/ ~svc.proxyProtocol /\ pool.proxy # "disabled"

\* Mutant: the first service port names every pool.
checkPoolForServiceChangesAnyPort(pool, svc) ==
    {[at |-> <<4, pool.id, 1>>, cmd |-> "UPDATE-POOL",
      name |-> genLoadBalancerPoolName(kp), pool |-> pool.id] :
        kp \in {x \in svc.ports : NeedsUpdate(pool, x, svc)}}

checkPoolForServiceChanges(pool, svc) ==
    LET matching == {kp \in svc.ports : isServicePortEqualPoolName(kp, pool.name)}
    IN  {[at |-> <<4, pool.id, 1>>, cmd |-> "UPDATE-POOL",
          name |-> genLoadBalancerPoolName(kp), pool |-> pool.id] :
            kp \in {x \in matching : NeedsUpdate(pool, x, svc)}}
          \cup
        {[at |-> <<4, pool.id, 2>>, cmd |-> "REPLACE-POOL-MEMBERS",
          name |-> genLoadBalancerPoolName(kp), pool |-> pool.id] :
            kp \in {x \in matching : genLoadBalancerPoolName(x) # pool.name}}

checkPoolForNodesToAdd(pool, ports, nodeList) ==
    IF NodePortChanged(pool, ports)
    THEN {}
    ELSE {[at |-> <<5, pool.id, 0>>, cmd |-> "CREATE-POOL-MEMBER",
           name |-> pool.name, pool |-> pool.id, member |-> m] :
             m \in genLoadBalancerMembers(pool.name.nodePort, nodeList)
                     \ pool.members}

\* pools: those not marked for deletion by step 2.
checkPoolsForExtPortAddedToService(pools, kp) ==
    IF \E p \in pools : isServicePortEqualPoolName(kp, p.name)
    THEN {}
    ELSE {[at |-> <<6, kp.port, 0>>, cmd |-> "CREATE-POOL",
           name |-> genLoadBalancerPoolName(kp)]}

checkListenersForExtPortAddedToService(listeners, kp) ==
    IF \E l \in listeners : isServicePortEqualListener(kp, l)
    THEN {}
    ELSE {[at |-> <<6, kp.port, 1>>, cmd |-> "CREATE-LISTENER",
           name |-> genLoadBalancerPoolName(kp)]}

\* Mutant: step 8 left out.
KeepMemberUpdates(updates) == updates

checkForMultiplePoolMemberUpdates(updates) ==
    LET memberUpdates == {u \in updates : u.cmd \in MemberCmd}
        multiple == {u \in memberUpdates :
                        \E v \in memberUpdates : v # u /\ v.name = u.name}
        first == {u \in multiple :
                     \A v \in multiple : v.name = u.name => ~Before(v.at, u.at)}
    IN  (updates \ multiple)
          \cup {[at |-> u.at, cmd |-> "REPLACE-POOL-MEMBERS",
                 name |-> u.name, pool |-> u.pool] : u \in first}

-----------------------------------------------------------------------------
\* Mutant: a pool on another node port is passed over as if it were deleted.
KeptByName(svc, pools) == {p \in pools : p.name \in getServicePoolNames(svc)}

\* The pools of the service's ports; the others are marked for deletion.
Kept(svc, pools) ==
    {p \in pools : checkPoolForExtPortDeletedFromService(p, svc.ports) = {}}

\* Steps 1 to 7.
UpdatesRequired(svc, nodeList, listeners, pools) ==
    LET kept == Kept(svc, pools)
    IN  (UNION {checkListenerForExtPortDeletedFromService(l, svc.ports) : l \in listeners})
        \cup (UNION {checkPoolForExtPortDeletedFromService(p, svc.ports) : p \in pools})
        \cup (UNION {checkPoolForNodesToDelete(p, svc.ports, nodeList) : p \in kept})
        \cup (UNION {checkPoolForServiceChanges(p, svc) : p \in kept})
        \cup (UNION {checkPoolForNodesToAdd(p, svc.ports, nodeList) : p \in kept})
        \cup (UNION {checkPoolsForExtPortAddedToService(kept, kp) : kp \in svc.ports})
        \cup (UNION {checkListenersForExtPortAddedToService(listeners, kp) : kp \in svc.ports})

\* updatesRequired after step 8.
Plan(svc, nodeList, listeners, pools) ==
    checkForMultiplePoolMemberUpdates(
        UpdatesRequired(svc, nodeList, listeners, pools))

\* A pool name that does not parse makes step 2 return an error.
PlanError(pools) == \E p \in pools : ~Parses(p.name)

\* The next update to perform.
IsNext(u, plan) == u \in plan /\ \A v \in plan : ~Before(v.at, u.at)

=============================================================================
