------------------------ MODULE VpcLoadBalancerProofs ------------------------
(* Proofs about VpcLoadBalancer, for every value of its constants. *)
EXTENDS VpcLoadBalancer, TLAPS

USE PortAssumption, NodeAssumption, SubnetAssumption, ServiceAssumption,
    BoundAssumption

-----------------------------------------------------------------------------
(* Types of the helpers of vpc_config.go *)

\* A pool name generated from a service port is a pool name that parses.
LEMMA PoolNameType ==
    ASSUME NEW kp \in ServicePort
    PROVE  /\ genLoadBalancerPoolName(kp) \in VpcPoolNameFields
           /\ genLoadBalancerPoolName(kp).port = kp.port
  BY DEF genLoadBalancerPoolName, VpcPoolNameFields, ServicePort, Lower

\* The ports of a service are service ports, and so on for what the model
\* reads of a service.
LEMMA ServiceFields ==
    ASSUME NEW svc \in Services
    PROVE  /\ svc.ports \subseteq ServicePort
           /\ svc.healthCheckNodePort \in NodePort \cup {0}
           /\ svc.public \in BOOLEAN
           /\ svc.proxyProtocol \in BOOLEAN
  BY DEF Service

\* The node filters only remove nodes.
LEMMA NodeListType ==
    ASSUME NEW svc, NEW nodes \in SUBSET Node
    PROVE  NodeList(svc, nodes) \subseteq Node
  BY DEF NodeList, getNodeIDs

\* A generated health monitor is a health monitor.
LEMMA HealthMonitorType ==
    ASSUME NEW nodePort \in NodePort, NEW svc \in Services
    PROVE  genLoadBalancerHealthMonitor(nodePort, getServiceHealthCheckNodePort(svc))
              \in HealthMonitor
  BY ServiceFields DEF genLoadBalancerHealthMonitor, getServiceHealthCheckNodePort,
     HealthMonitor

\* Generated members are members.
LEMMA MembersType ==
    ASSUME NEW nodePort \in NodePort, NEW nodeList \in SUBSET Node
    PROVE  genLoadBalancerMembers(nodePort, nodeList) \subseteq Member
  BY DEF genLoadBalancerMembers, Member

\* The subnets a load balancer is created in are subnet identifiers.
LEMMA SubnetListType ==
    ASSUME NEW svc
    PROVE  SubnetList(svc) \subseteq STRING
  <1>1. \A s \in Subnets : s.id \in STRING
    BY DEF VpcSubnet
  <1>2. ClusterSubnets \subseteq Subnets /\ filterSubnetsByVpcName(Subnets) \subseteq Subnets
    BY DEF ClusterSubnets, filterSubnetsByName, filterSubnetsByVpcName
  <1>3. getSubnetIDs(ClusterSubnets) \subseteq STRING
    BY <1>1, <1>2 DEF getSubnetIDs
  <1>4. validateServiceZone(svc.zone, ClusterSubnets) \subseteq STRING
    BY <1>1, <1>2 DEF validateServiceZone
  <1>5. validateServiceSubnets(svc.subnets, VpcName, filterSubnetsByVpcName(Subnets))
           \subseteq STRING
    BY <1>1, <1>2 DEF validateServiceSubnets
  <1> QED
    BY <1>3, <1>4, <1>5 DEF SubnetList

-----------------------------------------------------------------------------
(* The planner *)

\* The four shapes of an update.
LEMMA UpdateShapes ==
    ASSUME NEW a \in Nat, NEW b \in Nat, NEW c \in Nat
    PROVE  /\ \A l \in VpcLoadBalancerListener :
                 [at |-> <<a, b, c>>, cmd |-> "DELETE-LISTENER", listener |-> l] \in Update
           /\ \A cmd \in {"CREATE-POOL", "CREATE-LISTENER"}, n \in VpcPoolNameFields :
                 [at |-> <<a, b, c>>, cmd |-> cmd, name |-> n] \in Update
           /\ \A cmd \in {"DELETE-POOL", "UPDATE-POOL", "REPLACE-POOL-MEMBERS"},
                 n \in VpcPoolNameFields, p \in PoolId :
                 [at |-> <<a, b, c>>, cmd |-> cmd, name |-> n, pool |-> p] \in Update
           /\ \A cmd \in MemberCmd, n \in VpcPoolNameFields, p \in PoolId, m \in Member :
                 [at |-> <<a, b, c>>, cmd |-> cmd, name |-> n, pool |-> p, member |-> m]
                    \in Update
  <1>1. <<a, b, c>> \in Key
    BY DEF Key
  <1> QED
    BY <1>1 DEF Update

\* The fields of a pool that the model reads.
LEMMA PoolFields ==
    ASSUME NEW p \in VpcLoadBalancerPool
    PROVE  /\ p.id \in PoolId /\ p.id \in Nat
           /\ p.name \in VpcPoolNameFields /\ p.name.nodePort \in NodePort
           /\ p.members \subseteq Member
  BY DEF VpcLoadBalancerPool, VpcPoolNameFields

\* An update of steps 1 to 7 was appended by one of the check functions.
LEMMA UpdatesRequiredCases ==
    ASSUME NEW svc, NEW nodeList, NEW ls, NEW ps,
           NEW u \in UpdatesRequired(svc, nodeList, ls, ps)
    PROVE
         \/ \E l \in ls : u \in checkListenerForExtPortDeletedFromService(l, svc.ports)
         \/ \E p \in ps : u \in checkPoolForExtPortDeletedFromService(p, svc.ports)
         \/ \E p \in Kept(svc, ps) : u \in checkPoolForNodesToDelete(p, svc.ports, nodeList)
         \/ \E p \in Kept(svc, ps) : u \in checkPoolForServiceChanges(p, svc)
         \/ \E p \in Kept(svc, ps) : u \in checkPoolForNodesToAdd(p, svc.ports, nodeList)
         \/ \E kp \in svc.ports : u \in checkPoolsForExtPortAddedToService(Kept(svc, ps), kp)
         \/ \E kp \in svc.ports : u \in checkListenersForExtPortAddedToService(ls, kp)
  <1> DEFINE kept == Kept(svc, ps)
  <1> DEFINE A == UNION {checkListenerForExtPortDeletedFromService(l, svc.ports) : l \in ls}
             B == UNION {checkPoolForExtPortDeletedFromService(p, svc.ports) : p \in ps}
             C == UNION {checkPoolForNodesToDelete(p, svc.ports, nodeList) : p \in kept}
             D == UNION {checkPoolForServiceChanges(p, svc) : p \in kept}
             E == UNION {checkPoolForNodesToAdd(p, svc.ports, nodeList) : p \in kept}
             F == UNION {checkPoolsForExtPortAddedToService(kept, kp) : kp \in svc.ports}
             G == UNION {checkListenersForExtPortAddedToService(ls, kp) : kp \in svc.ports}
  <1>1. u \in A \/ u \in B \/ u \in C \/ u \in D \/ u \in E \/ u \in F \/ u \in G
    <2>1. UpdatesRequired(svc, nodeList, ls, ps)
             = A \cup B \cup C \cup D \cup E \cup F \cup G
      BY DEF UpdatesRequired
    <2> HIDE DEF A, B, C, D, E, F, G
    <2> QED
      BY <2>1
  <1> HIDE DEF kept
  <1>2. \/ \E l \in ls : u \in checkListenerForExtPortDeletedFromService(l, svc.ports)
        \/ \E p \in ps : u \in checkPoolForExtPortDeletedFromService(p, svc.ports)
        \/ \E p \in kept : u \in checkPoolForNodesToDelete(p, svc.ports, nodeList)
        \/ \E p \in kept : u \in checkPoolForServiceChanges(p, svc)
        \/ \E p \in kept : u \in checkPoolForNodesToAdd(p, svc.ports, nodeList)
        \/ \E kp \in svc.ports : u \in checkPoolsForExtPortAddedToService(kept, kp)
        \/ \E kp \in svc.ports : u \in checkListenersForExtPortAddedToService(ls, kp)
    BY <1>1, Zenon
  <1> QED
    BY <1>2 DEF kept

\* Every update of steps 1 to 7 is a well formed update.
LEMMA UpdatesRequiredType ==
    ASSUME NEW svc \in Services, NEW nodeList \in SUBSET Node,
           NEW ls \in SUBSET VpcLoadBalancerListener,
           NEW ps \in SUBSET VpcLoadBalancerPool
    PROVE  UpdatesRequired(svc, nodeList, ls, ps) \subseteq Update
  <1> DEFINE kept == Kept(svc, ps)
  <1>1. kept \subseteq ps
    BY DEF Kept
  <1>2. ASSUME NEW l \in ls
        PROVE  checkListenerForExtPortDeletedFromService(l, svc.ports) \subseteq Update
    <2>1. l \in VpcLoadBalancerListener /\ l.port \in Nat
      BY <1>2 DEF VpcLoadBalancerListener
    <2> QED
      BY <2>1, UpdateShapes DEF checkListenerForExtPortDeletedFromService
  <1>3. ASSUME NEW p \in ps
        PROVE  checkPoolForExtPortDeletedFromService(p, svc.ports) \subseteq Update
    BY <1>3, PoolFields, UpdateShapes DEF checkPoolForExtPortDeletedFromService
  <1>4. ASSUME NEW p \in ps
        PROVE  checkPoolForNodesToDelete(p, svc.ports, nodeList) \subseteq Update
    <2> SUFFICES ASSUME NEW u \in checkPoolForNodesToDelete(p, svc.ports, nodeList)
                 PROVE  u \in Update
      OBVIOUS
    <2>1. PICK m \in p.members :
             u = [at |-> <<3, p.id, 0>>, cmd |-> "DELETE-POOL-MEMBER",
                  name |-> p.name, pool |-> p.id, member |-> m]
      BY DEF checkPoolForNodesToDelete
    <2> QED
      BY <1>4, <2>1, PoolFields, UpdateShapes DEF MemberCmd
  <1>5. ASSUME NEW p \in ps
        PROVE  checkPoolForServiceChanges(p, svc) \subseteq Update
    <2> SUFFICES ASSUME NEW u \in checkPoolForServiceChanges(p, svc)
                 PROVE  u \in Update
      OBVIOUS
    <2>1. PICK kp \in svc.ports :
             \/ u = [at |-> <<4, p.id, 1>>, cmd |-> "UPDATE-POOL",
                     name |-> genLoadBalancerPoolName(kp), pool |-> p.id]
             \/ u = [at |-> <<4, p.id, 2>>, cmd |-> "REPLACE-POOL-MEMBERS",
                     name |-> genLoadBalancerPoolName(kp), pool |-> p.id]
      BY DEF checkPoolForServiceChanges
    <2>2. genLoadBalancerPoolName(kp) \in VpcPoolNameFields
      BY <2>1, ServiceFields, PoolNameType
    <2> QED
      BY <1>5, <2>1, <2>2, PoolFields, UpdateShapes
  <1>6. ASSUME NEW p \in ps
        PROVE  checkPoolForNodesToAdd(p, svc.ports, nodeList) \subseteq Update
    <2> SUFFICES ASSUME NEW u \in checkPoolForNodesToAdd(p, svc.ports, nodeList)
                 PROVE  u \in Update
      OBVIOUS
    <2>1. PICK m \in genLoadBalancerMembers(p.name.nodePort, nodeList) :
             u = [at |-> <<5, p.id, 0>>, cmd |-> "CREATE-POOL-MEMBER",
                  name |-> p.name, pool |-> p.id, member |-> m]
      BY DEF checkPoolForNodesToAdd
    <2>2. m \in Member
      BY <1>6, <2>1, PoolFields, MembersType
    <2> QED
      BY <1>6, <2>1, <2>2, PoolFields, UpdateShapes DEF MemberCmd
  <1>7. ASSUME NEW kp \in svc.ports
        PROVE  /\ checkPoolsForExtPortAddedToService(kept, kp) \subseteq Update
               /\ checkListenersForExtPortAddedToService(ls, kp) \subseteq Update
    <2>1. kp \in ServicePort /\ genLoadBalancerPoolName(kp) \in VpcPoolNameFields
      BY <1>7, ServiceFields, PoolNameType
    <2>2. kp.port \in Nat
      BY <2>1 DEF ServicePort
    <2> QED
      BY <2>1, <2>2, UpdateShapes DEF checkPoolsForExtPortAddedToService,
         checkListenersForExtPortAddedToService
  <1>8. ASSUME NEW u \in UpdatesRequired(svc, nodeList, ls, ps)
        PROVE  u \in Update
    <2>1. \/ \E l \in ls : u \in checkListenerForExtPortDeletedFromService(l, svc.ports)
          \/ \E p \in ps : u \in checkPoolForExtPortDeletedFromService(p, svc.ports)
          \/ \E p \in kept : u \in checkPoolForNodesToDelete(p, svc.ports, nodeList)
          \/ \E p \in kept : u \in checkPoolForServiceChanges(p, svc)
          \/ \E p \in kept : u \in checkPoolForNodesToAdd(p, svc.ports, nodeList)
          \/ \E kp \in svc.ports : u \in checkPoolsForExtPortAddedToService(kept, kp)
          \/ \E kp \in svc.ports : u \in checkListenersForExtPortAddedToService(ls, kp)
      BY <1>8, UpdatesRequiredCases
    <2> HIDE DEF kept
    <2> QED
      BY <2>1, <1>1, <1>2, <1>3, <1>4, <1>5, <1>6, <1>7
  <1> QED
    BY <1>8

\* Step 8 keeps a plan well formed.
LEMMA MultipleUpdatesType ==
    ASSUME NEW us \in SUBSET Update
    PROVE  checkForMultiplePoolMemberUpdates(us) \subseteq Update
  <1>1. ASSUME NEW u \in us, u.cmd \in MemberCmd
        PROVE  /\ u.at \in Key
               /\ u.name \in VpcPoolNameFields
               /\ u.pool \in PoolId
    BY <1>1 DEF Update, MemberCmd
  <1>2. ASSUME NEW u \in us, u.cmd \in MemberCmd
        PROVE  [at |-> u.at, cmd |-> "REPLACE-POOL-MEMBERS",
                name |-> u.name, pool |-> u.pool] \in Update
    BY <1>1, <1>2 DEF Update
  <1> QED
    BY <1>2 DEF checkForMultiplePoolMemberUpdates

\* A plan is a set of well formed updates.
LEMMA PlanType ==
    ASSUME NEW svc \in Services, NEW nodeList \in SUBSET Node,
           NEW ls \in SUBSET VpcLoadBalancerListener,
           NEW ps \in SUBSET VpcLoadBalancerPool
    PROVE  Plan(svc, nodeList, ls, ps) \subseteq Update
  BY UpdatesRequiredType, MultipleUpdatesType DEF Plan

\* UPDATE-POOL renames a pool only to a name of the same external port.
LEMMA PlanRenames ==
    ASSUME NEW svc \in Services, NEW nodeList, NEW ls, NEW ps,
           NEW u \in Plan(svc, nodeList, ls, ps), u.cmd = "UPDATE-POOL"
    PROVE  \E q \in ps : q.id = u.pool /\ q.name.port = u.name.port
  <1>1. u \in UpdatesRequired(svc, nodeList, ls, ps)
    BY DEF Plan, checkForMultiplePoolMemberUpdates
  <1> DEFINE kept == Kept(svc, ps)
  <1>2. PICK q \in kept : u \in checkPoolForServiceChanges(q, svc)
    <2>1. \/ \E l \in ls : u \in checkListenerForExtPortDeletedFromService(l, svc.ports)
          \/ \E p \in ps : u \in checkPoolForExtPortDeletedFromService(p, svc.ports)
          \/ \E p \in kept : u \in checkPoolForNodesToDelete(p, svc.ports, nodeList)
          \/ \E p \in kept : u \in checkPoolForServiceChanges(p, svc)
          \/ \E p \in kept : u \in checkPoolForNodesToAdd(p, svc.ports, nodeList)
          \/ \E kp \in svc.ports : u \in checkPoolsForExtPortAddedToService(kept, kp)
          \/ \E kp \in svc.ports : u \in checkListenersForExtPortAddedToService(ls, kp)
      BY <1>1, UpdatesRequiredCases
    <2> HIDE DEF kept
    <2>2. \A l : u \notin checkListenerForExtPortDeletedFromService(l, svc.ports)
      BY DEF checkListenerForExtPortDeletedFromService
    <2>3. \A p : u \notin checkPoolForExtPortDeletedFromService(p, svc.ports)
      BY DEF checkPoolForExtPortDeletedFromService
    <2>4. \A p : u \notin checkPoolForNodesToDelete(p, svc.ports, nodeList)
      BY DEF checkPoolForNodesToDelete
    <2>5. \A p : u \notin checkPoolForNodesToAdd(p, svc.ports, nodeList)
      BY DEF checkPoolForNodesToAdd
    <2>6. \A kp : u \notin checkPoolsForExtPortAddedToService(kept, kp)
      BY DEF checkPoolsForExtPortAddedToService
    <2>7. \A kp : u \notin checkListenersForExtPortAddedToService(ls, kp)
      BY DEF checkListenersForExtPortAddedToService
    <2> QED
      BY <2>1, <2>2, <2>3, <2>4, <2>5, <2>6, <2>7
  <1>3. PICK kp \in svc.ports :
           /\ isServicePortEqualPoolName(kp, q.name)
           /\ u.pool = q.id
           /\ u.name = genLoadBalancerPoolName(kp)
    BY <1>2 DEF checkPoolForServiceChanges
  <1> QED
    BY <1>2, <1>3, ServiceFields, PoolNameType DEF isServicePortEqualPoolName, Kept

-----------------------------------------------------------------------------
(* Type correctness *)

\* The idle call is a call.
LEMMA IdleCallType == IdleCall \in Call
  <1>1. (CHOOSE s \in Services : TRUE) \in Services
    OBVIOUS
  <1>2. 0 \in 0 .. MaxPolls - 1
    OBVIOUS
  <1> QED
    BY <1>1, <1>2 DEF IdleCall, Call

\* Ending a call keeps the type of the calls.
LEMMA FinishType ==
    ASSUME TypeOK, NEW w \in Worker, NEW r \in {"ok", "busy", "rule", "error"},
           Finish(w, r)
    PROVE  wk' \in [Worker -> Call]
  <1> DEFINE d == [wk[w] EXCEPT !.pc = "done", !.result = r]
  <1>1. wk \in [Worker -> Call] /\ wk[w] \in Call
    BY DEF TypeOK
  <1>2. d \in Call
    BY <1>1 DEF Call
  <1>3. wk' = [wk EXCEPT ![w] = d]
    BY <1>1 DEF Finish
  <1> HIDE DEF d
  <1> QED
    BY <1>1, <1>2, <1>3

\* Beginning a call keeps the type of the calls.
LEMMA BeginType ==
    ASSUME TypeOK, NEW w \in Worker, NEW op \in {"ensure", "update", "delete"},
           NEW svc \in Services, NEW nodes \in SUBSET Node,
           Begin(w, op, svc, nodes)
    PROVE  wk' \in [Worker -> Call]
  BY IdleCallType DEF TypeOK, Begin, Call

\* What the load balancer read again tells of its pools.
LEMMA RefsType ==
    ASSUME TypeOK
    PROVE  Refs \subseteq PoolRef
  BY DEF TypeOK, Refs, PoolRef, VpcLoadBalancerPool

\* The fields of the updates a call has planned.
LEMMA UpdateFields ==
    ASSUME NEW u \in Update
    PROVE  /\ u.cmd \in {"CREATE-LISTENER", "CREATE-POOL", "UPDATE-POOL",
                         "REPLACE-POOL-MEMBERS"}
                 => u.name \in VpcPoolNameFields /\ u.name.nodePort \in NodePort
           /\ u.cmd \in MemberCmd => u.member \in Member
  BY DEF Update, VpcPoolNameFields, MemberCmd

\* Performing an update keeps the types of listeners and pools.
LEMMA PerformType ==
    ASSUME TypeOK, NEW w \in Worker, NEW u \in wk[w].plan, Perform(w, u)
    PROVE  /\ listeners' \subseteq VpcLoadBalancerListener
           /\ pools' \subseteq VpcLoadBalancerPool
  <1>1. /\ wk[w] \in Call /\ u \in Update
        /\ wk[w].svc \in Services /\ wk[w].refs \subseteq PoolRef
        /\ NodeList(wk[w].svc, wk[w].nodes) \subseteq Node
    BY NodeListType DEF TypeOK, Call
  <1>2. listeners \subseteq VpcLoadBalancerListener /\ pools \subseteq VpcLoadBalancerPool
    BY DEF TypeOK
  <1>3. CASE createLoadBalancerListener(w, u)
    BY <1>1, <1>2, <1>3, UpdateFields
       DEF createLoadBalancerListener, PoolRef, VpcLoadBalancerListener, VpcPoolNameFields
  <1>4. CASE createLoadBalancerPool(w, u)
    <2> DEFINE id == CHOOSE i \in FreshIds : TRUE
               hm == genLoadBalancerHealthMonitor(u.name.nodePort,
                        getServiceHealthCheckNodePort(wk[w].svc))
               members == genLoadBalancerMembers(u.name.nodePort,
                             NodeList(wk[w].svc, wk[w].nodes))
    <2>1. id \in PoolId
      BY <1>4 DEF createLoadBalancerPool, FreshIds
    <2>2. u.name \in VpcPoolNameFields /\ u.name.nodePort \in NodePort
      BY <1>1, <1>4, UpdateFields DEF createLoadBalancerPool
    <2>3. hm \in HealthMonitor /\ members \subseteq Member
      BY <1>1, <2>2, HealthMonitorType, MembersType
    <2>4. /\ pools' = pools \cup {[id |-> id, name |-> u.name, hm |-> hm,
                                   proxy |-> "disabled", members |-> members]}
          /\ listeners' = listeners
      BY <1>4 DEF createLoadBalancerPool
    <2> QED
      <3> HIDE DEF id, hm, members
      <3> QED
        BY <1>2, <2>1, <2>2, <2>3, <2>4 DEF VpcLoadBalancerPool
  <1>5. CASE createLoadBalancerPoolMember(w, u) \/ deleteLoadBalancerPoolMember(w, u)
    <2>1. u.cmd \in MemberCmd
      BY <1>5 DEF createLoadBalancerPoolMember, deleteLoadBalancerPoolMember, MemberCmd
    <2>2. u.member \in Member
      BY <1>1, <2>1, UpdateFields
    <2>3. \A p \in pools : /\ [p EXCEPT !.members = @ \cup {u.member}] \in VpcLoadBalancerPool
                           /\ [p EXCEPT !.members = @ \ {u.member}] \in VpcLoadBalancerPool
      BY <1>2, <2>2 DEF VpcLoadBalancerPool
    <2> QED
      BY <1>2, <1>5, <2>3 DEF createLoadBalancerPoolMember, deleteLoadBalancerPoolMember
  <1>6. CASE deleteLoadBalancerListener(w, u) \/ deleteLoadBalancerPool(w, u)
    BY <1>2, <1>6 DEF deleteLoadBalancerListener, deleteLoadBalancerPool
  <1>7. CASE replaceLoadBalancerPoolMembers(w, u)
    <2> DEFINE members == genLoadBalancerMembers(u.name.nodePort,
                             NodeList(wk[w].svc, wk[w].nodes))
    <2>1. members \subseteq Member
      BY <1>1, <1>7, UpdateFields, MembersType DEF replaceLoadBalancerPoolMembers
    <2>2. /\ pools' = {IF p.id = u.pool THEN [p EXCEPT !.members = members] ELSE p : p \in pools}
          /\ listeners' = listeners
      BY <1>7 DEF replaceLoadBalancerPoolMembers
    <2> HIDE DEF members
    <2>3. \A p \in pools : [p EXCEPT !.members = members] \in VpcLoadBalancerPool
      BY <1>2, <2>1 DEF VpcLoadBalancerPool
    <2> QED
      BY <1>2, <2>2, <2>3
  <1>8. CASE updateLoadBalancerPool(w, u)
    <2> DEFINE hm == genLoadBalancerHealthMonitor(u.name.nodePort,
                        getServiceHealthCheckNodePort(wk[w].svc))
               requested == IF wk[w].svc.proxyProtocol THEN "v1" ELSE "disabled"
               differs == \E q \in wk[w].pools : q.id = u.pool /\ q.proxy # requested
               New(p) == [p EXCEPT !.name = u.name, !.hm = hm,
                                   !.proxy = IF differs THEN requested ELSE @]
    <2>1. u.name \in VpcPoolNameFields /\ u.name.nodePort \in NodePort
      BY <1>1, <1>8, UpdateFields DEF updateLoadBalancerPool
    <2>2. hm \in HealthMonitor
      BY <1>1, <2>1, HealthMonitorType
    <2>3. requested \in {"v1", "disabled"}
      OBVIOUS
    <2>4. pools' = {IF p.id = u.pool THEN New(p) ELSE p : p \in pools}
          /\ listeners' = listeners
      BY <1>8 DEF updateLoadBalancerPool
    <2>5. \A p \in pools : New(p) \in VpcLoadBalancerPool
      <3> HIDE DEF hm, requested, differs
      <3> QED
        BY <1>2, <2>1, <2>2, <2>3 DEF VpcLoadBalancerPool
    <2> HIDE DEF New
    <2> QED
      BY <1>2, <2>4, <2>5
  <1> QED
    BY <1>3, <1>4, <1>5, <1>6, <1>7, <1>8 DEF Perform

\* Creating a load balancer keeps the types of its state.
LEMMA CreateType ==
    ASSUME TypeOK, NEW w \in Worker, CreateRequest(w)
    PROVE  /\ lb' \in [id: Nat, status: Status, public: BOOLEAN, subnets: SUBSET STRING]
           /\ listeners' \subseteq VpcLoadBalancerListener
           /\ pools' \subseteq VpcLoadBalancerPool
  <1> DEFINE c == wk[w]
             names == getServicePoolNames(c.svc)
             ids == CHOOSE f \in [names -> FreshIds] : Injective(f)
             Hm(n) == genLoadBalancerHealthMonitor(n.nodePort,
                         getServiceHealthCheckNodePort(c.svc))
             Ms(n) == genLoadBalancerMembers(n.nodePort, NodeList(c.svc, c.nodes))
             proxy == IF c.svc.proxyProtocol THEN "v1" ELSE "disabled"
  <1>1. c.svc \in Services /\ NodeList(c.svc, c.nodes) \subseteq Node
    BY NodeListType DEF TypeOK, Call
  <1>2. \A n \in names : n \in VpcPoolNameFields /\ n.port \in ExtPort /\ n.nodePort \in NodePort
    BY <1>1, ServiceFields, PoolNameType DEF getServicePoolNames, VpcPoolNameFields
  <1>3. ids \in [names -> FreshIds]
    BY DEF CreateRequest
  <1>4. \A n \in names : ids[n] \in PoolId
    BY <1>3 DEF FreshIds
  <1>5. \A n \in names : Hm(n) \in HealthMonitor /\ Ms(n) \subseteq Member
    BY <1>1, <1>2, HealthMonitorType, MembersType
  <1>6. /\ lb' = [id |-> lb.id + 1, status |-> "create_pending",
                  public |-> c.svc.public, subnets |-> SubnetList(c.svc)]
        /\ pools' = {[id |-> ids[n], name |-> n, hm |-> Hm(n), proxy |-> proxy,
                      members |-> Ms(n)] : n \in names}
        /\ listeners' = {[protocol |-> "tcp", port |-> n.port, pool |-> ids[n]] : n \in names}
    BY DEF CreateRequest
  <1>7. lb' \in [id: Nat, status: Status, public: BOOLEAN, subnets: SUBSET STRING]
    <2>1. lb.id \in Nat /\ c.svc.public \in BOOLEAN /\ SubnetList(c.svc) \subseteq STRING
      BY <1>1, ServiceFields, SubnetListType DEF TypeOK
    <2> QED
      BY <1>6, <2>1 DEF Status
  <1> HIDE DEF c, names, ids, Hm, Ms
  <1>8. listeners' \subseteq VpcLoadBalancerListener
    BY <1>2, <1>4, <1>6 DEF VpcLoadBalancerListener
  <1>9. pools' \subseteq VpcLoadBalancerPool
    BY <1>2, <1>4, <1>5, <1>6 DEF VpcLoadBalancerPool
  <1> QED
    BY <1>7, <1>8, <1>9

\* The calls keep their type when one of them becomes the call d.
LEMMA CallsType ==
    ASSUME TypeOK, NEW w \in Worker, NEW d \in Call, wk' = [wk EXCEPT ![w] = d]
    PROVE  wk' \in [Worker -> Call]
  BY DEF TypeOK

\* The type of the load balancer object.
LbType == [id: Nat, status: Status, public: BOOLEAN, subnets: SUBSET STRING]

KubeType == [service: Services, wanted: BOOLEAN, nodes: SUBSET Node,
             cached: SUBSET Services, syncPending: BOOLEAN, nodePending: BOOLEAN]

\* The initial state has the right types.
LEMMA TypeInit == Init => TypeOK
  BY IdleCallType DEF Init, TypeOK, NoLb, Status

\* A step inside a call preserves the types.
LEMMA TypeCall ==
    ASSUME TypeOK, NEW w \in Worker,
           CallStep(w) \/ WaitTimeout(w) \/ ApiFails(w) \/ ReplyLost(w)
    PROVE  TypeOK'
  <1> DEFINE c == wk[w]
  <1>1. c \in Call /\ wk \in [Worker -> Call]
    BY DEF TypeOK
  <1>2. Refs \subseteq PoolRef /\ lb \in LbType /\ lb.id \in Nat /\ kube \in KubeType
        /\ listeners \subseteq VpcLoadBalancerListener /\ pools \subseteq VpcLoadBalancerPool
    BY RefsType DEF TypeOK, LbType, KubeType
  <1>3. ASSUME UNCHANGED <<cloud, cluster>>, wk' \in [Worker -> Call]
        PROVE  TypeOK'
    BY <1>3 DEF TypeOK, cloud, cluster
  <1>4. \A r \in {"ok", "busy", "rule", "error"} : Finish(w, r) => wk' \in [Worker -> Call]
    BY FinishType
  <1>5. CASE FindLoadBalancer(w)
    <2>1. ASSUME wk' = [wk EXCEPT ![w].pc = "create"]
          PROVE  wk' \in [Worker -> Call]
      <3>1. [c EXCEPT !.pc = "create"] \in Call
        BY <1>1 DEF Call
      <3> QED
        BY <2>1, <3>1, CallsType
    <2>2. ASSUME NEW pc \in {"delete", "listeners"},
                 wk' = [wk EXCEPT ![w].pc = pc, ![w].lb = lb.id, ![w].refs = Refs]
          PROVE  wk' \in [Worker -> Call]
      <3>1. [c EXCEPT !.pc = pc, !.lb = lb.id, !.refs = Refs] \in Call
        BY <1>1, <1>2 DEF Call
      <3> QED
        BY <1>1, <2>2, <3>1, CallsType
    <2>3. \/ wk' = [wk EXCEPT ![w].pc = "create"]
          \/ Finish(w, "ok") \/ Finish(w, "error") \/ Finish(w, "busy")
          \/ \E pc \in {"delete", "listeners"} :
                wk' = [wk EXCEPT ![w].pc = pc, ![w].lb = lb.id, ![w].refs = Refs]
      BY <1>5 DEF FindLoadBalancer, EnsureLoadBalancer, EnsureLoadBalancerDeleted,
         EnsureLoadBalancerUpdated, BeginUpdate, Take
    <2>4. wk' \in [Worker -> Call]
      BY <1>4, <2>1, <2>2, <2>3
    <2> QED
      BY <1>3, <1>5, <2>4 DEF FindLoadBalancer
  <1>6. CASE CreateLoadBalancer(w)
    <2>1. wk' \in [Worker -> Call]
      BY <1>4, <1>6 DEF CreateLoadBalancer
    <2>2. /\ lb' \in LbType
          /\ listeners' \subseteq VpcLoadBalancerListener
          /\ pools' \subseteq VpcLoadBalancerPool
      BY <1>2, <1>6, CreateType DEF CreateLoadBalancer, cloud, LbType
    <2> QED
      BY <1>6, <2>1, <2>2 DEF CreateLoadBalancer, cluster, TypeOK, LbType
  <1>7. CASE DeleteLoadBalancer(w)
    <2>1. wk' \in [Worker -> Call]
      BY <1>4, <1>7 DEF DeleteLoadBalancer
    <2>2. lb' \in LbType
      BY <1>2, <1>7 DEF DeleteLoadBalancer, DeleteRequest, cloud, LbType, Status
    <2> QED
      BY <1>7, <2>1, <2>2 DEF DeleteLoadBalancer, DeleteRequest, cloud, cluster,
         TypeOK, LbType
  <1>8. CASE ListLoadBalancerListeners(w)
    <2>1. [c EXCEPT !.pc = "pools", !.listeners = listeners] \in Call
      BY <1>1, <1>2 DEF Call
    <2>2. wk' \in [Worker -> Call]
      BY <1>1, <1>4, <1>8, <2>1, CallsType DEF ListLoadBalancerListeners
    <2> QED
      BY <1>3, <1>8, <2>2 DEF ListLoadBalancerListeners
  <1>9. CASE ListLoadBalancerPools(w)
    <2> DEFINE plan == Plan(c.svc, NodeList(c.svc, c.nodes), c.listeners, pools)
    <2>1. plan \subseteq Update
      <3>1. /\ c.svc \in Services /\ c.nodes \subseteq Node
            /\ c.listeners \subseteq VpcLoadBalancerListener
        BY <1>1 DEF Call
      <3> QED
        BY <1>2, <3>1, NodeListType, PlanType
    <2>2. \/ Finish(w, "ok") \/ Finish(w, "error")
          \/ wk' = [wk EXCEPT ![w].pc = "exec", ![w].pools = pools, ![w].plan = plan]
      BY <1>9 DEF ListLoadBalancerPools
    <2> HIDE DEF plan
    <2>3. [c EXCEPT !.pc = "exec", !.pools = pools, !.plan = plan] \in Call
      BY <1>1, <1>2, <2>1 DEF Call
    <2>4. wk' \in [Worker -> Call]
      BY <1>1, <1>4, <2>2, <2>3, CallsType
    <2> QED
      BY <1>3, <1>9, <2>4 DEF ListLoadBalancerPools
  <1>10. ASSUME NEW u \in c.plan, Performed(w, u), wk' \in [Worker -> Call],
                kube' = kube, changes' = changes, faults' \in 0 .. MaxFaults
         PROVE  TypeOK'
    <2>1. lb' \in LbType
      BY <1>2, <1>10 DEF Performed, LbType, Status
    <2> QED
      BY <1>10, <2>1, PerformType DEF Performed, TypeOK, LbType
  <1>11. CASE ExecUpdate(w)
    <2>1. PICK u \in c.plan :
             \/ (Finish(w, "busy") \/ Finish(w, "rule")) /\ UNCHANGED cloud
             \/ Performed(w, u) /\ Advance(w, u)
      BY <1>11 DEF ExecUpdate
    <2>2. ASSUME Advance(w, u)
          PROVE  wk' \in [Worker -> Call]
      <3> DEFINE rest == c.plan \ {u}
                 d == [c EXCEPT !.plan = rest,
                                !.pc = IF rest = {} THEN "done" ELSE "get",
                                !.result = IF rest = {} THEN "ok" ELSE "none"]
      <3>1. d \in Call
        BY <1>1 DEF Call
      <3>2. wk' = [wk EXCEPT ![w] = d]
        BY <1>1, <2>2 DEF Advance
      <3> HIDE DEF d
      <3> QED
        BY <3>1, <3>2, CallsType
    <2>3. wk' \in [Worker -> Call]
      BY <1>4, <2>1, <2>2
    <2>4. CASE UNCHANGED cloud
      BY <1>3, <1>11, <2>3, <2>4 DEF ExecUpdate
    <2>5. CASE Performed(w, u)
      <3>1. kube' = kube /\ changes' = changes /\ faults' \in 0 .. MaxFaults
        BY <1>11 DEF ExecUpdate, cluster, TypeOK
      <3> QED
        BY <1>10, <2>3, <2>5, <3>1
    <2> QED
      BY <2>1, <2>4, <2>5
  <1>12. CASE GetLoadBalancer(w) \/ WaitLoadBalancerReady(w)
    <2> DEFINE d(n) == [c EXCEPT !.refs = Refs, !.polls = n,
                                 !.pc = IF IsReady THEN "exec" ELSE "wait"]
    <2>1. \A n \in 0 .. MaxPolls - 1 : d(n) \in Call
      BY <1>1, <1>2 DEF Call
    <2>2. c.polls \in 0 .. MaxPolls - 1 /\ MaxPolls \in Nat
      BY <1>1 DEF Call
    <2>3. \/ Finish(w, "error") \/ Finish(w, "busy")
          \/ \E n \in 0 .. MaxPolls - 1 : wk' = [wk EXCEPT ![w] = d(n)]
      <3>1. CASE GetLoadBalancer(w)
        <4>1. Finish(w, "error") \/ wk' = [wk EXCEPT ![w] = d(0)]
          BY <1>1, <3>1 DEF GetLoadBalancer
        <4>2. 0 \in 0 .. MaxPolls - 1
          BY <2>2
        <4> HIDE DEF d
        <4> QED
          BY <4>1, <4>2
      <3>2. CASE WaitLoadBalancerReady(w)
        <4>1. CASE ~Found(w)
          BY <3>2, <4>1 DEF WaitLoadBalancerReady
        <4>2. CASE Found(w) /\ c.polls + 1 = MaxPolls
          BY <3>2, <4>2 DEF WaitLoadBalancerReady
        <4>3. CASE Found(w) /\ c.polls + 1 # MaxPolls
          <5>1. wk' = [wk EXCEPT ![w] = d(c.polls + 1)]
            BY <1>1, <3>2, <4>3 DEF WaitLoadBalancerReady
          <5>2. c.polls + 1 \in 0 .. MaxPolls - 1
            BY <2>2, <4>3
          <5> HIDE DEF d
          <5> QED
            BY <5>1, <5>2
        <4> QED
          BY <4>1, <4>2, <4>3
      <3> QED
        BY <1>12, <3>1, <3>2
    <2> HIDE DEF d
    <2>4. wk' \in [Worker -> Call]
      BY <1>4, <2>1, <2>3, CallsType
    <2> QED
      BY <1>3, <1>12, <2>4 DEF GetLoadBalancer, WaitLoadBalancerReady
  <1>13. CASE WaitTimeout(w)
    BY <1>3, <1>4, <1>13 DEF WaitTimeout
  <1>14. CASE Return(w)
    <2>1. wk' \in [Worker -> Call]
      BY <1>14, IdleCallType, CallsType DEF Return
    <2>2. kube' \in KubeType
      <3> DEFINE failed == c.result # "ok"
                 cached == CASE failed \/ c.op = "update" -> kube.cached
                             [] ~failed /\ c.op = "ensure" -> {c.svc}
                             [] OTHER -> {}
                 sync == kube.syncPending \/ (failed /\ c.op # "update")
                 node == kube.nodePending \/ (failed /\ c.op = "update")
      <3>1. kube' = [kube EXCEPT !.syncPending = sync, !.nodePending = node,
                                 !.cached = cached]
        BY <1>14 DEF Return
      <3>2. sync \in BOOLEAN /\ node \in BOOLEAN
        BY <1>2, Zenon DEF KubeType
      <3>3. c.svc \in Services /\ kube.cached \subseteq Services
        BY <1>1, <1>2 DEF Call, KubeType
      <3>4. cached \subseteq Services
        BY <3>3
      <3> HIDE DEF sync, node, cached
      <3> QED
        BY <1>2, <3>1, <3>2, <3>4 DEF KubeType
    <2> QED
      BY <1>14, <2>1, <2>2 DEF Return, cloud, TypeOK, KubeType
  <1>15. CASE ApiFails(w)
    BY <1>4, <1>15 DEF ApiFails, cloud, TypeOK
  <1>16. CASE ReplyLost(w)
    <2>1. wk' \in [Worker -> Call]
      BY <1>4, <1>16 DEF ReplyLost
    <2>2. kube' = kube /\ changes' = changes /\ faults' \in 0 .. MaxFaults
      BY <1>16 DEF ReplyLost, TypeOK
    <2>3. CASE \E u \in c.plan : Performed(w, u)
      BY <1>10, <2>1, <2>2, <2>3
    <2>4. CASE CreateRequest(w)
      BY <2>1, <2>2, <2>4, CreateType DEF TypeOK
    <2>5. CASE DeleteRequest
      <3>1. lb' \in LbType
        BY <1>2, <2>5 DEF DeleteRequest, LbType, Status
      <3> QED
        BY <2>1, <2>2, <2>5, <3>1 DEF DeleteRequest, TypeOK, LbType
    <2> QED
      BY <1>16, <2>3, <2>4, <2>5 DEF ReplyLost
  <1> QED
    BY <1>5, <1>6, <1>7, <1>8, <1>9, <1>11, <1>12, <1>13, <1>14, <1>15, <1>16
       DEF CallStep

\* A step outside the calls preserves the types.
LEMMA TypeOutside ==
    ASSUME TypeOK,
           \/ StartEnsure \/ StartDelete \/ StartUpdate
           \/ ChangeService \/ ToggleWanted \/ ChangeNodes
           \/ CloudReady \/ CloudDeleted \/ Maintenance
           \/ AddForeignPool \/ RemoveForeignPool \/ Restart
    PROVE  TypeOK'
  <1>1. /\ lb \in LbType /\ kube \in KubeType
        /\ kube.service \in Services /\ kube.nodes \subseteq Node
        /\ kube.cached \subseteq Services
    BY DEF TypeOK, LbType, KubeType
  <1>2. \A b \in BOOLEAN : /\ [kube EXCEPT !.syncPending = b] \in KubeType
                           /\ [kube EXCEPT !.nodePending = b] \in KubeType
    BY <1>1 DEF KubeType
  <1>3. CASE StartEnsure \/ StartDelete \/ StartUpdate
    <2>1. wk' \in [Worker -> Call]
      BY <1>1, <1>3, BeginType DEF StartEnsure, StartDelete, StartUpdate, Worker
    <2>2. kube' \in KubeType
      BY <1>2, <1>3 DEF StartEnsure, StartDelete, StartUpdate
    <2> QED
      BY <1>3, <2>1, <2>2
         DEF StartEnsure, StartDelete, StartUpdate, cloud, TypeOK, KubeType
  <1>4. CASE ChangeService \/ ToggleWanted \/ ChangeNodes
    <2>1. kube' \in KubeType
      BY <1>1, <1>4 DEF ChangeService, ToggleWanted, ChangeNodes, KubeType
    <2>2. changes' \in 0 .. MaxChanges
      <3>1. changes \in 0 .. MaxChanges /\ MaxChanges \in Nat
        BY DEF TypeOK
      <3>2. changes < MaxChanges /\ changes' = changes + 1
        BY <1>4 DEF ChangeService, ToggleWanted, ChangeNodes
      <3> QED
        BY <3>1, <3>2
    <2> QED
      BY <1>4, <2>1, <2>2
         DEF ChangeService, ToggleWanted, ChangeNodes, cloud, TypeOK, KubeType
  <1>5. CASE CloudReady \/ CloudDeleted \/ Maintenance
    <2>1. lb' \in LbType
      BY <1>1, <1>5 DEF CloudReady, CloudDeleted, Maintenance, NoLb, LbType, Status
    <2>2. faults' \in 0 .. MaxFaults
      BY <1>5 DEF CloudReady, CloudDeleted, Maintenance, cluster, TypeOK
    <2> QED
      BY <1>5, <2>1, <2>2
         DEF CloudReady, CloudDeleted, Maintenance, cluster, TypeOK, LbType
  <1>6. CASE AddForeignPool
    <2> DEFINE id == CHOOSE i \in FreshIds : TRUE
    <2>1. id \in PoolId
      BY <1>6 DEF AddForeignPool, FreshIds
    <2>2. PICK e \in ExtPort, n \in NodePort :
             pools' = pools \cup
               {[id |-> id, name |-> [protocol |-> "other", port |-> e, nodePort |-> n],
                 hm |-> [type |-> "tcp", port |-> n], proxy |-> "disabled",
                 members |-> {}]}
      BY <1>6 DEF AddForeignPool
    <2> HIDE DEF id
    <2>3. pools' \subseteq VpcLoadBalancerPool
      BY <2>1, <2>2 DEF TypeOK, VpcLoadBalancerPool, VpcPoolNameFields, HealthMonitor
    <2> QED
      BY <1>6, <2>3 DEF AddForeignPool, TypeOK
  <1>7. CASE RemoveForeignPool
    BY <1>7 DEF RemoveForeignPool, cluster, TypeOK
  <1>8. CASE Restart
    <2>1. wk' \in [Worker -> Call]
      BY <1>8, IdleCallType DEF Restart
    <2>2. kube' \in KubeType
      BY <1>1, <1>8 DEF Restart, KubeType
    <2> QED
      BY <1>8, <2>1, <2>2 DEF Restart, cloud, TypeOK, KubeType
  <1> QED
    BY <1>3, <1>4, <1>5, <1>6, <1>7, <1>8

\* The state of the VPC, of the cluster and of the two calls into the
\* provider stays well typed whatever the callers, the VPC and failures do:
\* no call ever plans a malformed update or reads a malformed pool.
THEOREM TypeCorrect == Spec => []TypeOK
  <1>1. Init => TypeOK
    BY TypeInit
  <1>2. TypeOK /\ [Next]_vars => TypeOK'
    <2> SUFFICES ASSUME TypeOK, [Next]_vars
                 PROVE  TypeOK'
      OBVIOUS
    <2>1. CASE UNCHANGED vars
      BY <2>1 DEF vars, TypeOK
    <2>2. CASE \E w \in Worker :
                  CallStep(w) \/ WaitTimeout(w) \/ ApiFails(w) \/ ReplyLost(w)
      BY <2>2, TypeCall
    <2>3. CASE ~\E w \in Worker :
                  CallStep(w) \/ WaitTimeout(w) \/ ApiFails(w) \/ ReplyLost(w)
      BY <2>1, <2>3, TypeOutside DEF Next
    <2> QED
      BY <2>2, <2>3
  <1> QED
    BY <1>1, <1>2, PTL DEF Spec

-----------------------------------------------------------------------------
(* Every listener forwards to the pool of its own port *)

\* A step leaves what the calls remember of pools alone, or forgets some.
Remembered ==
    \A w \in Worker :
        /\ wk'[w].refs \subseteq wk[w].refs
        /\ wk'[w].pools \subseteq wk[w].pools
        /\ wk'[w].plan \subseteq wk[w].plan
        /\ wk'[w].plan # {} => wk'[w].pools = wk[w].pools

\* The end of a call forgets nothing it has seen and plans nothing new.
LEMMA FinishRemembers ==
    ASSUME TypeOK, NEW w \in Worker, NEW r, Finish(w, r)
    PROVE  Remembered
  <1>1. \A v \in Worker : wk[v] \in Call /\ wk \in [Worker -> Call]
    BY DEF TypeOK
  <1>2. wk' = [wk EXCEPT ![w] = [wk[w] EXCEPT !.pc = "done", !.result = r]]
    BY <1>1 DEF Finish
  <1> QED
    BY <1>1, <1>2 DEF Remembered, Call

\* Neither does the step to the next update.
LEMMA AdvanceRemembers ==
    ASSUME TypeOK, NEW w \in Worker, NEW u, Advance(w, u)
    PROVE  Remembered
  <1>1. \A v \in Worker : wk[v] \in Call /\ wk \in [Worker -> Call]
    BY DEF TypeOK
  <1> DEFINE rest == wk[w].plan \ {u}
  <1>2. wk' = [wk EXCEPT ![w] = [wk[w] EXCEPT !.plan = rest,
                  !.pc = IF rest = {} THEN "done" ELSE "get",
                  !.result = IF rest = {} THEN "ok" ELSE "none"]]
    BY <1>1 DEF Advance
  <1> QED
    BY <1>1, <1>2 DEF Remembered, Call

\* A change of the pools that keeps identifiers and external ports, and the
\* listeners' pools, preserves the invariant.
LEMMA PoolsKeepPorts ==
    ASSUME PortInv, Remembered, UniqueIds',
           listeners' \subseteq listeners,
           \A l \in listeners', p \in pools : l.pool = p.id =>
              \E q \in pools' : q.id = p.id /\ q.name.port = p.name.port,
           \A q \in pools' : \E p \in pools : q.id = p.id /\ q.name.port = p.name.port
    PROVE  PortInv'
  <1>1. ListenerTargetsOwnPort'
    BY DEF PortInv, ListenerTargetsOwnPort
  <1>2. ViewsAgree'
    <2> SUFFICES ASSUME NEW w \in Worker, NEW q \in pools'
                 PROVE  /\ \A r \in wk'[w].refs : r.id = q.id => r.name.port = q.name.port
                        /\ \A x \in wk'[w].pools : x.id = q.id => x.name.port = q.name.port
      BY DEF ViewsAgree
    <2>1. PICK p \in pools : q.id = p.id /\ q.name.port = p.name.port
      OBVIOUS
    <2>2. wk'[w].refs \subseteq wk[w].refs /\ wk'[w].pools \subseteq wk[w].pools
      BY DEF Remembered
    <2> QED
      BY <2>1, <2>2 DEF PortInv, ViewsAgree
  <1>3. RenamesKeepPort'
    BY DEF PortInv, RenamesKeepPort, Remembered
  <1> QED
    BY <1>1, <1>2, <1>3 DEF PortInv

\* A new pool with a fresh identifier preserves the invariant.
LEMMA NewPoolKeepsPorts ==
    ASSUME TypeOK, PortInv, Remembered, NEW p, p.id \in FreshIds,
           pools' = pools \cup {p}, listeners' = listeners
    PROVE  PortInv'
  <1>1. /\ \A q \in pools : q.id # p.id
        /\ \A w \in Worker : /\ \A r \in wk[w].refs : r.id # p.id
                             /\ \A q \in wk[w].pools : q.id # p.id
    BY DEF FreshIds, UsedIds
  <1>2. ListenerTargetsOwnPort' /\ UniqueIds'
    BY <1>1 DEF PortInv, ListenerTargetsOwnPort, UniqueIds
  <1>3. ViewsAgree'
    BY <1>1 DEF PortInv, ViewsAgree, Remembered
  <1>4. RenamesKeepPort'
    BY DEF PortInv, RenamesKeepPort, Remembered
  <1> QED
    BY <1>2, <1>3, <1>4 DEF PortInv

\* Performing an allowed update preserves the invariant.
LEMMA PerformKeepsPorts ==
    ASSUME TypeOK, PortInv, Remembered, NEW w \in Worker, NEW u \in wk[w].plan,
           Allowed(w, u), Perform(w, u)
    PROVE  PortInv'
  <1>1. \A p \in pools : p \in VpcLoadBalancerPool
    BY DEF TypeOK
  <1>2. ASSUME NEW f,
               \A p \in pools : f[p].id = p.id /\ f[p].name.port = p.name.port,
               pools' = {f[p] : p \in pools},
               listeners' = listeners
        PROVE  PortInv'
    <2>1. UniqueIds'
      BY <1>2 DEF PortInv, UniqueIds
    <2>2. \A p \in pools : \E q \in pools' : q.id = p.id /\ q.name.port = p.name.port
      BY <1>2
    <2>3. \A q \in pools' : \E p \in pools : q.id = p.id /\ q.name.port = p.name.port
      BY <1>2
    <2> QED
      BY <1>2, <2>1, <2>2, <2>3, PoolsKeepPorts
  <1>3. CASE createLoadBalancerListener(w, u)
    <2>1. PICK r \in wk[w].refs :
             /\ r.name = u.name
             /\ r.id \in {p.id : p \in pools}
             /\ listeners' = listeners \cup {[protocol |-> u.name.protocol,
                                              port |-> u.name.port, pool |-> r.id]}
      BY <1>3 DEF createLoadBalancerListener
    <2>2. PICK p \in pools : p.id = r.id /\ p.name.port = u.name.port
      BY <2>1 DEF PortInv, ViewsAgree
    <2>3. pools' = pools
      BY <1>3 DEF createLoadBalancerListener
    <2>4. ListenerTargetsOwnPort'
      BY <2>1, <2>2, <2>3 DEF PortInv, ListenerTargetsOwnPort
    <2> QED
      BY <2>3, <2>4 DEF PortInv, UniqueIds, ViewsAgree, RenamesKeepPort, Remembered
  <1>4. CASE createLoadBalancerPool(w, u)
    <2> DEFINE new == [id |-> CHOOSE i \in FreshIds : TRUE, name |-> u.name,
                       hm |-> genLoadBalancerHealthMonitor(u.name.nodePort,
                                 getServiceHealthCheckNodePort(wk[w].svc)),
                       proxy |-> "disabled",
                       members |-> genLoadBalancerMembers(u.name.nodePort,
                                      NodeList(wk[w].svc, wk[w].nodes))]
    <2>1. new.id \in FreshIds /\ pools' = pools \cup {new} /\ listeners' = listeners
      BY <1>4 DEF createLoadBalancerPool
    <2> HIDE DEF new
    <2> QED
      BY <2>1, NewPoolKeepsPorts
  <1>5. CASE createLoadBalancerPoolMember(w, u)
    <2> DEFINE f == [p \in pools |-> IF p.id = u.pool
                                    THEN [p EXCEPT !.members = @ \cup {u.member}] ELSE p]
    <2>1. \A p \in pools : f[p].id = p.id /\ f[p].name.port = p.name.port
      BY <1>1 DEF VpcLoadBalancerPool
    <2>2. pools' = {f[p] : p \in pools} /\ listeners' = listeners
      BY <1>5 DEF createLoadBalancerPoolMember
    <2> HIDE DEF f
    <2> QED
      BY <1>2, <2>1, <2>2
  <1>6. CASE deleteLoadBalancerPoolMember(w, u)
    <2> DEFINE f == [p \in pools |-> IF p.id = u.pool
                                    THEN [p EXCEPT !.members = @ \ {u.member}] ELSE p]
    <2>1. \A p \in pools : f[p].id = p.id /\ f[p].name.port = p.name.port
      BY <1>1 DEF VpcLoadBalancerPool
    <2>2. pools' = {f[p] : p \in pools} /\ listeners' = listeners
      BY <1>6 DEF deleteLoadBalancerPoolMember
    <2> HIDE DEF f
    <2> QED
      BY <1>2, <2>1, <2>2
  <1>7. CASE replaceLoadBalancerPoolMembers(w, u)
    <2> DEFINE m == genLoadBalancerMembers(u.name.nodePort,
                       NodeList(wk[w].svc, wk[w].nodes))
               f == [p \in pools |-> IF p.id = u.pool
                                    THEN [p EXCEPT !.members = m] ELSE p]
    <2> HIDE DEF m
    <2>1. \A p \in pools : f[p].id = p.id /\ f[p].name.port = p.name.port
      BY <1>1 DEF VpcLoadBalancerPool
    <2>2. pools' = {f[p] : p \in pools} /\ listeners' = listeners
      BY <1>7 DEF replaceLoadBalancerPoolMembers, m
    <2> HIDE DEF f
    <2> QED
      BY <1>2, <2>1, <2>2
  <1>8. CASE updateLoadBalancerPool(w, u)
    <2> DEFINE requested == IF wk[w].svc.proxyProtocol THEN "v1" ELSE "disabled"
               differs == \E q \in wk[w].pools : q.id = u.pool /\ q.proxy # requested
               hm == genLoadBalancerHealthMonitor(u.name.nodePort,
                        getServiceHealthCheckNodePort(wk[w].svc))
               f == [p \in pools |-> IF p.id = u.pool
                       THEN [p EXCEPT !.name = u.name, !.hm = hm,
                                      !.proxy = IF differs THEN requested ELSE @]
                       ELSE p]
    <2>1. pools' = {f[p] : p \in pools} /\ listeners' = listeners
      BY <1>8 DEF updateLoadBalancerPool
    <2>2. PICK q \in wk[w].pools : q.id = u.pool /\ q.name.port = u.name.port
      BY <1>8 DEF updateLoadBalancerPool, PortInv, RenamesKeepPort
    <2>3. \A p \in pools : p.id = u.pool => p.name.port = u.name.port
      BY <2>2 DEF PortInv, ViewsAgree
    <2> HIDE DEF requested, differs, hm
    <2>4. \A p \in pools : f[p].id = p.id /\ f[p].name.port = p.name.port
      BY <1>1, <2>3 DEF VpcLoadBalancerPool
    <2> HIDE DEF f
    <2> QED
      BY <1>2, <2>1, <2>4
  <1>9. CASE deleteLoadBalancerListener(w, u)
    BY <1>9, PoolsKeepPorts DEF deleteLoadBalancerListener, PortInv, UniqueIds
  <1>10. CASE deleteLoadBalancerPool(w, u)
    <2>1. /\ pools' = {p \in pools : p.id # u.pool}
          /\ listeners' = listeners
          /\ u.cmd = "DELETE-POOL"
      BY <1>10 DEF deleteLoadBalancerPool
    <2>2. \A l \in listeners : l.pool # u.pool
      BY <2>1 DEF Allowed
    <2>3. UniqueIds'
      BY <2>1 DEF PortInv, UniqueIds
    <2> QED
      BY <2>1, <2>2, <2>3, PoolsKeepPorts
  <1> QED
    BY <1>3, <1>4, <1>5, <1>6, <1>7, <1>8, <1>9, <1>10 DEF Perform

\* The pools and listeners of a create request all have fresh identifiers.
LEMMA CreateKeepsPorts ==
    ASSUME TypeOK, PortInv, Remembered, NEW w \in Worker, CreateRequest(w)
    PROVE  PortInv'
  <1> DEFINE c == wk[w]
             names == getServicePoolNames(c.svc)
             ids == CHOOSE f \in [names -> FreshIds] : Injective(f)
             Hm(n) == genLoadBalancerHealthMonitor(n.nodePort,
                         getServiceHealthCheckNodePort(c.svc))
             Ms(n) == genLoadBalancerMembers(n.nodePort, NodeList(c.svc, c.nodes))
             proxy == IF c.svc.proxyProtocol THEN "v1" ELSE "disabled"
  <1>1. ids \in [names -> FreshIds] /\ Injective(ids)
    BY DEF CreateRequest
  <1>2. /\ pools' = {[id |-> ids[n], name |-> n, hm |-> Hm(n), proxy |-> proxy,
                      members |-> Ms(n)] : n \in names}
        /\ listeners' = {[protocol |-> "tcp", port |-> n.port, pool |-> ids[n]] : n \in names}
    BY DEF CreateRequest
  <1> HIDE DEF c, names, ids, Hm, Ms, proxy
  <1>3. \A p \in pools' : p.id \in FreshIds
    BY <1>1, <1>2
  <1>4. UniqueIds'
    BY <1>1, <1>2 DEF UniqueIds, Injective
  <1>5. ListenerTargetsOwnPort'
    <2> SUFFICES ASSUME NEW l \in listeners'
                 PROVE  \E p \in pools' : p.id = l.pool /\ p.name.port = l.port
      BY DEF ListenerTargetsOwnPort
    <2>1. PICK n \in names : l = [protocol |-> "tcp", port |-> n.port, pool |-> ids[n]]
      BY <1>2
    <2> DEFINE p == [id |-> ids[n], name |-> n, hm |-> Hm(n), proxy |-> proxy,
                     members |-> Ms(n)]
    <2>2. p \in pools'
      BY <1>2
    <2>3. p.id = l.pool /\ p.name.port = l.port
      BY <2>1
    <2> QED
      BY <2>2, <2>3
  <1>6. ViewsAgree'
    <2>1. \A v \in Worker : /\ \A r \in wk[v].refs : r.id \notin FreshIds
                            /\ \A q \in wk[v].pools : q.id \notin FreshIds
      BY DEF FreshIds, UsedIds
    <2> QED
      BY <1>3, <2>1 DEF ViewsAgree, Remembered
  <1>7. RenamesKeepPort'
    BY DEF PortInv, RenamesKeepPort, Remembered
  <1> QED
    BY <1>4, <1>5, <1>6, <1>7 DEF PortInv

\* Nothing changes but what one call knows: it may have read the pools of the
\* load balancer again.
LEMMA ReadKeepsPorts ==
    ASSUME TypeOK, PortInv, NEW w \in Worker, NEW d,
           wk' = [wk EXCEPT ![w] = d], pools' = pools, listeners' = listeners,
           d.refs \subseteq wk[w].refs \cup Refs,
           d.pools \subseteq wk[w].pools \cup pools,
           \A u \in d.plan : u.cmd = "UPDATE-POOL" =>
              \E q \in d.pools : q.id = u.pool /\ q.name.port = u.name.port
    PROVE  PortInv'
  <1>1. wk \in [Worker -> Call]
    BY DEF TypeOK
  <1>2. ListenerTargetsOwnPort' /\ UniqueIds'
    BY DEF PortInv, ListenerTargetsOwnPort, UniqueIds
  <1>3. ViewsAgree'
    <2> SUFFICES ASSUME NEW v \in Worker, NEW p \in pools
                 PROVE  /\ \A r \in wk'[v].refs : r.id = p.id => r.name.port = p.name.port
                        /\ \A q \in wk'[v].pools : q.id = p.id => q.name.port = p.name.port
      BY DEF ViewsAgree
    <2>1. \A r \in Refs : r.id = p.id => r.name.port = p.name.port
      BY DEF Refs, PortInv, UniqueIds
    <2>2. \A q \in pools : q.id = p.id => q.name.port = p.name.port
      BY DEF PortInv, UniqueIds
    <2>3. /\ \A r \in wk[v].refs : r.id = p.id => r.name.port = p.name.port
          /\ \A q \in wk[v].pools : q.id = p.id => q.name.port = p.name.port
      BY DEF PortInv, ViewsAgree
    <2> QED
      BY <1>1, <2>1, <2>2, <2>3
  <1>4. RenamesKeepPort'
    BY <1>1 DEF PortInv, RenamesKeepPort
  <1> QED
    BY <1>2, <1>3, <1>4 DEF PortInv

\* Nothing changes in the VPC and the calls only forget.
LEMMA ForgetKeepsPorts ==
    ASSUME PortInv, Remembered, pools' = pools, listeners' = listeners
    PROVE  PortInv'
  <1>1. UniqueIds'
    BY DEF PortInv, UniqueIds
  <1> QED
    BY <1>1, PoolsKeepPorts

\* A step inside a call preserves the invariant.
LEMMA PortCall ==
    ASSUME TypeOK, PortInv, NEW w \in Worker,
           CallStep(w) \/ WaitTimeout(w) \/ ApiFails(w) \/ ReplyLost(w)
    PROVE  PortInv'
  <1> DEFINE c == wk[w]
  <1>1. c \in Call /\ wk \in [Worker -> Call]
    BY DEF TypeOK
  <1>2. \A u \in c.plan : u.cmd = "UPDATE-POOL" =>
           \E q \in c.pools : q.id = u.pool /\ q.name.port = u.name.port
    BY DEF PortInv, RenamesKeepPort
  <1>3. ASSUME NEW r, Finish(w, r), pools' = pools, listeners' = listeners
        PROVE  PortInv'
    BY <1>3, FinishRemembers, ForgetKeepsPorts
  <1>4. CASE FindLoadBalancer(w)
    <2>1. pools' = pools /\ listeners' = listeners
      BY <1>4 DEF FindLoadBalancer, cloud
    <2>2. CASE wk' = [wk EXCEPT ![w].pc = "create"]
      <3> DEFINE d == [c EXCEPT !.pc = "create"]
      <3>1. d.refs = c.refs /\ d.pools = c.pools /\ d.plan = c.plan
        BY <1>1 DEF Call
      <3>2. wk' = [wk EXCEPT ![w] = d]
        BY <2>2
      <3> HIDE DEF d
      <3>3. d.refs \subseteq c.refs \cup Refs /\ d.pools \subseteq c.pools \cup pools
        BY <3>1
      <3>4. \A u \in d.plan : u.cmd = "UPDATE-POOL" =>
               \E q \in d.pools : q.id = u.pool /\ q.name.port = u.name.port
        BY <1>2, <3>1
      <3> QED
        BY <2>1, <3>2, <3>3, <3>4, ReadKeepsPorts
    <2>3. ASSUME NEW pc,
                 wk' = [wk EXCEPT ![w].pc = pc, ![w].lb = lb.id, ![w].refs = Refs]
          PROVE  PortInv'
      <3> DEFINE d == [c EXCEPT !.pc = pc, !.lb = lb.id, !.refs = Refs]
      <3>1. d.refs = Refs /\ d.pools = c.pools /\ d.plan = c.plan
        BY <1>1 DEF Call
      <3>2. wk' = [wk EXCEPT ![w] = d]
        BY <1>1, <2>3
      <3> HIDE DEF d
      <3>3. d.refs \subseteq c.refs \cup Refs /\ d.pools \subseteq c.pools \cup pools
        BY <3>1
      <3>4. \A u \in d.plan : u.cmd = "UPDATE-POOL" =>
               \E q \in d.pools : q.id = u.pool /\ q.name.port = u.name.port
        BY <1>2, <3>1
      <3> QED
        BY <2>1, <3>2, <3>3, <3>4, ReadKeepsPorts
    <2>4. \/ wk' = [wk EXCEPT ![w].pc = "create"]
          \/ Finish(w, "ok") \/ Finish(w, "error") \/ Finish(w, "busy")
          \/ \E pc \in {"delete", "listeners"} :
                wk' = [wk EXCEPT ![w].pc = pc, ![w].lb = lb.id, ![w].refs = Refs]
      BY <1>4 DEF FindLoadBalancer, EnsureLoadBalancer, EnsureLoadBalancerDeleted,
         EnsureLoadBalancerUpdated, BeginUpdate, Take
    <2> QED
      BY <1>3, <2>1, <2>2, <2>3, <2>4
  <1>5. CASE CreateLoadBalancer(w)
    <2>1. CASE CreateRequest(w) /\ Finish(w, "ok")
      BY <2>1, FinishRemembers, CreateKeepsPorts
    <2>2. CASE Finish(w, "error") /\ UNCHANGED cloud
      BY <1>3, <2>2 DEF cloud
    <2> QED
      BY <1>5, <2>1, <2>2 DEF CreateLoadBalancer
  <1>6. CASE DeleteLoadBalancer(w)
    BY <1>3, <1>6 DEF DeleteLoadBalancer, DeleteRequest, cloud
  <1>7. CASE ListLoadBalancerListeners(w)
    <2>1. pools' = pools /\ listeners' = listeners
      BY <1>7 DEF ListLoadBalancerListeners, cloud
    <2> DEFINE d == [c EXCEPT !.pc = "pools", !.listeners = listeners]
    <2>2. d.refs = c.refs /\ d.pools = c.pools /\ d.plan = c.plan
      BY <1>1 DEF Call
    <2>3. wk' = [wk EXCEPT ![w] = d] \/ Finish(w, "error")
      BY <1>1, <1>7 DEF ListLoadBalancerListeners
    <2> HIDE DEF d
    <2> QED
      BY <1>2, <1>3, <2>1, <2>2, <2>3, ReadKeepsPorts
  <1>8. CASE ListLoadBalancerPools(w)
    <2>1. pools' = pools /\ listeners' = listeners
      BY <1>8 DEF ListLoadBalancerPools, cloud
    <2> DEFINE plan == Plan(c.svc, NodeList(c.svc, c.nodes), c.listeners, pools)
               d == [c EXCEPT !.pc = "exec", !.pools = pools, !.plan = plan]
    <2>2. \/ Finish(w, "ok") \/ Finish(w, "error")
          \/ wk' = [wk EXCEPT ![w].pc = "exec", ![w].pools = pools, ![w].plan = plan]
      BY <1>8 DEF ListLoadBalancerPools
    <2>3. \A u \in plan : u.cmd = "UPDATE-POOL" =>
             \E q \in pools : q.id = u.pool /\ q.name.port = u.name.port
      <3>1. c.svc \in Services
        BY <1>1 DEF Call
      <3> QED
        BY <3>1, PlanRenames
    <2> HIDE DEF plan
    <2>4. d.refs = c.refs /\ d.pools = pools /\ d.plan = plan
      BY <1>1 DEF Call
    <2>5. Finish(w, "ok") \/ Finish(w, "error") \/ wk' = [wk EXCEPT ![w] = d]
      BY <1>1, <2>2
    <2> HIDE DEF d
    <2> QED
      BY <1>3, <2>1, <2>3, <2>4, <2>5, ReadKeepsPorts
  <1>9. CASE ExecUpdate(w)
    <2>1. PICK u \in c.plan :
             \/ (Finish(w, "busy") \/ Finish(w, "rule")) /\ UNCHANGED cloud
             \/ Allowed(w, u) /\ Performed(w, u) /\ Advance(w, u)
      BY <1>9 DEF ExecUpdate
    <2>2. CASE UNCHANGED cloud /\ (Finish(w, "busy") \/ Finish(w, "rule"))
      BY <1>3, <2>2 DEF cloud
    <2>3. CASE Allowed(w, u) /\ Performed(w, u) /\ Advance(w, u)
      BY <2>3, AdvanceRemembers, PerformKeepsPorts DEF Performed
    <2> QED
      BY <2>1, <2>2, <2>3
  <1>10. CASE GetLoadBalancer(w) \/ WaitLoadBalancerReady(w)
    <2>1. pools' = pools /\ listeners' = listeners
      BY <1>10 DEF GetLoadBalancer, WaitLoadBalancerReady, cloud
    <2>2. \/ Finish(w, "error") \/ Finish(w, "busy")
          \/ \E pc \in {"exec", "wait"}, n \in Nat :
                wk' = [wk EXCEPT ![w] = [c EXCEPT !.refs = Refs, !.polls = n, !.pc = pc]]
      <3>1. c.polls + 1 \in Nat
        BY <1>1 DEF Call
      <3>2. CASE GetLoadBalancer(w)
        BY <1>1, <3>2 DEF GetLoadBalancer
      <3>3. CASE WaitLoadBalancerReady(w)
        BY <1>1, <3>1, <3>3 DEF WaitLoadBalancerReady
      <3> QED
        BY <1>10, <3>2, <3>3
    <2>3. ASSUME NEW pc, NEW n,
                 wk' = [wk EXCEPT ![w] = [c EXCEPT !.refs = Refs, !.polls = n, !.pc = pc]]
          PROVE  PortInv'
      <3> DEFINE d == [c EXCEPT !.refs = Refs, !.polls = n, !.pc = pc]
      <3>1. d.refs = Refs /\ d.pools = c.pools /\ d.plan = c.plan
        BY <1>1 DEF Call
      <3>2. wk' = [wk EXCEPT ![w] = d]
        BY <2>3
      <3> HIDE DEF d
      <3>3. d.refs \subseteq c.refs \cup Refs /\ d.pools \subseteq c.pools \cup pools
        BY <3>1
      <3>4. \A u \in d.plan : u.cmd = "UPDATE-POOL" =>
               \E q \in d.pools : q.id = u.pool /\ q.name.port = u.name.port
        BY <1>2, <3>1
      <3> QED
        BY <2>1, <3>2, <3>3, <3>4, ReadKeepsPorts
    <2> QED
      BY <1>3, <2>1, <2>2, <2>3
  <1>11. CASE Return(w)
    <2>1. Remembered
      BY <1>1, <1>11 DEF Return, Remembered, IdleCall
    <2> QED
      BY <1>11, <2>1, ForgetKeepsPorts DEF Return, cloud
  <1>12. CASE WaitTimeout(w) \/ ApiFails(w)
    BY <1>3, <1>12 DEF WaitTimeout, ApiFails, cloud
  <1>13. CASE ReplyLost(w)
    <2>1. Remembered
      BY <1>13, FinishRemembers DEF ReplyLost
    <2>2. \/ \E u \in c.plan : Allowed(w, u) /\ Perform(w, u)
          \/ CreateRequest(w)
          \/ DeleteRequest
      BY <1>13 DEF ReplyLost, Performed
    <2> QED
      BY <2>1, <2>2, PerformKeepsPorts, CreateKeepsPorts, ForgetKeepsPorts
         DEF DeleteRequest
  <1> QED
    BY <1>4, <1>5, <1>6, <1>7, <1>8, <1>9, <1>10, <1>11, <1>12, <1>13 DEF CallStep

\* So does every other step.
LEMMA PortOutside ==
    ASSUME TypeOK, PortInv,
           \/ StartEnsure \/ StartDelete \/ StartUpdate
           \/ ChangeService \/ ToggleWanted \/ ChangeNodes
           \/ CloudReady \/ CloudDeleted \/ Maintenance
           \/ AddForeignPool \/ RemoveForeignPool \/ Restart
    PROVE  PortInv'
  <1>1. wk \in [Worker -> Call]
    BY DEF TypeOK
  <1>2. CASE StartEnsure \/ StartDelete \/ StartUpdate
    <2>1. PICK w, op, svc, nodes : w \in Worker /\ Begin(w, op, svc, nodes)
      BY <1>2 DEF StartEnsure, StartDelete, StartUpdate, Worker
    <2>2. Remembered
      BY <1>1, <2>1 DEF Begin, Remembered, IdleCall
    <2> QED
      BY <1>2, <2>2, ForgetKeepsPorts DEF StartEnsure, StartDelete, StartUpdate, cloud
  <1>3. CASE wk' = wk /\ pools' = pools /\ listeners' = listeners
    BY <1>3, ForgetKeepsPorts DEF Remembered
  <1>4. CASE ChangeService \/ ToggleWanted \/ ChangeNodes \/ CloudReady \/ Maintenance
    BY <1>3, <1>4 DEF ChangeService, ToggleWanted, ChangeNodes, CloudReady,
       Maintenance, cloud
  <1>5. CASE CloudDeleted
    BY <1>5 DEF CloudDeleted, PortInv, ListenerTargetsOwnPort, UniqueIds, ViewsAgree,
       RenamesKeepPort
  <1>6. CASE AddForeignPool
    <2>1. PICK p : p.id \in FreshIds /\ pools' = pools \cup {p}
      BY <1>6 DEF AddForeignPool
    <2>2. Remembered /\ listeners' = listeners
      BY <1>6 DEF AddForeignPool, Remembered
    <2> QED
      BY <2>1, <2>2, NewPoolKeepsPorts
  <1>7. CASE RemoveForeignPool
    <2>1. PICK p \in pools : (\A l \in listeners : l.pool # p.id) /\ pools' = pools \ {p}
      BY <1>7 DEF RemoveForeignPool
    <2>2. Remembered /\ listeners' = listeners
      BY <1>7 DEF RemoveForeignPool, Remembered
    <2>3. UniqueIds'
      BY <2>1 DEF PortInv, UniqueIds
    <2> QED
      BY <2>1, <2>2, <2>3, PoolsKeepPorts
  <1>8. CASE Restart
    <2>1. Remembered
      BY <1>8 DEF Restart, Remembered, IdleCall
    <2> QED
      BY <1>8, <2>1, ForgetKeepsPorts DEF Restart, cloud
  <1> QED
    BY <1>2, <1>4, <1>5, <1>6, <1>7, <1>8

\* The invariant of the two calls and the VPC: identifiers are unique, what a
\* call has read of a pool still tells its external port, plans rename pools
\* only within their port, and every listener has the pool of its port.
THEOREM PortCorrect == Spec => []PortInv
  <1>1. Init => PortInv
    BY DEF Init, PortInv, ListenerTargetsOwnPort, UniqueIds, ViewsAgree,
       RenamesKeepPort, IdleCall
  <1>2. TypeOK /\ PortInv /\ [Next]_vars => PortInv'
    <2> SUFFICES ASSUME TypeOK, PortInv, [Next]_vars
                 PROVE  PortInv'
      OBVIOUS
    <2>1. CASE UNCHANGED vars
      BY <2>1, ForgetKeepsPorts DEF vars, Remembered
    <2>2. CASE \E w \in Worker :
                  CallStep(w) \/ WaitTimeout(w) \/ ApiFails(w) \/ ReplyLost(w)
      BY <2>2, PortCall
    <2>3. CASE ~\E w \in Worker :
                  CallStep(w) \/ WaitTimeout(w) \/ ApiFails(w) \/ ReplyLost(w)
      BY <2>1, <2>3, PortOutside DEF Next
    <2> QED
      BY <2>2, <2>3
  <1> QED
    BY <1>1, <1>2, TypeCorrect, PTL DEF Spec

\* Every listener forwards to an existing pool of its own external port, for
\* any services, nodes and number of pools, any interleaving of
\* EnsureLoadBalancer and EnsureLoadBalancerUpdated, and any failures.
THEOREM ListenersSafe == Spec => []ListenerTargetsOwnPort
  <1>1. PortInv => ListenerTargetsOwnPort
    BY DEF PortInv
  <1> QED
    BY <1>1, PortCorrect, PTL

-----------------------------------------------------------------------------
(* The listeners and pools implement PortRoutes *)

\* A load balancer that does not exist has neither pools nor listeners.
NothingLeft == lb.status = "none" => pools = {} /\ listeners = {}

\* An external port has one listener.
UniquePorts == \A l, m \in listeners : l.port = m.port => l = m

RoutesInv == NothingLeft /\ UniquePorts

\* The six ways in which a step can change what the VPC holds.
LEMMA CloudEffect ==
    ASSUME TypeOK, [Next]_vars
    PROVE  \/ /\ listeners' = listeners /\ pools' = pools
              /\ lb'.status = "none" => lb.status = "none"
           \/ \E w \in Worker : \E u \in wk[w].plan :
                 /\ wk[w].pc = "exec" /\ IsNext(u, wk[w].plan)
                 /\ Allowed(w, u) /\ Perform(w, u) /\ lb'.status = "update_pending"
           \/ \E w \in Worker :
                 ~CreateInvalid(wk[w]) /\ lb.status = "none" /\ CreateRequest(w)
           \/ CloudDeleted \/ AddForeignPool \/ RemoveForeignPool
  <1>1. lb \in LbType
    BY DEF TypeOK, LbType
  <1>2. \A s : [lb EXCEPT !.status = s].status = s
    BY <1>1 DEF LbType
  <1>3. CASE UNCHANGED cloud \/ UNCHANGED vars
    BY <1>3 DEF cloud, vars
  <1>4. ASSUME NEW w \in Worker, NEW u \in wk[w].plan, Allowed(w, u), Performed(w, u)
        PROVE  Allowed(w, u) /\ Perform(w, u) /\ lb'.status = "update_pending"
    BY <1>2, <1>4 DEF Performed
  <1>5. CASE DeleteRequest
    BY <1>2, <1>5 DEF DeleteRequest
  <1>6. ASSUME NEW w \in Worker,
               CallStep(w) \/ WaitTimeout(w) \/ ApiFails(w) \/ ReplyLost(w)
        PROVE  \/ UNCHANGED cloud \/ DeleteRequest
               \/ \E u \in wk[w].plan : /\ wk[w].pc = "exec" /\ IsNext(u, wk[w].plan)
                                        /\ Allowed(w, u) /\ Performed(w, u)
               \/ ~CreateInvalid(wk[w]) /\ lb.status = "none" /\ CreateRequest(w)
    <2>1. CASE CreateLoadBalancer(w)
      BY <2>1 DEF CreateLoadBalancer
    <2>2. CASE DeleteLoadBalancer(w)
      BY <2>2 DEF DeleteLoadBalancer
    <2>3. CASE ExecUpdate(w)
      BY <2>3 DEF ExecUpdate
    <2>4. CASE ReplyLost(w)
      BY <2>4 DEF ReplyLost
    <2>5. CASE FindLoadBalancer(w) \/ Return(w)
      BY <2>5 DEF FindLoadBalancer, Return
    <2>6. CASE ListLoadBalancerListeners(w) \/ ListLoadBalancerPools(w)
      BY <2>6 DEF ListLoadBalancerListeners, ListLoadBalancerPools
    <2>7. CASE GetLoadBalancer(w) \/ WaitLoadBalancerReady(w)
      BY <2>7 DEF GetLoadBalancer, WaitLoadBalancerReady
    <2>8. CASE WaitTimeout(w) \/ ApiFails(w)
      BY <2>8 DEF WaitTimeout, ApiFails
    <2> QED
      BY <1>6, <2>1, <2>2, <2>3, <2>4, <2>5, <2>6, <2>7, <2>8 DEF CallStep
  <1>7. CASE \E w \in Worker :
                CallStep(w) \/ WaitTimeout(w) \/ ApiFails(w) \/ ReplyLost(w)
    BY <1>3, <1>4, <1>5, <1>6, <1>7
  <1>8. CASE \/ StartEnsure \/ StartDelete \/ StartUpdate \/ Restart
             \/ ChangeService \/ ToggleWanted \/ ChangeNodes
    BY <1>3, <1>8 DEF StartEnsure, StartDelete, StartUpdate, Restart, ChangeService,
       ToggleWanted, ChangeNodes
  <1>9. CASE CloudReady
    BY <1>2, <1>9 DEF CloudReady
  <1>10. CASE Maintenance
    BY <1>2, <1>10 DEF Maintenance
  <1> QED
    BY <1>3, <1>7, <1>8, <1>9, <1>10 DEF Next

\* A service that CreateLoadBalancer accepts has one pool name per port.
LEMMA OneNamePerPort ==
    ASSUME NEW svc \in Services, validateService(svc),
           NEW m \in getServicePoolNames(svc), NEW n \in getServicePoolNames(svc),
           m.port = n.port
    PROVE  m = n
  <1>1. PICK j \in svc.ports : m = genLoadBalancerPoolName(j)
    BY DEF getServicePoolNames
  <1>2. PICK k \in svc.ports : n = genLoadBalancerPoolName(k)
    BY DEF getServicePoolNames
  <1>3. j.port = k.port
    BY <1>1, <1>2, ServiceFields, PoolNameType
  <1>4. j.protocol = k.protocol
    BY DEF validateService
  <1> QED
    BY <1>1, <1>2, <1>3, <1>4

\* Identifiers for the pools of a create request: one of its own for each.
LEMMA CreatedRoutes ==
    ASSUME TypeOK, NEW w \in Worker, ~CreateInvalid(wk[w]), CreateRequest(w)
    PROVE  \E names \in SUBSET VpcPoolNameFields : \E ids \in [names -> PoolId] :
              /\ Injective(ids)
              /\ \A m, n \in names : m.port = n.port => m = n
              /\ {<<p.id, p.name.port>> : p \in pools'} = {<<ids[n], n.port>> : n \in names}
              /\ listeners' = {[protocol |-> "tcp", port |-> n.port, pool |-> ids[n]] :
                                  n \in names}
              /\ lb'.status = "create_pending"
  <1> DEFINE c == wk[w]
             names == getServicePoolNames(c.svc)
             ids == CHOOSE f \in [names -> FreshIds] : Injective(f)
             Hm(n) == genLoadBalancerHealthMonitor(n.nodePort,
                         getServiceHealthCheckNodePort(c.svc))
             Ms(n) == genLoadBalancerMembers(n.nodePort, NodeList(c.svc, c.nodes))
             proxy == IF c.svc.proxyProtocol THEN "v1" ELSE "disabled"
             New(n) == [id |-> ids[n], name |-> n, hm |-> Hm(n), proxy |-> proxy,
                        members |-> Ms(n)]
  <1>1. ids \in [names -> FreshIds] /\ Injective(ids)
    BY DEF CreateRequest
  <1>2. /\ pools' = {New(n) : n \in names}
        /\ listeners' = {[protocol |-> "tcp", port |-> n.port, pool |-> ids[n]] : n \in names}
        /\ lb'.status = "create_pending"
    BY DEF CreateRequest
  <1>3. c.svc \in Services /\ validateService(c.svc)
    BY DEF TypeOK, Call, CreateInvalid
  <1>4. names \in SUBSET VpcPoolNameFields
    BY <1>3, ServiceFields, PoolNameType DEF getServicePoolNames
  <1>5. \A m, n \in names : m.port = n.port => m = n
    BY <1>3, OneNamePerPort
  <1>6. \A n \in names : New(n).id = ids[n] /\ New(n).name = n
    OBVIOUS
  <1> HIDE DEF names, ids, New
  <1>7. ids \in [names -> PoolId]
    BY <1>1 DEF FreshIds
  <1>8. {<<p.id, p.name.port>> : p \in pools'} = {<<ids[n], n.port>> : n \in names}
    BY <1>2, <1>6
  <1> QED
    BY <1>1, <1>2, <1>4, <1>5, <1>7, <1>8

\* Every step keeps one listener per port, and nothing of a load balancer
\* that is gone.
LEMMA RoutesInvStep ==
    ASSUME TypeOK, RoutesInv, [Next]_vars
    PROVE  RoutesInv'
  <1>1. CASE /\ listeners' = listeners /\ pools' = pools
             /\ lb'.status = "none" => lb.status = "none"
    BY <1>1 DEF RoutesInv, NothingLeft, UniquePorts
  <1>2. ASSUME NEW w \in Worker, NEW u \in wk[w].plan,
               Allowed(w, u), Perform(w, u), lb'.status = "update_pending"
        PROVE  RoutesInv'
    <2>1. NothingLeft'
      BY <1>2 DEF NothingLeft
    <2>2. CASE createLoadBalancerListener(w, u)
      <3>1. \A l \in listeners : l.port # u.name.port
        BY <1>2, <2>2 DEF Allowed, createLoadBalancerListener
      <3>2. PICK r : listeners' = listeners \cup
                {[protocol |-> u.name.protocol, port |-> u.name.port, pool |-> r]}
        BY <2>2 DEF createLoadBalancerListener
      <3>3. UniquePorts'
        BY <3>1, <3>2 DEF RoutesInv, UniquePorts
      <3> QED
        BY <2>1, <3>3 DEF RoutesInv
    <2>3. CASE listeners' \subseteq listeners
      BY <2>1, <2>3 DEF RoutesInv, UniquePorts
    <2>4. CASE ~createLoadBalancerListener(w, u)
      <3>1. CASE deleteLoadBalancerListener(w, u)
        BY <2>3, <3>1 DEF deleteLoadBalancerListener
      <3>2. CASE createLoadBalancerPool(w, u) \/ deleteLoadBalancerPool(w, u)
        BY <2>3, <3>2 DEF createLoadBalancerPool, deleteLoadBalancerPool
      <3>3. CASE createLoadBalancerPoolMember(w, u) \/ deleteLoadBalancerPoolMember(w, u)
        BY <2>3, <3>3 DEF createLoadBalancerPoolMember, deleteLoadBalancerPoolMember
      <3>4. CASE replaceLoadBalancerPoolMembers(w, u)
        BY <2>3, <3>4 DEF replaceLoadBalancerPoolMembers
      <3>5. CASE updateLoadBalancerPool(w, u)
        BY <2>3, <3>5 DEF updateLoadBalancerPool
      <3> QED
        BY <1>2, <2>4, <3>1, <3>2, <3>3, <3>4, <3>5 DEF Perform
    <2> QED
      BY <2>2, <2>4
  <1>3. ASSUME NEW w \in Worker, ~CreateInvalid(wk[w]), CreateRequest(w)
        PROVE  RoutesInv'
    <2>1. PICK names \in SUBSET VpcPoolNameFields : \E ids \in [names -> PoolId] :
              /\ \A m, n \in names : m.port = n.port => m = n
              /\ listeners' = {[protocol |-> "tcp", port |-> n.port, pool |-> ids[n]] :
                                  n \in names}
              /\ lb'.status = "create_pending"
      BY <1>3, CreatedRoutes
    <2> QED
      BY <2>1 DEF RoutesInv, UniquePorts, NothingLeft
  <1>4. CASE CloudDeleted
    BY <1>4 DEF CloudDeleted, RoutesInv, NothingLeft, UniquePorts
  <1>5. CASE AddForeignPool \/ RemoveForeignPool
    BY <1>5 DEF AddForeignPool, RemoveForeignPool, RoutesInv, NothingLeft, UniquePorts
  <1> QED
    BY <1>1, <1>2, <1>3, <1>4, <1>5, CloudEffect

\* The pools as PortRoutes sees them.
Targets == {<<p.id, p.name.port>> : p \in pools}

\* The listeners as PortRoutes sees them.
Table == {<<l.port, l.pool>> : l \in listeners}

\* A change of the pools that keeps identifiers and external ports is none
\* for PortRoutes.
LEMMA SameTargets ==
    ASSUME NEW f, \A p \in pools : f[p].id = p.id /\ f[p].name.port = p.name.port,
           pools' = {f[p] : p \in pools}
    PROVE  Targets' = Targets
  <1>1. ASSUME NEW t \in Targets
        PROVE  t \in Targets'
    <2>1. PICK p \in pools : t = <<p.id, p.name.port>>
      BY DEF Targets
    <2>2. t = <<f[p].id, f[p].name.port>> /\ f[p] \in pools'
      BY <2>1
    <2> QED
      BY <2>2 DEF Targets
  <1>2. ASSUME NEW t \in Targets'
        PROVE  t \in Targets
    <2>1. PICK q \in pools' : t = <<q.id, q.name.port>>
      BY <1>2 DEF Targets
    <2>2. PICK p \in pools : q = f[p]
      BY <2>1
    <2> QED
      BY <2>1, <2>2 DEF Targets
  <1> QED
    BY <1>1, <1>2

\* A new pool is a new target.
LEMMA NewTarget ==
    ASSUME TypeOK, NEW p \in VpcLoadBalancerPool, p.id \in FreshIds,
           pools' = pools \cup {p}, listeners' = listeners
    PROVE  Routes!AddTarget
  <1>1. p.id \in PoolId /\ p.name.port \in ExtPort
    BY DEF VpcLoadBalancerPool, VpcPoolNameFields
  <1>2. \A q \in pools : q.id # p.id
    BY DEF FreshIds, UsedIds
  <1>3. \A s \in Targets : s[1] # p.id
    BY <1>2 DEF Targets
  <1>4. Targets' = Targets \cup {<<p.id, p.name.port>>}
    BY DEF Targets
  <1>5. Table' = Table
    BY DEF Table
  <1> QED
    BY <1>1, <1>3, <1>4, <1>5 DEF Routes!AddTarget, Targets, Table

\* A pool that goes is one target less, and no listener uses it.
LEMMA OldTarget ==
    ASSUME PortInv, NEW p \in pools, \A l \in listeners : l.pool # p.id,
           pools' = pools \ {p}, listeners' = listeners
    PROVE  Routes!RemoveTarget
  <1> DEFINE t == <<p.id, p.name.port>>
  <1>1. t \in Targets
    BY DEF Targets
  <1>2. \A r \in Table : r[2] # t[1]
    BY DEF Table
  <1>3. \A q \in pools : q.id = p.id => q = p
    BY DEF PortInv, UniqueIds
  <1>4. Targets' = Targets \ {t}
    BY <1>3 DEF Targets
  <1>5. Table' = Table
    BY DEF Table
  <1> QED
    BY <1>1, <1>2, <1>4, <1>5 DEF Routes!RemoveTarget, Targets, Table

\* A listener that is created opens its port towards a pool of that port.
LEMMA NewRoute ==
    ASSUME TypeOK, PortInv, NEW w \in Worker, NEW u \in wk[w].plan, Allowed(w, u),
           createLoadBalancerListener(w, u)
    PROVE  Routes!Open
  <1>1. PICK r \in wk[w].refs :
           /\ r.name = u.name
           /\ r.id \in {p.id : p \in pools}
           /\ listeners' = listeners \cup {[protocol |-> u.name.protocol,
                                            port |-> u.name.port, pool |-> r.id]}
    BY DEF createLoadBalancerListener
  <1>2. PICK p \in pools : p.id = r.id /\ p.name.port = u.name.port
    BY <1>1 DEF PortInv, ViewsAgree
  <1>3. \A l \in listeners : l.port # u.name.port
    BY DEF Allowed, createLoadBalancerListener
  <1> DEFINE t == <<p.id, p.name.port>>
  <1>4. t \in Targets
    BY DEF Targets
  <1>5. \A x \in Table : x[1] # t[2]
    BY <1>2, <1>3 DEF Table
  <1>6. Table' = Table \cup {<<t[2], t[1]>>}
    <2>1. PICK l : /\ l.port = u.name.port /\ l.pool = r.id
                   /\ listeners' = listeners \cup {l}
      BY <1>1
    <2>2. Table' = Table \cup {<<l.port, l.pool>>}
      BY <2>1 DEF Table
    <2> QED
      BY <1>2, <2>1, <2>2
  <1>7. Targets' = Targets
    BY DEF Targets, createLoadBalancerListener
  <1> QED
    BY <1>4, <1>5, <1>6, <1>7 DEF Routes!Open, Targets, Table

\* A listener that is deleted closes its port and no other.
LEMMA OldRoute ==
    ASSUME RoutesInv, NEW w \in Worker, NEW u, Allowed(w, u),
           deleteLoadBalancerListener(w, u)
    PROVE  Routes!Close
  <1>1. u.listener \in listeners /\ listeners' = listeners \ {u.listener} /\ pools' = pools
    BY DEF Allowed, deleteLoadBalancerListener
  <1> DEFINE r == <<u.listener.port, u.listener.pool>>
  <1>2. r \in Table
    BY <1>1 DEF Table
  <1>3. \A l \in listeners : l.port = u.listener.port => l = u.listener
    BY <1>1 DEF RoutesInv, UniquePorts
  <1>4. Table' = Table \ {r}
    BY <1>1, <1>3 DEF Table
  <1>5. Targets' = Targets
    BY <1>1 DEF Targets
  <1> QED
    BY <1>2, <1>4, <1>5 DEF Routes!Close, Targets, Table

\* Every update of a plan is a step of PortRoutes or none.
LEMMA PerformRoutes ==
    ASSUME TypeOK, PortInv, RoutesInv, NEW w \in Worker, NEW u \in wk[w].plan,
           Allowed(w, u), Perform(w, u)
    PROVE  [Routes!Next]_(Routes!vars)
  <1>1. \A p \in pools : p \in VpcLoadBalancerPool
    BY DEF TypeOK
  <1>2. ASSUME NEW f, \A p \in pools : f[p].id = p.id /\ f[p].name.port = p.name.port,
               pools' = {f[p] : p \in pools}, listeners' = listeners
        PROVE  [Routes!Next]_(Routes!vars)
    <2>1. Targets' = Targets
      BY <1>2, SameTargets
    <2> QED
      BY <1>2, <2>1 DEF Routes!vars, Targets
  <1>3. CASE createLoadBalancerListener(w, u)
    BY <1>3, NewRoute DEF Routes!Next
  <1>4. CASE createLoadBalancerPool(w, u)
    <2> DEFINE new == [id |-> CHOOSE i \in FreshIds : TRUE, name |-> u.name,
                       hm |-> genLoadBalancerHealthMonitor(u.name.nodePort,
                                 getServiceHealthCheckNodePort(wk[w].svc)),
                       proxy |-> "disabled",
                       members |-> genLoadBalancerMembers(u.name.nodePort,
                                      NodeList(wk[w].svc, wk[w].nodes))]
    <2>1. new.id \in FreshIds /\ pools' = pools \cup {new} /\ listeners' = listeners
      BY <1>4 DEF createLoadBalancerPool
    <2>2. pools' \subseteq VpcLoadBalancerPool
      BY PerformType
    <2> HIDE DEF new
    <2> QED
      BY <2>1, <2>2, NewTarget DEF Routes!Next
  <1>5. CASE createLoadBalancerPoolMember(w, u)
    <2> DEFINE f == [p \in pools |-> IF p.id = u.pool
                                    THEN [p EXCEPT !.members = @ \cup {u.member}] ELSE p]
    <2>1. \A p \in pools : f[p].id = p.id /\ f[p].name.port = p.name.port
      BY <1>1 DEF VpcLoadBalancerPool
    <2>2. pools' = {f[p] : p \in pools} /\ listeners' = listeners
      BY <1>5 DEF createLoadBalancerPoolMember
    <2> HIDE DEF f
    <2> QED
      BY <1>2, <2>1, <2>2
  <1>6. CASE deleteLoadBalancerPoolMember(w, u)
    <2> DEFINE f == [p \in pools |-> IF p.id = u.pool
                                    THEN [p EXCEPT !.members = @ \ {u.member}] ELSE p]
    <2>1. \A p \in pools : f[p].id = p.id /\ f[p].name.port = p.name.port
      BY <1>1 DEF VpcLoadBalancerPool
    <2>2. pools' = {f[p] : p \in pools} /\ listeners' = listeners
      BY <1>6 DEF deleteLoadBalancerPoolMember
    <2> HIDE DEF f
    <2> QED
      BY <1>2, <2>1, <2>2
  <1>7. CASE replaceLoadBalancerPoolMembers(w, u)
    <2> DEFINE m == genLoadBalancerMembers(u.name.nodePort,
                       NodeList(wk[w].svc, wk[w].nodes))
               f == [p \in pools |-> IF p.id = u.pool
                                    THEN [p EXCEPT !.members = m] ELSE p]
    <2> HIDE DEF m
    <2>1. \A p \in pools : f[p].id = p.id /\ f[p].name.port = p.name.port
      BY <1>1 DEF VpcLoadBalancerPool
    <2>2. pools' = {f[p] : p \in pools} /\ listeners' = listeners
      BY <1>7 DEF replaceLoadBalancerPoolMembers, m
    <2> HIDE DEF f
    <2> QED
      BY <1>2, <2>1, <2>2
  <1>8. CASE updateLoadBalancerPool(w, u)
    <2> DEFINE requested == IF wk[w].svc.proxyProtocol THEN "v1" ELSE "disabled"
               differs == \E q \in wk[w].pools : q.id = u.pool /\ q.proxy # requested
               hm == genLoadBalancerHealthMonitor(u.name.nodePort,
                        getServiceHealthCheckNodePort(wk[w].svc))
               f == [p \in pools |-> IF p.id = u.pool
                       THEN [p EXCEPT !.name = u.name, !.hm = hm,
                                      !.proxy = IF differs THEN requested ELSE @]
                       ELSE p]
    <2>1. pools' = {f[p] : p \in pools} /\ listeners' = listeners
      BY <1>8 DEF updateLoadBalancerPool
    <2>2. PICK q \in wk[w].pools : q.id = u.pool /\ q.name.port = u.name.port
      BY <1>8 DEF updateLoadBalancerPool, PortInv, RenamesKeepPort
    <2>3. \A p \in pools : p.id = u.pool => p.name.port = u.name.port
      BY <2>2 DEF PortInv, ViewsAgree
    <2> HIDE DEF requested, differs, hm
    <2>4. \A p \in pools : f[p].id = p.id /\ f[p].name.port = p.name.port
      BY <1>1, <2>3 DEF VpcLoadBalancerPool
    <2> HIDE DEF f
    <2> QED
      BY <1>2, <2>1, <2>4
  <1>9. CASE deleteLoadBalancerListener(w, u)
    BY <1>9, OldRoute DEF Routes!Next
  <1>10. CASE deleteLoadBalancerPool(w, u)
    <2>1. /\ u.cmd = "DELETE-POOL"
          /\ pools' = {p \in pools : p.id # u.pool}
          /\ listeners' = listeners
      BY <1>10 DEF deleteLoadBalancerPool
    <2>2. PICK p \in pools : p.id = u.pool
      BY <2>1 DEF Allowed
    <2>3. \A l \in listeners : l.pool # p.id
      BY <2>1, <2>2 DEF Allowed
    <2>4. pools' = pools \ {p}
      BY <2>1, <2>2 DEF PortInv, UniqueIds
    <2> QED
      BY <2>1, <2>3, <2>4, OldTarget DEF Routes!Next
  <1> QED
    BY <1>3, <1>4, <1>5, <1>6, <1>7, <1>8, <1>9, <1>10 DEF Perform

\* Creating the load balancer makes the first table.
LEMMA CreateRoutes ==
    ASSUME TypeOK, RoutesInv, NEW w \in Worker, ~CreateInvalid(wk[w]),
           lb.status = "none", CreateRequest(w)
    PROVE  Routes!Provision
  <1>1. PICK names \in SUBSET VpcPoolNameFields : \E ids \in [names -> PoolId] :
           /\ Injective(ids)
           /\ \A m, n \in names : m.port = n.port => m = n
           /\ Targets' = {<<ids[n], n.port>> : n \in names}
           /\ listeners' = {[protocol |-> "tcp", port |-> n.port, pool |-> ids[n]] :
                               n \in names}
    BY CreatedRoutes DEF Targets
  <1>2. PICK ids \in [names -> PoolId] :
           /\ Injective(ids)
           /\ \A m, n \in names : m.port = n.port => m = n
           /\ Targets' = {<<ids[n], n.port>> : n \in names}
           /\ listeners' = {[protocol |-> "tcp", port |-> n.port, pool |-> ids[n]] :
                               n \in names}
    BY <1>1
  <1>3. \A n \in names : ids[n] \in PoolId /\ n.port \in ExtPort
    BY <1>2 DEF VpcPoolNameFields
  <1>4. \A m, n \in names : (ids[m] = ids[n] \/ m.port = n.port) => m = n
    BY <1>2 DEF Injective
  <1>5. Targets = {} /\ Table = {}
    BY DEF RoutesInv, NothingLeft, Targets, Table
  <1>6. Targets' \subseteq PoolId \X ExtPort
    BY <1>2, <1>3
  <1>7. \A s, t \in Targets' : (s[1] = t[1] \/ s[2] = t[2]) => s = t
    BY <1>2, <1>4
  <1>8. Table' = {<<t[2], t[1]>> : t \in Targets'}
    <2> DEFINE L(n) == [protocol |-> "tcp", port |-> n.port, pool |-> ids[n]]
               T(n) == <<ids[n], n.port>>
    <2>1. \A n \in names : /\ L(n).port = n.port /\ L(n).pool = ids[n]
                           /\ T(n)[2] = n.port /\ T(n)[1] = ids[n]
      OBVIOUS
    <2>2. listeners' = {L(n) : n \in names} /\ Targets' = {T(n) : n \in names}
      BY <1>2
    <2> HIDE DEF L, T
    <2>3. Table' = {<<n.port, ids[n]>> : n \in names}
      BY <2>1, <2>2 DEF Table
    <2>4. {<<t[2], t[1]>> : t \in Targets'} = {<<n.port, ids[n]>> : n \in names}
      BY <2>1, <2>2
    <2> QED
      BY <2>3, <2>4
  <1> QED
    BY <1>5, <1>6, <1>7, <1>8 DEF Routes!Provision, Targets, Table

\* The listeners and pools change only as PortRoutes allows, whatever the two
\* callers of UpdateLoadBalancer have seen of each other's work and wherever
\* their passes fail: for any services, nodes, ports and number of pools.
THEOREM RoutesRefined == Spec => RoutesImplemented
  <1>1. Init => RoutesInv /\ Routes!Init
    BY DEF Init, RoutesInv, NothingLeft, UniquePorts, Routes!Init
  <1>2. TypeOK /\ PortInv /\ RoutesInv /\ [Next]_vars => [Routes!Next]_(Routes!vars)
    <2> SUFFICES ASSUME TypeOK, PortInv, RoutesInv, [Next]_vars
                 PROVE  [Routes!Next]_(Routes!vars)
      OBVIOUS
    <2>1. CASE listeners' = listeners /\ pools' = pools
      BY <2>1 DEF Routes!vars
    <2>2. CASE \E w \in Worker : \E u \in wk[w].plan : Allowed(w, u) /\ Perform(w, u)
      BY <2>2, PerformRoutes
    <2>3. CASE \E w \in Worker :
                  ~CreateInvalid(wk[w]) /\ lb.status = "none" /\ CreateRequest(w)
      BY <2>3, CreateRoutes DEF Routes!Next
    <2>4. CASE CloudDeleted
      BY <2>4 DEF CloudDeleted, Routes!Next, Routes!Clear
    <2>5. CASE AddForeignPool
      <3>1. PICK e \in ExtPort, n \in NodePort : pools' = pools \cup
              {[id |-> CHOOSE i \in FreshIds : TRUE,
                name |-> [protocol |-> "other", port |-> e, nodePort |-> n],
                hm |-> [type |-> "tcp", port |-> n], proxy |-> "disabled",
                members |-> {}]}
        BY <2>5 DEF AddForeignPool
      <3> DEFINE p == [id |-> CHOOSE i \in FreshIds : TRUE,
                       name |-> [protocol |-> "other", port |-> e, nodePort |-> n],
                       hm |-> [type |-> "tcp", port |-> n], proxy |-> "disabled",
                       members |-> {}]
      <3>2. p.id \in FreshIds /\ listeners' = listeners
        BY <2>5 DEF AddForeignPool
      <3>3. p.id \in PoolId
        BY <3>2 DEF FreshIds
      <3>4. p \in VpcLoadBalancerPool
        BY <3>3 DEF VpcLoadBalancerPool, VpcPoolNameFields, HealthMonitor
      <3> HIDE DEF p
      <3> QED
        BY <3>1, <3>2, <3>4, NewTarget DEF Routes!Next, p
    <2>6. CASE RemoveForeignPool
      BY <2>6, OldTarget DEF RemoveForeignPool, Routes!Next
    <2> QED
      BY <2>1, <2>2, <2>3, <2>4, <2>5, <2>6, CloudEffect
  <1>3. TypeOK /\ RoutesInv /\ [Next]_vars => RoutesInv'
    BY RoutesInvStep
  <1> QED
    BY <1>1, <1>2, <1>3, TypeCorrect, PortCorrect, PTL DEF Spec, RoutesImplemented,
       Routes!Spec

=============================================================================
