--------------------------- MODULE VpcSerialProofs ---------------------------
(***************************************************************************)
(* What the provider guarantees when one call at a time is inside it       *)
(* (Overlap = FALSE), also after passes that stopped half way, for every   *)
(* value of the constants: the plans of UpdateLoadBalancer never meet a    *)
(* rule of the VPC and never give an external port a second pool; a call   *)
(* that succeeds has left what its service and nodes ask for; and when the *)
(* controller has nothing left to do the VPC holds what is wanted.         *)
(***************************************************************************)
EXTENDS VpcLoadBalancerProofs

-----------------------------------------------------------------------------
(* What a call relies on while it executes its plan.  svc and nodeList are *)
(* what the call wants, ls and ps the listeners and pools of the VPC.      *)

\* The pools of ps that this provider can have made.
Own(ps) == {p \in ps : Parses(p.name)}

\* The service has this external port.
HasPort(svc, port) == \E kp \in svc.ports : kp.port = port

\* The commands on an existing pool, and those of them that set its members.
SetsMembers == MemberCmd \cup {"REPLACE-POOL-MEMBERS"}
PoolCmd == SetsMembers \cup {"DELETE-POOL", "UPDATE-POOL"}

\* The commands that name a pool as the service wants it.
NameCmd == {"CREATE-POOL", "CREATE-LISTENER", "UPDATE-POOL"}

\* Listeners go before pools, and pools are made before their listeners.
InOrder(plan) ==
    \A u \in plan :
        /\ u.cmd = "DELETE-LISTENER" => u.at[1] = 1
        /\ u.cmd = "DELETE-POOL" => u.at[1] = 2
        /\ u.cmd = "UPDATE-POOL" => u.at[1] = 4
        /\ u.cmd = "CREATE-POOL" => u.at = <<6, u.name.port, 0>>
        /\ u.cmd = "CREATE-LISTENER" => u.at = <<6, u.name.port, 1>>

\* No two updates do the same.
Distinct(plan) ==
    \A u, v \in plan :
        (/\ u.cmd = v.cmd
         /\ \/ u.cmd = "DELETE-LISTENER" /\ u.listener = v.listener
            \/ u.cmd = "DELETE-POOL" /\ u.pool = v.pool
            \/ u.cmd \in {"CREATE-POOL", "CREATE-LISTENER"} /\ u.name.port = v.name.port)
        => u = v

\* Pools get the names the service wants.
NamesWanted(svc, plan) ==
    \A u \in plan : u.cmd \in NameCmd => u.name \in getServicePoolNames(svc)

\* A listener to delete is there.
ListenersThere(plan, ls) ==
    \A u \in plan : u.cmd = "DELETE-LISTENER" => u.listener \in ls

\* The port of a listener to create is free, and its pool is there or comes
\* first.
ListenersNext(plan, ls, ps) ==
    \A u \in plan : u.cmd = "CREATE-LISTENER" =>
        /\ \A l \in ls : l.port # u.name.port
        /\ \/ \E p \in ps : p.name = u.name
           \/ \E v \in plan : v.cmd \in {"CREATE-POOL", "UPDATE-POOL"} /\ v.name = u.name

\* A pool to create is the first of its port.
PoolsNext(plan, ps) ==
    \A u \in plan : u.cmd = "CREATE-POOL" => \A p \in Own(ps) : p.name.port # u.name.port

\* A pool to change is there; it is to be deleted when the service does not
\* have its port.
PoolsThere(svc, plan, ps) ==
    \A u \in plan : u.cmd \in PoolCmd =>
        \E p \in Own(ps) : /\ p.id = u.pool
                           /\ u.cmd = "DELETE-POOL" <=> ~HasPort(svc, p.name.port)

\* A pool to rename keeps its port.
PoolsKept(plan, ps) ==
    \A u \in plan : u.cmd = "UPDATE-POOL" =>
        \A p \in ps : p.id = u.pool => p.name.port = u.name.port

\* The listeners of a pool to delete are deleted first.
PoolsFreed(plan, ls) ==
    \A u \in plan : u.cmd = "DELETE-POOL" =>
        \A l \in ls : l.pool = u.pool =>
            \E v \in plan : v.cmd = "DELETE-LISTENER" /\ v.listener = l

\* A member to add or remove is the only change of the pool's members, and
\* one to remove is not the last.
MembersNext(nodeList, plan, ps) ==
    \A u \in plan : u.cmd \in MemberCmd =>
        /\ \A v \in plan : v.cmd \in SetsMembers /\ v.pool = u.pool => v = u
        /\ \A p \in ps : p.id = u.pool =>
              IF u.cmd = "CREATE-POOL-MEMBER"
              THEN u.member \notin p.members
              ELSE u.member \in p.members /\ (nodeList # {} => p.members # {u.member})

PlanGood(svc, nodeList, plan, ls, ps) ==
    /\ InOrder(plan)
    /\ Distinct(plan)
    /\ NamesWanted(svc, plan)
    /\ ListenersThere(plan, ls)
    /\ ListenersNext(plan, ls, ps)
    /\ PoolsNext(plan, ps)
    /\ PoolsThere(svc, plan, ps)
    /\ PoolsKept(plan, ps)
    /\ PoolsFreed(plan, ls)
    /\ MembersNext(nodeList, plan, ps)

-----------------------------------------------------------------------------
(* The invariant *)

Working == {"listeners", "pools", "exec", "get", "wait"}
Executing == {"exec", "get", "wait"}

\* The load balancer b is not being made or deleted.
Live(b) == b.status \in {"active", "update_pending", "maintenance_pending"}

\* A call at work has an existing load balancer and a valid service; what it
\* has read is still true of this provider's pools.
CallGood(c, b, ls, ps) ==
    c.pc \in Working =>
        /\ b.id = c.lb /\ Live(b)
        /\ validateService(c.svc)
        /\ FilterNodes(c.svc, c.nodes) # {}
        /\ c.pc \in {"listeners", "pools", "exec"} =>
              \A p \in Own(ps) : \E r \in c.refs : r.id = p.id /\ r.name = p.name
        /\ c.pc = "pools" => c.listeners = ls
        /\ c.pc \in Executing =>
              PlanGood(c.svc, NodeList(c.svc, c.nodes), c.plan, ls, ps)

\* Every pool and listener of this provider is for TCP, and an external port
\* has one pool.
CloudGood(ls, ps) ==
    /\ \A p \in Own(ps) : p.name.protocol = "tcp"
    /\ \A l \in ls : l.protocol = "tcp"
    /\ \A p, q \in Own(ps) : p.name.port = q.name.port => p = q

OneCall == \A v, w \in Worker : ~Idle(v) /\ ~Idle(w) => v = w

SerialInv ==
    /\ OneCall
    /\ CloudGood(listeners, pools)
    /\ \A w \in Worker : CallGood(wk[w], lb, listeners, pools)
    /\ RulesRespected

-----------------------------------------------------------------------------
(* The planner makes good plans *)

\* The names a valid service wants: TCP, of its ports, and one per port.
LEMMA WantedNames ==
    ASSUME NEW svc \in Services, validateService(svc)
    PROVE  /\ \A n \in getServicePoolNames(svc) :
                 /\ n \in VpcPoolNameFields /\ n.protocol = "tcp" /\ Parses(n)
                 /\ HasPort(svc, n.port)
           /\ \A m, n \in getServicePoolNames(svc) : m.port = n.port => m = n
  <1>1. ASSUME NEW n \in getServicePoolNames(svc)
        PROVE  /\ n \in VpcPoolNameFields /\ n.protocol = "tcp" /\ Parses(n)
               /\ HasPort(svc, n.port)
    <2>1. PICK kp \in svc.ports : n = genLoadBalancerPoolName(kp)
      BY DEF getServicePoolNames
    <2>2. n \in VpcPoolNameFields /\ n.port = kp.port
      BY <2>1, ServiceFields, PoolNameType
    <2>3. n.protocol = "tcp"
      BY <2>1 DEF validateService, genLoadBalancerPoolName, Lower
    <2> QED
      BY <2>2, <2>3 DEF Parses, HasPort
  <1> QED
    BY <1>1, OneNamePerPort

\* A pool name is its three fields.
LEMMA NameFields ==
    ASSUME NEW m \in VpcPoolNameFields, NEW n \in VpcPoolNameFields,
           m.protocol = n.protocol, m.port = n.port, m.nodePort = n.nodePort
    PROVE  m = n
  <1>1. m = [protocol |-> m.protocol, port |-> m.port, nodePort |-> m.nodePort]
    BY DEF VpcPoolNameFields
  <1>2. n = [protocol |-> n.protocol, port |-> n.port, nodePort |-> n.nodePort]
    BY DEF VpcPoolNameFields
  <1> QED
    BY <1>1, <1>2

\* A port of a valid service equals a TCP listener or pool of its number, and
\* the name made of it is wanted.
LEMMA PortOfName ==
    ASSUME NEW svc \in Services, validateService(svc), NEW kp \in svc.ports
    PROVE  /\ genLoadBalancerPoolName(kp) \in getServicePoolNames(svc)
           /\ genLoadBalancerPoolName(kp).port = kp.port
           /\ genLoadBalancerPoolName(kp).nodePort = kp.nodePort
           /\ genLoadBalancerPoolName(kp).protocol = "tcp"
           /\ \A x : x.protocol = "tcp" =>
                 /\ isServicePortEqualPoolName(kp, x) <=> x.port = kp.port
                 /\ isServicePortEqualListener(kp, x) <=> x.port = kp.port
  <1>1. kp.protocol = "TCP" /\ Lower(kp.protocol) = "tcp"
    BY DEF validateService, Lower
  <1>2. genLoadBalancerPoolName(kp) \in getServicePoolNames(svc)
    BY DEF getServicePoolNames
  <1>3. /\ genLoadBalancerPoolName(kp).port = kp.port
        /\ genLoadBalancerPoolName(kp).nodePort = kp.nodePort
        /\ genLoadBalancerPoolName(kp).protocol = "tcp"
    BY <1>1 DEF genLoadBalancerPoolName
  <1>4. \A x : x.protocol = "tcp" =>
           /\ isServicePortEqualPoolName(kp, x) <=> x.port = kp.port
           /\ isServicePortEqualListener(kp, x) <=> x.port = kp.port
    BY <1>1 DEF isServicePortEqualPoolName, isServicePortEqualListener
  <1> QED
    BY <1>2, <1>3, <1>4

\* The eight kinds of updates of steps 1 to 7, for a valid service and pools
\* and listeners of this provider.
DeletesListener(svc, u, l) ==
    /\ ~HasPort(svc, l.port)
    /\ u = [at |-> <<1, l.port, 0>>, cmd |-> "DELETE-LISTENER", listener |-> l]

DeletesPool(svc, u, p) ==
    /\ ~HasPort(svc, p.name.port)
    /\ u = [at |-> <<2, p.id, 0>>, cmd |-> "DELETE-POOL", name |-> p.name, pool |-> p.id]

DeletesMember(svc, nodeList, u, p) ==
    /\ p.name \in getServicePoolNames(svc)
    /\ \E m \in p.members :
          /\ m.target \notin nodeList \/ m.port # p.name.nodePort
          /\ u = [at |-> <<3, p.id, 0>>, cmd |-> "DELETE-POOL-MEMBER",
                  name |-> p.name, pool |-> p.id, member |-> m]

UpdatesPool(svc, u, p) ==
    \E kp \in svc.ports :
        /\ kp.port = p.name.port
        /\ NeedsUpdate(p, kp, svc)
        /\ u = [at |-> <<4, p.id, 1>>, cmd |-> "UPDATE-POOL",
                name |-> genLoadBalancerPoolName(kp), pool |-> p.id]

ReplacesMembers(svc, u, p) ==
    \E kp \in svc.ports :
        /\ kp.port = p.name.port
        /\ genLoadBalancerPoolName(kp) # p.name
        /\ u = [at |-> <<4, p.id, 2>>, cmd |-> "REPLACE-POOL-MEMBERS",
                name |-> genLoadBalancerPoolName(kp), pool |-> p.id]

CreatesMember(svc, nodeList, u, p) ==
    /\ p.name \in getServicePoolNames(svc)
    /\ \E m \in genLoadBalancerMembers(p.name.nodePort, nodeList) \ p.members :
          u = [at |-> <<5, p.id, 0>>, cmd |-> "CREATE-POOL-MEMBER",
               name |-> p.name, pool |-> p.id, member |-> m]

CreatesPool(svc, u, ps) ==
    \E kp \in svc.ports :
        /\ \A p \in ps : p.name.port # kp.port
        /\ u = [at |-> <<6, kp.port, 0>>, cmd |-> "CREATE-POOL",
                name |-> genLoadBalancerPoolName(kp)]

CreatesListener(svc, u, ls) ==
    \E kp \in svc.ports :
        /\ \A l \in ls : l.port # kp.port
        /\ u = [at |-> <<6, kp.port, 1>>, cmd |-> "CREATE-LISTENER",
                name |-> genLoadBalancerPoolName(kp)]

\* What the planner is given: only pools and listeners of this provider,
\* with a pool of its own for each port.
Given(svc, nodeList, ls, ps) ==
    /\ svc \in Services /\ validateService(svc)
    /\ nodeList \subseteq Node
    /\ ls \subseteq VpcLoadBalancerListener /\ ps \subseteq VpcLoadBalancerPool
    /\ \A l \in ls : l.protocol = "tcp"
    /\ \A p \in ps : p.name.protocol = "tcp"
    /\ \A p, q \in ps : p.id = q.id \/ p.name.port = q.name.port => p = q
    /\ \A l \in ls : \E p \in ps : p.id = l.pool /\ p.name.port = l.port

\* A pool is kept exactly when the service has its port, and its node port is
\* the wanted one exactly when its name is.
LEMMA KeptPools ==
    ASSUME NEW svc, NEW nodeList, NEW ls, NEW ps, Given(svc, nodeList, ls, ps),
           NEW p \in ps
    PROVE  /\ p \in Kept(svc, ps) <=> HasPort(svc, p.name.port)
           /\ HasPort(svc, p.name.port) =>
                 (NodePortChanged(p, svc.ports) <=> p.name \notin getServicePoolNames(svc))
  <1>1. /\ svc \in Services /\ validateService(svc) /\ p.name.protocol = "tcp"
        /\ p.name \in VpcPoolNameFields
    BY PoolFields DEF Given
  <1>2. \A kp \in svc.ports : isServicePortEqualPoolName(kp, p.name) <=> p.name.port = kp.port
    BY <1>1, PortOfName
  <1>3. p \in Kept(svc, ps) <=> HasPort(svc, p.name.port)
    BY <1>2 DEF Kept, checkPoolForExtPortDeletedFromService, HasPort
  <1>4. ASSUME HasPort(svc, p.name.port)
        PROVE  NodePortChanged(p, svc.ports) <=> p.name \notin getServicePoolNames(svc)
    <2>1. PICK kp \in svc.ports : kp.port = p.name.port
      BY <1>4 DEF HasPort
    <2> DEFINE n == genLoadBalancerPoolName(kp)
    <2>2. /\ n \in getServicePoolNames(svc) /\ n \in VpcPoolNameFields
          /\ n.port = p.name.port /\ n.nodePort = kp.nodePort /\ n.protocol = p.name.protocol
      BY <1>1, <2>1, PortOfName, WantedNames
    <2> HIDE DEF n
    <2>3. \A k \in svc.ports : k.port = kp.port => k = kp
      BY <1>1, ServiceAssumption DEF validateService
    <2>4. NodePortChanged(p, svc.ports) <=> p.name.nodePort # kp.nodePort
      BY <1>2, <2>1, <2>3 DEF NodePortChanged
    <2>5. p.name \in getServicePoolNames(svc) <=> p.name = n
      BY <1>1, <2>2, WantedNames
    <2>6. p.name = n <=> p.name.nodePort = n.nodePort
      BY <1>1, <2>2, NameFields
    <2> QED
      BY <2>2, <2>4, <2>5, <2>6
  <1> QED
    BY <1>3, <1>4

\* The updates of steps 1 to 7, both ways.
LEMMA UpdatesOf ==
    ASSUME NEW svc, NEW nodeList, NEW ls, NEW ps, Given(svc, nodeList, ls, ps), NEW u
    PROVE  u \in UpdatesRequired(svc, nodeList, ls, ps) <=>
              \/ \E l \in ls : DeletesListener(svc, u, l)
              \/ \E p \in ps : DeletesPool(svc, u, p)
              \/ \E p \in ps : DeletesMember(svc, nodeList, u, p)
              \/ \E p \in ps : UpdatesPool(svc, u, p)
              \/ \E p \in ps : ReplacesMembers(svc, u, p)
              \/ \E p \in ps : CreatesMember(svc, nodeList, u, p)
              \/ CreatesPool(svc, u, ps)
              \/ CreatesListener(svc, u, ls)
  <1> DEFINE kept == Kept(svc, ps)
             A(l) == checkListenerForExtPortDeletedFromService(l, svc.ports)
             B(p) == checkPoolForExtPortDeletedFromService(p, svc.ports)
             C(p) == checkPoolForNodesToDelete(p, svc.ports, nodeList)
             D(p) == checkPoolForServiceChanges(p, svc)
             E(p) == checkPoolForNodesToAdd(p, svc.ports, nodeList)
             F(kp) == checkPoolsForExtPortAddedToService(kept, kp)
             G(kp) == checkListenersForExtPortAddedToService(ls, kp)
  <1>1. /\ svc \in Services /\ validateService(svc)
        /\ \A l \in ls : l.protocol = "tcp"
        /\ \A p \in ps : p.name.protocol = "tcp"
    BY DEF Given
  <1>2. \A kp \in svc.ports :
           /\ \A p \in ps : isServicePortEqualPoolName(kp, p.name) <=> p.name.port = kp.port
           /\ \A l \in ls : isServicePortEqualListener(kp, l) <=> l.port = kp.port
    BY <1>1, PortOfName
  <1>3. /\ kept \subseteq ps
        /\ \A p \in ps : p \in kept <=> HasPort(svc, p.name.port)
        /\ \A p \in kept :
              NodePortChanged(p, svc.ports) <=> p.name \notin getServicePoolNames(svc)
        /\ \A p \in ps : p.name \in getServicePoolNames(svc) => HasPort(svc, p.name.port)
    BY <1>1, KeptPools, WantedNames DEF Kept
  <1>4. u \in UpdatesRequired(svc, nodeList, ls, ps) <=>
           \/ \E l \in ls : u \in A(l)
           \/ \E p \in ps : u \in B(p)
           \/ \E p \in kept : u \in C(p)
           \/ \E p \in kept : u \in D(p)
           \/ \E p \in kept : u \in E(p)
           \/ \E kp \in svc.ports : u \in F(kp)
           \/ \E kp \in svc.ports : u \in G(kp)
    <2>1. UpdatesRequired(svc, nodeList, ls, ps)
             = (UNION {A(l) : l \in ls}) \cup (UNION {B(p) : p \in ps})
               \cup (UNION {C(p) : p \in kept}) \cup (UNION {D(p) : p \in kept})
               \cup (UNION {E(p) : p \in kept}) \cup (UNION {F(kp) : kp \in svc.ports})
               \cup (UNION {G(kp) : kp \in svc.ports})
      BY DEF UpdatesRequired
    <2> HIDE DEF kept, A, B, C, D, E, F, G
    <2> QED
      BY <2>1, Zenon
  <1> HIDE DEF kept
  <1>5. ASSUME NEW l \in ls
        PROVE  u \in A(l) <=> DeletesListener(svc, u, l)
    BY <1>2 DEF checkListenerForExtPortDeletedFromService, DeletesListener, HasPort
  <1>6. ASSUME NEW p \in ps
        PROVE  u \in B(p) <=> DeletesPool(svc, u, p)
    BY <1>2 DEF checkPoolForExtPortDeletedFromService, DeletesPool, HasPort
  <1>7. (\E p \in kept : u \in C(p)) <=> \E p \in ps : DeletesMember(svc, nodeList, u, p)
    BY <1>3 DEF checkPoolForNodesToDelete, DeletesMember
  <1>8. (\E p \in kept : u \in D(p)) <=>
           \E p \in ps : UpdatesPool(svc, u, p) \/ ReplacesMembers(svc, u, p)
    <2>1. ASSUME NEW p \in ps
          PROVE  u \in D(p) <=> UpdatesPool(svc, u, p) \/ ReplacesMembers(svc, u, p)
      BY <1>2, <2>1 DEF checkPoolForServiceChanges, UpdatesPool, ReplacesMembers
    <2>2. \A p \in ps : UpdatesPool(svc, u, p) \/ ReplacesMembers(svc, u, p)
                           => HasPort(svc, p.name.port)
      BY DEF UpdatesPool, ReplacesMembers, HasPort
    <2> HIDE DEF D
    <2> QED
      BY <1>3, <2>1, <2>2
  <1>9. (\E p \in kept : u \in E(p)) <=> \E p \in ps : CreatesMember(svc, nodeList, u, p)
    BY <1>3 DEF checkPoolForNodesToAdd, CreatesMember
  <1>10. (\E kp \in svc.ports : u \in F(kp)) <=> CreatesPool(svc, u, ps)
    <2>1. \A kp \in svc.ports :
             (\E p \in kept : isServicePortEqualPoolName(kp, p.name))
                <=> (\E p \in ps : p.name.port = kp.port)
      BY <1>2, <1>3 DEF HasPort
    <2> QED
      BY <2>1 DEF checkPoolsForExtPortAddedToService, CreatesPool
  <1>11. (\E kp \in svc.ports : u \in G(kp)) <=> CreatesListener(svc, u, ls)
    BY <1>2 DEF checkListenersForExtPortAddedToService, CreatesListener
  <1> HIDE DEF A, B, C, D, E, F, G
  <1> QED
    BY <1>4, <1>5, <1>6, <1>7, <1>8, <1>9, <1>10, <1>11, Zenon

\* Step 8 leaves single member updates and all other updates alone; a
\* replacement it makes stands for several member updates.
LEMMA StepEight ==
    ASSUME NEW us, NEW u
    PROVE  LET plan == checkForMultiplePoolMemberUpdates(us)
           IN  /\ u \in us /\ u.cmd \notin MemberCmd => u \in plan
               /\ u \in plan /\ u.cmd \notin SetsMembers => u \in us
               /\ u \in plan /\ u.cmd \in MemberCmd =>
                     /\ u \in us
                     /\ \A v \in us : v.cmd \in MemberCmd /\ v.name = u.name => v = u
               /\ u \in plan /\ u.cmd = "REPLACE-POOL-MEMBERS" =>
                     \/ u \in us
                     \/ \E m, v \in us :
                           /\ m.cmd \in MemberCmd /\ v.cmd \in MemberCmd /\ v # m
                           /\ v.name = m.name /\ u.name = m.name /\ u.pool = m.pool
  <1> DEFINE memberUpdates == {x \in us : x.cmd \in MemberCmd}
             multiple == {x \in memberUpdates :
                             \E v \in memberUpdates : v # x /\ v.name = x.name}
             first == {x \in multiple :
                          \A v \in multiple : v.name = x.name => ~Before(v.at, x.at)}
             plan == checkForMultiplePoolMemberUpdates(us)
             R(x) == [at |-> x.at, cmd |-> "REPLACE-POOL-MEMBERS",
                      name |-> x.name, pool |-> x.pool]
  <1>1. plan = (us \ multiple) \cup {R(x) : x \in first}
    BY DEF checkForMultiplePoolMemberUpdates
  <1>2. \A x : R(x).cmd = "REPLACE-POOL-MEMBERS" /\ R(x).name = x.name /\ R(x).pool = x.pool
    OBVIOUS
  <1>3. /\ "REPLACE-POOL-MEMBERS" \notin MemberCmd /\ "REPLACE-POOL-MEMBERS" \in SetsMembers
        /\ MemberCmd \subseteq SetsMembers
    BY DEF MemberCmd, SetsMembers
  <1>4. multiple \subseteq us /\ \A x \in multiple : x.cmd \in MemberCmd
    OBVIOUS
  <1>5. \A x \in us \ multiple : x.cmd \in MemberCmd =>
           \A v \in us : v.cmd \in MemberCmd /\ v.name = x.name => v = x
    OBVIOUS
  <1>6. \A x \in first : /\ x \in us /\ x.cmd \in MemberCmd
                         /\ \E v \in us : v.cmd \in MemberCmd /\ v # x /\ v.name = x.name
    OBVIOUS
  <1> HIDE DEF multiple, first, R, plan
  <1>7. u \in us /\ u.cmd \notin MemberCmd => u \in plan
    BY <1>1, <1>4
  <1>8. u \in plan /\ u.cmd \notin SetsMembers => u \in us
    BY <1>1, <1>2, <1>3
  <1>9. u \in plan /\ u.cmd \in MemberCmd =>
           /\ u \in us
           /\ \A v \in us : v.cmd \in MemberCmd /\ v.name = u.name => v = u
    BY <1>1, <1>2, <1>3, <1>5
  <1>10. u \in plan /\ u.cmd = "REPLACE-POOL-MEMBERS" =>
           \/ u \in us
           \/ \E m, v \in us :
                 /\ m.cmd \in MemberCmd /\ v.cmd \in MemberCmd /\ v # m
                 /\ v.name = m.name /\ u.name = m.name /\ u.pool = m.pool
    BY <1>1, <1>2, <1>6
  <1> QED
    BY <1>7, <1>8, <1>9, <1>10 DEF plan

\* What each command of a plan stands for.
LEMMA PlanOf ==
    ASSUME NEW svc, NEW nodeList, NEW ls, NEW ps, Given(svc, nodeList, ls, ps),
           NEW u \in UpdatesRequired(svc, nodeList, ls, ps)
    PROVE  /\ u.cmd = "DELETE-LISTENER" => \E l \in ls : DeletesListener(svc, u, l)
           /\ u.cmd = "DELETE-POOL" => \E p \in ps : DeletesPool(svc, u, p)
           /\ u.cmd = "DELETE-POOL-MEMBER" =>
                 \E p \in ps : DeletesMember(svc, nodeList, u, p)
           /\ u.cmd = "UPDATE-POOL" => \E p \in ps : UpdatesPool(svc, u, p)
           /\ u.cmd = "REPLACE-POOL-MEMBERS" => \E p \in ps : ReplacesMembers(svc, u, p)
           /\ u.cmd = "CREATE-POOL-MEMBER" =>
                 \E p \in ps : CreatesMember(svc, nodeList, u, p)
           /\ u.cmd = "CREATE-POOL" => CreatesPool(svc, u, ps)
           /\ u.cmd = "CREATE-LISTENER" => CreatesListener(svc, u, ls)
           /\ u.cmd \in MemberCmd =>
                 \E p \in ps : /\ p.name \in getServicePoolNames(svc)
                               /\ u.name = p.name /\ u.pool = p.id
  <1>1. /\ \A l : DeletesListener(svc, u, l) => u.cmd = "DELETE-LISTENER"
        /\ \A p : DeletesPool(svc, u, p) => u.cmd = "DELETE-POOL"
        /\ \A p : UpdatesPool(svc, u, p) => u.cmd = "UPDATE-POOL"
        /\ \A p : ReplacesMembers(svc, u, p) => u.cmd = "REPLACE-POOL-MEMBERS"
        /\ CreatesPool(svc, u, ps) => u.cmd = "CREATE-POOL"
        /\ CreatesListener(svc, u, ls) => u.cmd = "CREATE-LISTENER"
    BY DEF DeletesListener, DeletesPool, UpdatesPool, ReplacesMembers, CreatesPool,
       CreatesListener
  <1>2. \A p : DeletesMember(svc, nodeList, u, p) =>
           /\ u.cmd = "DELETE-POOL-MEMBER" /\ p.name \in getServicePoolNames(svc)
           /\ u.name = p.name /\ u.pool = p.id
    BY DEF DeletesMember
  <1>3. \A p : CreatesMember(svc, nodeList, u, p) =>
           /\ u.cmd = "CREATE-POOL-MEMBER" /\ p.name \in getServicePoolNames(svc)
           /\ u.name = p.name /\ u.pool = p.id
    BY DEF CreatesMember
  <1>4. \/ \E l \in ls : DeletesListener(svc, u, l)
        \/ \E p \in ps : DeletesPool(svc, u, p)
        \/ \E p \in ps : DeletesMember(svc, nodeList, u, p)
        \/ \E p \in ps : UpdatesPool(svc, u, p)
        \/ \E p \in ps : ReplacesMembers(svc, u, p)
        \/ \E p \in ps : CreatesMember(svc, nodeList, u, p)
        \/ CreatesPool(svc, u, ps)
        \/ CreatesListener(svc, u, ls)
    BY UpdatesOf
  <1> QED
    BY <1>1, <1>2, <1>3, <1>4 DEF MemberCmd

\* A plan made from what the VPC holds can be performed in its order.
LEMMA PlanIsGood ==
    ASSUME NEW svc, NEW nodeList, NEW ls, NEW ps, Given(svc, nodeList, ls, ps)
    PROVE  PlanGood(svc, nodeList, Plan(svc, nodeList, ls, ps), ls, ps)
  <1> DEFINE us == UpdatesRequired(svc, nodeList, ls, ps)
             plan == Plan(svc, nodeList, ls, ps)
             names == getServicePoolNames(svc)
  <1>1. /\ svc \in Services /\ validateService(svc)
        /\ \A p \in ps : p.name.protocol = "tcp"
        /\ \A l \in ls : l.protocol = "tcp"
        /\ \A p, q \in ps : p.id = q.id \/ p.name.port = q.name.port => p = q
        /\ \A l \in ls : \E p \in ps : p.id = l.pool /\ p.name.port = l.port
    BY DEF Given
  <1>2. /\ \A n \in names : HasPort(svc, n.port)
        /\ \A m, n \in names : m.port = n.port => m = n
    BY <1>1, WantedNames
  <1>3. \A kp \in svc.ports : /\ genLoadBalancerPoolName(kp) \in names
                              /\ genLoadBalancerPoolName(kp).port = kp.port
    BY <1>1, PortOfName
  <1>4. \A j, k \in svc.ports : j.port = k.port => j = k
    BY <1>1, ServiceAssumption DEF validateService
  <1>5. Own(ps) = ps
    BY <1>1 DEF Own, Parses
  <1>6. /\ \A u \in us : u.cmd \notin MemberCmd => u \in plan
        /\ \A u \in plan : u.cmd \notin SetsMembers => u \in us
        /\ \A u \in plan : u.cmd \in MemberCmd =>
              /\ u \in us
              /\ \A v \in us : v.cmd \in MemberCmd /\ v.name = u.name => v = u
        /\ \A u \in plan : u.cmd = "REPLACE-POOL-MEMBERS" =>
              \/ u \in us
              \/ \E m, v \in us :
                    /\ m.cmd \in MemberCmd /\ v.cmd \in MemberCmd /\ v # m
                    /\ v.name = m.name /\ u.name = m.name /\ u.pool = m.pool
    BY StepEight DEF Plan
  <1>7. /\ \A u \in us : u.cmd = "DELETE-LISTENER" => \E l \in ls : DeletesListener(svc, u, l)
        /\ \A u \in us : u.cmd = "DELETE-POOL" => \E p \in ps : DeletesPool(svc, u, p)
        /\ \A u \in us : u.cmd = "DELETE-POOL-MEMBER" =>
              \E p \in ps : DeletesMember(svc, nodeList, u, p)
        /\ \A u \in us : u.cmd = "UPDATE-POOL" => \E p \in ps : UpdatesPool(svc, u, p)
        /\ \A u \in us : u.cmd = "REPLACE-POOL-MEMBERS" =>
              \E p \in ps : ReplacesMembers(svc, u, p)
        /\ \A u \in us : u.cmd = "CREATE-POOL-MEMBER" =>
              \E p \in ps : CreatesMember(svc, nodeList, u, p)
        /\ \A u \in us : u.cmd = "CREATE-POOL" => CreatesPool(svc, u, ps)
        /\ \A u \in us : u.cmd = "CREATE-LISTENER" => CreatesListener(svc, u, ls)
        /\ \A u \in us : u.cmd \in MemberCmd =>
              \E p \in ps : p.name \in names /\ u.name = p.name /\ u.pool = p.id
    BY PlanOf
  <1>8. /\ \A u : (\E l \in ls : DeletesListener(svc, u, l)) => u \in us
        /\ \A u : (\E p \in ps : UpdatesPool(svc, u, p)) => u \in us
        /\ \A u : (\E p \in ps : CreatesMember(svc, nodeList, u, p)) => u \in us
        /\ \A u : CreatesPool(svc, u, ps) => u \in us
    BY UpdatesOf
  <1>9. /\ {"DELETE-LISTENER", "DELETE-POOL", "UPDATE-POOL", "CREATE-POOL",
            "CREATE-LISTENER"} \cap SetsMembers = {}
        /\ {"DELETE-LISTENER", "DELETE-POOL", "UPDATE-POOL", "CREATE-POOL",
            "CREATE-LISTENER"} \cap MemberCmd = {}
        /\ MemberCmd = {"CREATE-POOL-MEMBER", "DELETE-POOL-MEMBER"}
        /\ SetsMembers = {"CREATE-POOL-MEMBER", "DELETE-POOL-MEMBER", "REPLACE-POOL-MEMBERS"}
        /\ PoolCmd = {"CREATE-POOL-MEMBER", "DELETE-POOL-MEMBER", "REPLACE-POOL-MEMBERS",
                      "DELETE-POOL", "UPDATE-POOL"}
    BY DEF SetsMembers, MemberCmd, PoolCmd
  <1> HIDE DEF us, plan, names
  <1>10. /\ \A u \in plan : u.cmd = "DELETE-LISTENER" =>
               \E l \in ls : DeletesListener(svc, u, l)
         /\ \A u \in plan : u.cmd = "DELETE-POOL" => \E p \in ps : DeletesPool(svc, u, p)
         /\ \A u \in plan : u.cmd = "UPDATE-POOL" => \E p \in ps : UpdatesPool(svc, u, p)
         /\ \A u \in plan : u.cmd = "CREATE-POOL" => CreatesPool(svc, u, ps)
         /\ \A u \in plan : u.cmd = "CREATE-LISTENER" => CreatesListener(svc, u, ls)
    BY <1>6, <1>7, <1>9
  <1>11. \A u \in plan : u.cmd \in SetsMembers =>
            \E p \in ps : u.pool = p.id /\ HasPort(svc, p.name.port)
    <2> SUFFICES ASSUME NEW u \in plan, u.cmd \in SetsMembers
                 PROVE  \E p \in ps : u.pool = p.id /\ HasPort(svc, p.name.port)
      OBVIOUS
    <2>1. CASE \E p \in ps : ReplacesMembers(svc, u, p)
      BY <2>1 DEF ReplacesMembers, HasPort
    <2> QED
      BY <2>1, <1>2, <1>6, <1>7, <1>9
  <1>12. InOrder(plan)
    <2>1. \A u \in plan : u.cmd = "DELETE-LISTENER" => u.at[1] = 1
      BY <1>10 DEF DeletesListener
    <2>2. \A u \in plan : u.cmd = "DELETE-POOL" => u.at[1] = 2
      BY <1>10 DEF DeletesPool
    <2>3. \A u \in plan : u.cmd = "UPDATE-POOL" => u.at[1] = 4
      BY <1>10 DEF UpdatesPool
    <2>4. \A u \in plan : u.cmd = "CREATE-POOL" => u.at = <<6, u.name.port, 0>>
      BY <1>3, <1>10 DEF CreatesPool
    <2>5. \A u \in plan : u.cmd = "CREATE-LISTENER" => u.at = <<6, u.name.port, 1>>
      BY <1>3, <1>10 DEF CreatesListener
    <2> QED
      BY <2>1, <2>2, <2>3, <2>4, <2>5 DEF InOrder
  <1>13. Distinct(plan)
    <2>1. \A u, v \in plan : u.cmd = "DELETE-LISTENER" /\ v.cmd = "DELETE-LISTENER"
                                /\ u.listener = v.listener => u = v
      BY <1>10 DEF DeletesListener
    <2>2. \A u, v \in plan : u.cmd = "DELETE-POOL" /\ v.cmd = "DELETE-POOL"
                                /\ u.pool = v.pool => u = v
      BY <1>1, <1>10 DEF DeletesPool
    <2>3. \A u, v \in plan : u.cmd = "CREATE-POOL" /\ v.cmd = "CREATE-POOL"
                                /\ u.name.port = v.name.port => u = v
      BY <1>3, <1>4, <1>10 DEF CreatesPool
    <2>4. \A u, v \in plan : u.cmd = "CREATE-LISTENER" /\ v.cmd = "CREATE-LISTENER"
                                /\ u.name.port = v.name.port => u = v
      BY <1>3, <1>4, <1>10 DEF CreatesListener
    <2> QED
      BY <2>1, <2>2, <2>3, <2>4 DEF Distinct
  <1>14. NamesWanted(svc, plan)
    <2>1. \A u \in plan : u.cmd = "CREATE-POOL" => u.name \in names
      BY <1>3, <1>10 DEF CreatesPool
    <2>2. \A u \in plan : u.cmd = "CREATE-LISTENER" => u.name \in names
      BY <1>3, <1>10 DEF CreatesListener
    <2>3. \A u \in plan : u.cmd = "UPDATE-POOL" => u.name \in names
      BY <1>3, <1>10 DEF UpdatesPool
    <2> QED
      BY <2>1, <2>2, <2>3 DEF NamesWanted, NameCmd, names
  <1>15. ListenersThere(plan, ls)
    BY <1>10 DEF ListenersThere, DeletesListener
  <1>16. ListenersNext(plan, ls, ps)
    <2> SUFFICES ASSUME NEW u \in plan, u.cmd = "CREATE-LISTENER"
                 PROVE  /\ \A l \in ls : l.port # u.name.port
                        /\ \/ \E p \in ps : p.name = u.name
                           \/ \E v \in plan : /\ v.cmd \in {"CREATE-POOL", "UPDATE-POOL"}
                                              /\ v.name = u.name
      BY DEF ListenersNext
    <2>1. PICK kp \in svc.ports : /\ \A l \in ls : l.port # kp.port
                                  /\ u.name = genLoadBalancerPoolName(kp)
      BY <1>10 DEF CreatesListener
    <2>2. \A l \in ls : l.port # u.name.port
      BY <1>3, <2>1
    <2>3. CASE \A p \in ps : p.name.port # kp.port
      <3> DEFINE v == [at |-> <<6, kp.port, 0>>, cmd |-> "CREATE-POOL",
                       name |-> genLoadBalancerPoolName(kp)]
      <3>1. CreatesPool(svc, v, ps)
        BY <2>3 DEF CreatesPool
      <3>2. v.cmd = "CREATE-POOL" /\ v.name = u.name
        BY <2>1
      <3> HIDE DEF v
      <3> QED
        BY <1>6, <1>8, <1>9, <2>2, <3>1, <3>2
    <2>4. ASSUME NEW p \in ps, p.name.port = kp.port, p.name # u.name
          PROVE  \E v \in plan : v.cmd \in {"CREATE-POOL", "UPDATE-POOL"} /\ v.name = u.name
      <3> DEFINE v == [at |-> <<4, p.id, 1>>, cmd |-> "UPDATE-POOL",
                       name |-> genLoadBalancerPoolName(kp), pool |-> p.id]
      <3>1. NeedsUpdate(p, kp, svc)
        BY <2>1, <2>4 DEF NeedsUpdate
      <3>2. UpdatesPool(svc, v, p)
        BY <2>4, <3>1 DEF UpdatesPool
      <3>3. v.cmd = "UPDATE-POOL" /\ v.name = u.name
        BY <2>1
      <3> HIDE DEF v
      <3> QED
        BY <1>6, <1>8, <1>9, <3>2, <3>3
    <2> QED
      BY <2>2, <2>3, <2>4
  <1>17. PoolsNext(plan, ps)
    <2> SUFFICES ASSUME NEW u \in plan, u.cmd = "CREATE-POOL"
                 PROVE  \A p \in ps : p.name.port # u.name.port
      BY <1>5 DEF PoolsNext
    <2> QED
      BY <1>3, <1>10 DEF CreatesPool
  <1>18. PoolsThere(svc, plan, ps)
    <2> SUFFICES ASSUME NEW u \in plan, u.cmd \in PoolCmd
                 PROVE  \E p \in ps : /\ p.id = u.pool
                                      /\ u.cmd = "DELETE-POOL" <=> ~HasPort(svc, p.name.port)
      BY <1>5 DEF PoolsThere
    <2>1. CASE u.cmd = "DELETE-POOL"
      BY <1>10, <2>1 DEF DeletesPool
    <2>2. CASE u.cmd = "UPDATE-POOL"
      BY <1>10, <2>2 DEF UpdatesPool, HasPort
    <2>3. CASE u.cmd \in SetsMembers
      BY <1>9, <1>11, <2>3
    <2> QED
      BY <1>9, <2>1, <2>2, <2>3
  <1>19. PoolsKept(plan, ps)
    <2> SUFFICES ASSUME NEW u \in plan, u.cmd = "UPDATE-POOL", NEW p \in ps, p.id = u.pool
                 PROVE  p.name.port = u.name.port
      BY DEF PoolsKept
    <2>1. PICK q \in ps : UpdatesPool(svc, u, q)
      BY <1>10
    <2>2. q = p
      BY <1>1, <2>1 DEF UpdatesPool
    <2> QED
      BY <1>3, <2>1, <2>2 DEF UpdatesPool
  <1>20. PoolsFreed(plan, ls)
    <2> SUFFICES ASSUME NEW u \in plan, u.cmd = "DELETE-POOL", NEW l \in ls, l.pool = u.pool
                 PROVE  \E v \in plan : v.cmd = "DELETE-LISTENER" /\ v.listener = l
      BY DEF PoolsFreed
    <2>1. PICK p \in ps : DeletesPool(svc, u, p)
      BY <1>10
    <2>2. ~HasPort(svc, l.port)
      BY <1>1, <2>1 DEF DeletesPool
    <2> DEFINE v == [at |-> <<1, l.port, 0>>, cmd |-> "DELETE-LISTENER", listener |-> l]
    <2>3. DeletesListener(svc, v, l)
      BY <2>2 DEF DeletesListener
    <2>4. v.cmd = "DELETE-LISTENER" /\ v.listener = l
      OBVIOUS
    <2> HIDE DEF v
    <2> QED
      BY <1>6, <1>8, <1>9, <2>3, <2>4
  <1>21. MembersNext(nodeList, plan, ps)
    <2> SUFFICES ASSUME NEW u \in plan, u.cmd \in MemberCmd
                 PROVE  /\ \A v \in plan : v.cmd \in SetsMembers /\ v.pool = u.pool => v = u
                        /\ \A p \in ps : p.id = u.pool =>
                              IF u.cmd = "CREATE-POOL-MEMBER"
                              THEN u.member \notin p.members
                              ELSE /\ u.member \in p.members
                                   /\ nodeList # {} => p.members # {u.member}
      BY DEF MembersNext
    <2>1. /\ u \in us
          /\ \A v \in us : v.cmd \in MemberCmd /\ v.name = u.name => v = u
      BY <1>6
    <2>2. PICK p \in ps : p.name \in names /\ u.name = p.name /\ u.pool = p.id
      BY <1>7, <2>1
    <2>3. \A v \in us : v.cmd \in MemberCmd /\ v.pool = u.pool => v = u
      BY <1>1, <1>7, <2>1, <2>2
    <2>4. ASSUME NEW v \in plan, v.cmd \in SetsMembers, v.pool = u.pool
          PROVE  v = u
      <3>1. CASE v.cmd \in MemberCmd
        BY <1>6, <2>3, <2>4, <3>1
      <3>2. CASE v.cmd = "REPLACE-POOL-MEMBERS"
        <4>1. v \notin us
          <5> SUFFICES ASSUME v \in us
                       PROVE  FALSE
            OBVIOUS
          <5>1. PICK q \in ps : ReplacesMembers(svc, v, q)
            BY <1>7, <3>2
          <5>2. PICK kp \in svc.ports : /\ kp.port = q.name.port
                                        /\ genLoadBalancerPoolName(kp) # q.name
                                        /\ v.pool = q.id
            BY <5>1 DEF ReplacesMembers
          <5>3. q = p
            BY <1>1, <2>2, <2>4, <5>2
          <5> QED
            BY <1>2, <1>3, <2>2, <5>2, <5>3
        <4>2. PICK m, x \in us : /\ m.cmd \in MemberCmd /\ x.cmd \in MemberCmd /\ x # m
                                 /\ x.name = m.name /\ v.pool = m.pool
          BY <1>6, <3>2, <4>1
        <4>3. m = u
          BY <2>3, <2>4, <4>2
        <4> QED
          BY <2>1, <4>2, <4>3
      <3> QED
        BY <1>9, <2>4, <3>1, <3>2
    <2>5. ASSUME u.cmd = "CREATE-POOL-MEMBER"
          PROVE  u.member \notin p.members
      <3>1. PICK q \in ps : CreatesMember(svc, nodeList, u, q)
        BY <1>7, <2>1, <2>5
      <3>2. u.pool = q.id /\ u.member \notin q.members
        BY <3>1 DEF CreatesMember
      <3> QED
        BY <1>1, <2>2, <3>2
    <2>6. ASSUME u.cmd = "DELETE-POOL-MEMBER"
          PROVE  u.member \in p.members /\ (nodeList # {} => p.members # {u.member})
      <3>1. PICK q \in ps : DeletesMember(svc, nodeList, u, q)
        BY <1>7, <2>1, <2>6
      <3>2. u.pool = q.id
        BY <3>1 DEF DeletesMember
      <3>3. q = p
        BY <1>1, <2>2, <3>2
      <3>4. /\ u.member \in p.members
            /\ u.member.target \notin nodeList \/ u.member.port # p.name.nodePort
        BY <3>1, <3>3 DEF DeletesMember
      <3>5. ASSUME NEW n \in nodeList, p.members = {u.member}
            PROVE  FALSE
        <4> DEFINE m == [target |-> n, port |-> p.name.nodePort]
                   v == [at |-> <<5, p.id, 0>>, cmd |-> "CREATE-POOL-MEMBER",
                         name |-> p.name, pool |-> p.id, member |-> m]
        <4>1. m.target = n /\ m.port = p.name.nodePort
          OBVIOUS
        <4>2. m \in genLoadBalancerMembers(p.name.nodePort, nodeList)
          BY DEF genLoadBalancerMembers
        <4> HIDE DEF m
        <4>3. m \notin p.members
          BY <3>4, <3>5, <4>1
        <4>4. CreatesMember(svc, nodeList, v, p)
          BY <2>2, <4>2, <4>3 DEF CreatesMember, names
        <4>5. v.cmd = "CREATE-POOL-MEMBER" /\ v.name = u.name
          BY <2>2
        <4> HIDE DEF v
        <4> QED
          BY <1>8, <1>9, <2>1, <2>6, <4>4, <4>5
      <3> QED
        BY <3>4, <3>5
    <2>7. \A q \in ps : q.id = u.pool => q = p
      BY <1>1, <2>2
    <2> QED
      BY <1>9, <2>4, <2>5, <2>6, <2>7
  <1> QED
    BY <1>12, <1>13, <1>14, <1>15, <1>16, <1>17, <1>18, <1>19, <1>20, <1>21
       DEF PlanGood, plan

-----------------------------------------------------------------------------
(* Performing the next update of a good plan leaves a good plan *)

\* The service and the VPC during a call.
Sane(svc, ls, ps) ==
    /\ svc \in Services /\ validateService(svc)
    /\ ps \subseteq VpcLoadBalancerPool
    /\ \A p, q \in ps : p.id = q.id => p = q
    /\ CloudGood(ls, ps)

\* The order, the distinctness and the names of a plan outlast its updates.
LEMMA PlanShrinks ==
    ASSUME NEW svc, NEW plan, NEW u, InOrder(plan), Distinct(plan), NamesWanted(svc, plan)
    PROVE  /\ InOrder(plan \ {u}) /\ Distinct(plan \ {u}) /\ NamesWanted(svc, plan \ {u})
  BY DEF InOrder, Distinct, NamesWanted

\* A listener is deleted.
LEMMA DeleteListenerGood ==
    ASSUME NEW svc, NEW nodeList, NEW plan, NEW ls, NEW ps,
           PlanGood(svc, nodeList, plan, ls, ps),
           NEW u \in plan, u.cmd = "DELETE-LISTENER"
    PROVE  PlanGood(svc, nodeList, plan \ {u}, ls \ {u.listener}, ps)
  <1> DEFINE rest == plan \ {u}
             left == ls \ {u.listener}
  <1>1. InOrder(rest) /\ Distinct(rest) /\ NamesWanted(svc, rest)
    BY PlanShrinks DEF PlanGood
  <1>2. ListenersThere(rest, left)
    BY DEF PlanGood, ListenersThere, Distinct
  <1>3. ListenersNext(rest, left, ps)
    BY DEF PlanGood, ListenersNext
  <1>4. PoolsNext(rest, ps) /\ PoolsThere(svc, rest, ps) /\ PoolsKept(rest, ps)
    BY DEF PlanGood, PoolsNext, PoolsThere, PoolsKept
  <1>5. PoolsFreed(rest, left)
    BY DEF PlanGood, PoolsFreed
  <1>6. MembersNext(nodeList, rest, ps)
    BY DEF PlanGood, MembersNext
  <1> QED
    BY <1>1, <1>2, <1>3, <1>4, <1>5, <1>6 DEF PlanGood

\* A pool is deleted.
LEMMA DeletePoolGood ==
    ASSUME NEW svc, NEW nodeList, NEW plan, NEW ls, NEW ps,
           Sane(svc, ls, ps), PlanGood(svc, nodeList, plan, ls, ps),
           NEW u \in plan, u.cmd = "DELETE-POOL"
    PROVE  PlanGood(svc, nodeList, plan \ {u}, ls, {p \in ps : p.id # u.pool})
  <1> DEFINE rest == plan \ {u}
             left == {p \in ps : p.id # u.pool}
  <1>1. InOrder(rest) /\ Distinct(rest) /\ NamesWanted(svc, rest)
    BY PlanShrinks DEF PlanGood
  <1>2. PICK p \in Own(ps) : p.id = u.pool /\ ~HasPort(svc, p.name.port)
    BY DEF PlanGood, PoolsThere, PoolCmd
  <1>3. \A q \in ps : HasPort(svc, q.name.port) => q.id # u.pool
    BY <1>2 DEF Sane, Own
  <1>4. ListenersThere(rest, ls)
    BY DEF PlanGood, ListenersThere
  <1>5. ListenersNext(rest, ls, left)
    <2> SUFFICES ASSUME NEW v \in rest, v.cmd = "CREATE-LISTENER"
                 PROVE  /\ \A l \in ls : l.port # v.name.port
                        /\ \/ \E q \in left : q.name = v.name
                           \/ \E x \in rest : /\ x.cmd \in {"CREATE-POOL", "UPDATE-POOL"}
                                              /\ x.name = v.name
      BY DEF ListenersNext
    <2>1. /\ \A l \in ls : l.port # v.name.port
          /\ \/ \E q \in ps : q.name = v.name
             \/ \E x \in plan : /\ x.cmd \in {"CREATE-POOL", "UPDATE-POOL"}
                                /\ x.name = v.name
      BY DEF PlanGood, ListenersNext
    <2>2. HasPort(svc, v.name.port)
      BY WantedNames DEF Sane, PlanGood, NamesWanted, NameCmd
    <2>3. \A q \in ps : q.name = v.name => q \in left
      BY <1>3, <2>2
    <2> QED
      BY <2>1, <2>3
  <1>6. PoolsNext(rest, left)
    BY DEF PlanGood, PoolsNext, Own
  <1>7. PoolsThere(svc, rest, left)
    <2> SUFFICES ASSUME NEW v \in rest, v.cmd \in PoolCmd
                 PROVE  \E q \in Own(left) :
                           /\ q.id = v.pool
                           /\ v.cmd = "DELETE-POOL" <=> ~HasPort(svc, q.name.port)
      BY DEF PoolsThere
    <2>1. PICK q \in Own(ps) : /\ q.id = v.pool
                               /\ v.cmd = "DELETE-POOL" <=> ~HasPort(svc, q.name.port)
      BY DEF PlanGood, PoolsThere
    <2>2. q.id # u.pool
      <3>1. CASE v.cmd = "DELETE-POOL"
        BY <2>1, <3>1 DEF PlanGood, Distinct
      <3>2. CASE v.cmd # "DELETE-POOL"
        BY <1>3, <2>1, <3>2 DEF Own
      <3> QED
        BY <3>1, <3>2
    <2> QED
      BY <2>1, <2>2 DEF Own
  <1>8. PoolsKept(rest, left)
    BY DEF PlanGood, PoolsKept
  <1>9. PoolsFreed(rest, ls)
    BY DEF PlanGood, PoolsFreed
  <1>10. MembersNext(nodeList, rest, left)
    BY DEF PlanGood, MembersNext
  <1> QED
    BY <1>1, <1>4, <1>5, <1>6, <1>7, <1>8, <1>9, <1>10 DEF PlanGood

\* A pool is created.
LEMMA CreatePoolGood ==
    ASSUME NEW svc, NEW nodeList, NEW plan, NEW ls, NEW ps,
           Sane(svc, ls, ps), PlanGood(svc, nodeList, plan, ls, ps),
           NEW u \in plan, u.cmd = "CREATE-POOL",
           NEW new, new.name = u.name, \A p \in ps : p.id # new.id
    PROVE  /\ PlanGood(svc, nodeList, plan \ {u}, ls, ps \cup {new})
           /\ CloudGood(ls, ps \cup {new})
  <1> DEFINE rest == plan \ {u}
             more == ps \cup {new}
  <1>1. InOrder(rest) /\ Distinct(rest) /\ NamesWanted(svc, rest)
    BY PlanShrinks DEF PlanGood
  <1>2. new.name.protocol = "tcp" /\ Parses(new.name)
    BY WantedNames DEF Sane, PlanGood, NamesWanted, NameCmd
  <1>3. \A v \in plan : v.cmd \in PoolCmd => v.pool # new.id
    BY DEF PlanGood, PoolsThere, Own
  <1>4. Own(more) = Own(ps) \cup {new}
    BY <1>2 DEF Own
  <1>5. \A p \in Own(ps) : p.name.port # new.name.port
    BY DEF PlanGood, PoolsNext
  <1>6. ListenersThere(rest, ls)
    BY DEF PlanGood, ListenersThere
  <1>7. ListenersNext(rest, ls, more)
    BY DEF PlanGood, ListenersNext
  <1>8. PoolsNext(rest, more)
    BY <1>4 DEF PlanGood, PoolsNext, Distinct
  <1>9. PoolsThere(svc, rest, more)
    BY <1>4 DEF PlanGood, PoolsThere
  <1>10. PoolsKept(rest, more)
    BY <1>3 DEF PlanGood, PoolsKept, PoolCmd
  <1>11. PoolsFreed(rest, ls)
    BY DEF PlanGood, PoolsFreed
  <1>12. MembersNext(nodeList, rest, more)
    <2>1. \A v \in plan : v.cmd \in MemberCmd => v.pool # new.id
      BY <1>3 DEF PoolCmd, SetsMembers
    <2> QED
      BY <2>1 DEF PlanGood, MembersNext
  <1>13. CloudGood(ls, more)
    BY <1>2, <1>4, <1>5 DEF Sane, CloudGood
  <1> QED
    BY <1>1, <1>6, <1>7, <1>8, <1>9, <1>10, <1>11, <1>12, <1>13 DEF PlanGood

\* A listener is created.
LEMMA CreateListenerGood ==
    ASSUME NEW svc, NEW nodeList, NEW plan, NEW ls, NEW ps,
           Sane(svc, ls, ps), PlanGood(svc, nodeList, plan, ls, ps),
           NEW u, IsNext(u, plan), u.cmd = "CREATE-LISTENER",
           NEW new, new.protocol = u.name.protocol, new.port = u.name.port
    PROVE  /\ PlanGood(svc, nodeList, plan \ {u}, ls \cup {new}, ps)
           /\ CloudGood(ls \cup {new}, ps)
  <1> DEFINE rest == plan \ {u}
             more == ls \cup {new}
  <1>1. InOrder(rest) /\ Distinct(rest) /\ NamesWanted(svc, rest)
    BY PlanShrinks DEF PlanGood
  <1>2. u \in plan /\ \A v \in plan : v.cmd # "DELETE-POOL"
    BY DEF IsNext, Before, PlanGood, InOrder
  <1>3. ListenersThere(rest, more)
    BY DEF PlanGood, ListenersThere
  <1>4. ListenersNext(rest, more, ps)
    BY <1>2 DEF PlanGood, ListenersNext, Distinct
  <1>5. PoolsNext(rest, ps) /\ PoolsThere(svc, rest, ps) /\ PoolsKept(rest, ps)
    BY DEF PlanGood, PoolsNext, PoolsThere, PoolsKept
  <1>6. PoolsFreed(rest, more)
    BY <1>2 DEF PoolsFreed
  <1>7. MembersNext(nodeList, rest, ps)
    BY DEF PlanGood, MembersNext
  <1>8. CloudGood(more, ps)
    <2>1. new.protocol = "tcp"
      BY <1>2, WantedNames DEF Sane, PlanGood, NamesWanted, NameCmd
    <2> QED
      BY <2>1 DEF Sane, CloudGood
  <1> QED
    BY <1>1, <1>3, <1>4, <1>5, <1>6, <1>7, <1>8 DEF PlanGood

\* f is what update u makes of each pool of ps, and new of them all: it changes
\* its own pool only, and there either the name or the members.
Changes(f, u, ps, new) ==
    /\ new = {f[p] : p \in ps}
    /\ \A p \in ps :
        /\ f[p].id = p.id /\ (p.id # u.pool => f[p] = p)
        /\ p.id = u.pool =>
              IF u.cmd = "UPDATE-POOL" THEN f[p].name = u.name /\ f[p].members = p.members
                                       ELSE f[p].name = p.name

\* A pool is renamed, or its members change.
LEMMA ChangePoolGood ==
    ASSUME NEW svc, NEW nodeList, NEW plan, NEW ls, NEW ps,
           Sane(svc, ls, ps), PlanGood(svc, nodeList, plan, ls, ps),
           NEW u \in plan, u.cmd \in SetsMembers \cup {"UPDATE-POOL"},
           NEW f, NEW new, Changes(f, u, ps, new)
    PROVE  /\ PlanGood(svc, nodeList, plan \ {u}, ls, new)
           /\ CloudGood(ls, new)
  <1> DEFINE rest == plan \ {u}
             names == getServicePoolNames(svc)
  <1> USE DEF Changes
  <1>1. InOrder(rest) /\ Distinct(rest) /\ NamesWanted(svc, rest)
    BY PlanShrinks DEF PlanGood
  <1>2. /\ \A n \in names : n.protocol = "tcp" /\ Parses(n)
        /\ \A m, n \in names : m.port = n.port => m = n
    BY WantedNames DEF Sane
  <1>3. PICK p0 \in ps : p0.id = u.pool /\ Parses(p0.name)
    BY DEF PlanGood, PoolsThere, PoolCmd, Own
  <1>4. \A p \in ps : p.id = u.pool <=> p = p0
    BY <1>3 DEF Sane
  <1>5. u.cmd = "UPDATE-POOL" => u.name \in names /\ u.name.port = p0.name.port
    BY <1>3 DEF PlanGood, NamesWanted, NameCmd, PoolsKept
  <1>6. \A p \in ps : /\ f[p].name.port = p.name.port
                      /\ Parses(f[p].name) <=> Parses(p.name)
                      /\ f[p].name # p.name => f[p].name \in names
                      /\ Parses(p.name) => f[p].name.protocol = "tcp"
    <2> SUFFICES ASSUME NEW p \in ps
                 PROVE  /\ f[p].name.port = p.name.port
                        /\ Parses(f[p].name) <=> Parses(p.name)
                        /\ f[p].name # p.name => f[p].name \in names
                        /\ Parses(p.name) => f[p].name.protocol = "tcp"
      OBVIOUS
    <2>1. Parses(p.name) => p.name.protocol = "tcp"
      BY DEF Sane, CloudGood, Own
    <2>2. CASE p.id # u.pool
      BY <2>1, <2>2
    <2>3. CASE p.id = u.pool /\ u.cmd = "UPDATE-POOL"
      BY <1>2, <1>3, <1>4, <1>5, <2>3
    <2>4. CASE p.id = u.pool /\ u.cmd # "UPDATE-POOL"
      BY <2>1, <2>4
    <2> QED
      BY <2>2, <2>3, <2>4
  <1>7. \A q \in new : \E p \in ps : q = f[p]
    OBVIOUS
  <1>8. \A p \in ps : f[p] \in new /\ f[p].id = p.id
    OBVIOUS
  <1>9. /\ \A p \in Own(ps) : f[p] \in Own(new)
        /\ \A q \in Own(new) : \E p \in Own(ps) : q = f[p]
    BY <1>6 DEF Own
  <1> HIDE DEF Changes
  <1>10. ListenersThere(rest, ls)
    BY DEF PlanGood, ListenersThere
  <1>11. ListenersNext(rest, ls, new)
    <2> SUFFICES ASSUME NEW v \in rest, v.cmd = "CREATE-LISTENER"
                 PROVE  /\ \A l \in ls : l.port # v.name.port
                        /\ \/ \E q \in new : q.name = v.name
                           \/ \E x \in rest : /\ x.cmd \in {"CREATE-POOL", "UPDATE-POOL"}
                                              /\ x.name = v.name
      BY DEF ListenersNext
    <2>1. /\ \A l \in ls : l.port # v.name.port
          /\ \/ \E q \in ps : q.name = v.name
             \/ \E x \in plan : /\ x.cmd \in {"CREATE-POOL", "UPDATE-POOL"}
                                /\ x.name = v.name
      BY DEF PlanGood, ListenersNext
    <2>2. v.name \in names
      BY DEF PlanGood, NamesWanted, NameCmd
    <2>3. \A q \in ps : q.name = v.name => f[q].name = v.name
      BY <1>2, <1>6, <2>2
    <2>4. u.cmd = "UPDATE-POOL" /\ u.name = v.name => f[p0].name = v.name
      BY <1>3 DEF Changes
    <2>5. u.cmd # "CREATE-POOL"
      BY DEF SetsMembers, MemberCmd
    <2> QED
      BY <1>8, <2>1, <2>3, <2>4, <2>5
  <1>12. PoolsNext(rest, new)
    BY <1>6, <1>9 DEF PlanGood, PoolsNext, Own
  <1>13. PoolsThere(svc, rest, new)
    <2> SUFFICES ASSUME NEW v \in rest, v.cmd \in PoolCmd
                 PROVE  \E q \in Own(new) :
                           /\ q.id = v.pool
                           /\ v.cmd = "DELETE-POOL" <=> ~HasPort(svc, q.name.port)
      BY DEF PoolsThere
    <2>1. PICK p \in Own(ps) : /\ p.id = v.pool
                               /\ v.cmd = "DELETE-POOL" <=> ~HasPort(svc, p.name.port)
      BY DEF PlanGood, PoolsThere
    <2>2. f[p].id = p.id /\ f[p].name.port = p.name.port /\ f[p] \in Own(new)
      BY <1>6, <1>9 DEF Own, Changes
    <2> QED
      BY <2>1, <2>2
  <1>14. PoolsKept(rest, new)
    BY <1>6, <1>7, <1>8 DEF PlanGood, PoolsKept
  <1>15. PoolsFreed(rest, ls)
    <2>1. u.cmd # "DELETE-LISTENER"
      BY DEF SetsMembers, MemberCmd
    <2> QED
      BY <2>1 DEF PlanGood, PoolsFreed
  <1>16. MembersNext(nodeList, rest, new)
    <2> SUFFICES ASSUME NEW v \in rest, v.cmd \in MemberCmd
                 PROVE  /\ \A x \in rest : x.cmd \in SetsMembers /\ x.pool = v.pool => x = v
                        /\ \A q \in new : q.id = v.pool =>
                              IF v.cmd = "CREATE-POOL-MEMBER"
                              THEN v.member \notin q.members
                              ELSE /\ v.member \in q.members
                                   /\ nodeList # {} => q.members # {v.member}
      BY DEF MembersNext
    <2>1. /\ \A x \in plan : x.cmd \in SetsMembers /\ x.pool = v.pool => x = v
          /\ \A p \in ps : p.id = v.pool =>
                IF v.cmd = "CREATE-POOL-MEMBER"
                THEN v.member \notin p.members
                ELSE v.member \in p.members /\ (nodeList # {} => p.members # {v.member})
      BY DEF PlanGood, MembersNext
    <2>2. \A p \in ps : p.id = v.pool => f[p].members = p.members
      BY <2>1 DEF Changes
    <2> QED
      BY <1>7, <1>8, <2>1, <2>2
  <1>17. CloudGood(ls, new)
    <2>1. \A q \in Own(new) : q.name.protocol = "tcp"
      BY <1>6, <1>9 DEF Own
    <2>2. \A q, r \in Own(new) : q.name.port = r.name.port => q = r
      BY <1>6, <1>9 DEF Sane, CloudGood, Own
    <2> QED
      BY <2>1, <2>2 DEF Sane, CloudGood
  <1> QED
    BY <1>1, <1>10, <1>11, <1>12, <1>13, <1>14, <1>15, <1>16, <1>17 DEF PlanGood

\* Pools of others come and go.
LEMMA ForeignGood ==
    ASSUME NEW svc, NEW nodeList, NEW plan, NEW ls, NEW ps, NEW new,
           svc \in Services, validateService(svc),
           PlanGood(svc, nodeList, plan, ls, ps),
           Own(new) = Own(ps),
           \A p \in new \ ps : \A q \in ps : p.id # q.id
    PROVE  PlanGood(svc, nodeList, plan, ls, new)
  <1>1. \A u \in plan : u.cmd \in PoolCmd => \A p \in new : p.id = u.pool => p \in ps
    BY DEF PlanGood, PoolsThere, Own
  <1>2. ListenersNext(plan, ls, new)
    <2>1. \A u \in plan : u.cmd = "CREATE-LISTENER" => Parses(u.name)
      BY WantedNames DEF PlanGood, NamesWanted, NameCmd
    <2>2. \A u \in plan : u.cmd = "CREATE-LISTENER" =>
             \A p \in ps : p.name = u.name => p \in new
      BY <2>1 DEF Own
    <2> QED
      BY <2>2 DEF PlanGood, ListenersNext
  <1>3. PoolsNext(plan, new) /\ PoolsThere(svc, plan, new)
    BY DEF PlanGood, PoolsNext, PoolsThere
  <1>4. PoolsKept(plan, new)
    BY <1>1 DEF PlanGood, PoolsKept, PoolCmd
  <1>5. MembersNext(nodeList, plan, new)
    <2>1. \A u \in plan : u.cmd \in MemberCmd => \A p \in new : p.id = u.pool => p \in ps
      BY <1>1 DEF PoolCmd, SetsMembers
    <2> QED
      BY <2>1 DEF PlanGood, MembersNext
  <1> QED
    BY <1>2, <1>3, <1>4, <1>5 DEF PlanGood

-----------------------------------------------------------------------------
(* The invariant is kept *)

\* The VPC allows the next update of a good plan.
LEMMA GoodAllowed ==
    ASSUME NEW w \in Worker, wk[w].plan \subseteq Update, NEW u,
           Sane(wk[w].svc, listeners, pools),
           PlanGood(wk[w].svc, NodeList(wk[w].svc, wk[w].nodes), wk[w].plan,
                    listeners, pools),
           IsNext(u, wk[w].plan),
           \A p \in Own(pools) : \E r \in wk[w].refs : r.id = p.id /\ r.name = p.name
    PROVE  Allowed(w, u)
  <1> DEFINE svc == wk[w].svc
             plan == wk[w].plan
             names == getServicePoolNames(svc)
  <1>1. /\ u \in plan /\ u \in Update
        /\ \A v \in plan : ~Before(v.at, u.at)
    BY DEF IsNext
  <1>2. /\ InOrder(plan) /\ NamesWanted(svc, plan) /\ ListenersThere(plan, listeners)
        /\ ListenersNext(plan, listeners, pools) /\ PoolsNext(plan, pools)
        /\ PoolsThere(svc, plan, pools) /\ PoolsKept(plan, pools)
        /\ PoolsFreed(plan, listeners)
        /\ MembersNext(NodeList(svc, wk[w].nodes), plan, pools)
    BY DEF PlanGood
  <1>3. \A n \in names : Parses(n)
    BY WantedNames DEF Sane
  <1>4. \A p, q \in Own(pools) : p.name.port = q.name.port => p = q
    BY DEF Sane, CloudGood
  <1>5. u.cmd \in PoolCmd => \E p \in Own(pools) : p \in pools /\ p.id = u.pool
    BY <1>1, <1>2 DEF PoolsThere, Own
  <1>6. u.cmd \in NameCmd => u.name \in names
    BY <1>1, <1>2 DEF NamesWanted
  <1>7. CASE u.cmd = "DELETE-LISTENER"
    BY <1>1, <1>2, <1>7 DEF Allowed, ListenersThere
  <1>8. CASE u.cmd = "DELETE-POOL"
    <2>1. \A l \in listeners : l.pool # u.pool
      <3>1. \A v \in plan : v.cmd # "DELETE-LISTENER"
        BY <1>1, <1>2, <1>8 DEF InOrder, Before
      <3> QED
        BY <1>1, <1>2, <1>8, <3>1 DEF PoolsFreed
    <2>2. \E p \in pools : p.id = u.pool
      BY <1>5, <1>8 DEF PoolCmd
    <2> QED
      BY <1>8, <2>1, <2>2 DEF Allowed
  <1>9. CASE u.cmd = "CREATE-POOL"
    <2>1. \A p \in pools : p.name # u.name
      BY <1>1, <1>2, <1>3, <1>6, <1>9 DEF PoolsNext, Own, NameCmd
    <2> QED
      BY <1>9, <2>1 DEF Allowed
  <1>10. CASE u.cmd = "CREATE-LISTENER"
    <2>1. \A l \in listeners : l.port # u.name.port
      BY <1>1, <1>2, <1>10 DEF ListenersNext
    <2>2. \A v \in plan : v.cmd \in {"CREATE-POOL", "UPDATE-POOL"} => v.name # u.name
      <3> SUFFICES ASSUME NEW v \in plan, v.cmd \in {"CREATE-POOL", "UPDATE-POOL"},
                          v.name = u.name
                   PROVE  FALSE
        OBVIOUS
      <3>1. u.at = <<6, u.name.port, 1>>
        BY <1>1, <1>2, <1>10 DEF InOrder
      <3>2. CASE v.cmd = "CREATE-POOL"
        <4>1. v.at = <<6, u.name.port, 0>>
          BY <1>2, <3>2 DEF InOrder
        <4>2. Before(v.at, u.at)
          BY <3>1, <4>1 DEF Before
        <4> QED
          BY <1>1, <4>2
      <3>3. CASE v.cmd = "UPDATE-POOL"
        <4>1. v.at[1] = 4 /\ u.at[1] = 6
          BY <1>2, <3>1, <3>3 DEF InOrder
        <4>2. Before(v.at, u.at)
          BY <4>1 DEF Before
        <4> QED
          BY <1>1, <4>2
      <3> QED
        BY <3>2, <3>3
    <2>3. PICK p \in pools : p.name = u.name
      BY <1>1, <1>2, <1>10, <2>2 DEF ListenersNext
    <2>4. p \in Own(pools)
      BY <1>3, <1>6, <1>10, <2>3 DEF Own, NameCmd
    <2>5. \E r \in wk[w].refs : r.name = u.name /\ \E q \in pools : q.id = r.id
      BY <2>3, <2>4
    <2> QED
      BY <1>10, <2>1, <2>5 DEF Allowed
  <1>11. CASE u.cmd = "UPDATE-POOL"
    <2>1. PICK p \in Own(pools) : p \in pools /\ p.id = u.pool
      BY <1>5, <1>11 DEF PoolCmd
    <2>2. p.name.port = u.name.port
      BY <1>1, <1>2, <1>11, <2>1 DEF PoolsKept
    <2>3. \A q \in pools : q.name = u.name => q = p
      BY <1>3, <1>4, <1>6, <1>11, <2>1, <2>2 DEF Own, NameCmd
    <2> QED
      BY <1>11, <2>1, <2>3 DEF Allowed
  <1>12. CASE u.cmd \in SetsMembers
    <2>1. \E p \in pools : p.id = u.pool
      BY <1>5, <1>12 DEF PoolCmd
    <2>2. CASE u.cmd = "REPLACE-POOL-MEMBERS"
      BY <2>1, <2>2 DEF Allowed
    <2>3. CASE u.cmd = "CREATE-POOL-MEMBER"
      <3>1. \A p \in pools : p.id = u.pool => u.member \notin p.members
        BY <1>1, <1>2, <2>3 DEF MembersNext, MemberCmd
      <3> QED
        BY <2>1, <2>3, <3>1 DEF Allowed
    <2>4. CASE u.cmd = "DELETE-POOL-MEMBER"
      <3>1. \A p \in pools : p.id = u.pool => u.member \in p.members
        BY <1>1, <1>2, <2>4 DEF MembersNext, MemberCmd
      <3> QED
        BY <2>1, <2>4, <3>1 DEF Allowed
    <2> QED
      BY <1>12, <2>2, <2>3, <2>4 DEF SetsMembers, MemberCmd
  <1> QED
    BY <1>1, <1>7, <1>8, <1>9, <1>10, <1>11, <1>12 DEF Update, SetsMembers, MemberCmd

\* Performing the next update of a good plan.
LEMMA PerformGood ==
    ASSUME NEW w \in Worker, NEW u,
           Sane(wk[w].svc, listeners, pools),
           PlanGood(wk[w].svc, NodeList(wk[w].svc, wk[w].nodes), wk[w].plan,
                    listeners, pools),
           IsNext(u, wk[w].plan), Perform(w, u)
    PROVE  /\ PlanGood(wk[w].svc, NodeList(wk[w].svc, wk[w].nodes), wk[w].plan \ {u},
                       listeners', pools')
           /\ CloudGood(listeners', pools')
  <1>1. u \in wk[w].plan
    BY DEF IsNext
  <1>2. \A p \in pools : p \in VpcLoadBalancerPool
    BY DEF Sane
  <1>3. CloudGood(listeners, pools)
    BY DEF Sane
  <1>4. ASSUME NEW f, u.cmd \in SetsMembers \cup {"UPDATE-POOL"},
               Changes(f, u, pools, pools'), listeners' = listeners
        PROVE  /\ PlanGood(wk[w].svc, NodeList(wk[w].svc, wk[w].nodes), wk[w].plan \ {u},
                           listeners', pools')
               /\ CloudGood(listeners', pools')
    BY <1>1, <1>4, ChangePoolGood
  <1>5. CASE createLoadBalancerListener(w, u)
    <2>1. PICK new : /\ new.protocol = u.name.protocol /\ new.port = u.name.port
                     /\ listeners' = listeners \cup {new}
      BY <1>5 DEF createLoadBalancerListener
    <2>2. u.cmd = "CREATE-LISTENER" /\ pools' = pools
      BY <1>5 DEF createLoadBalancerListener
    <2> QED
      BY <2>1, <2>2, CreateListenerGood
  <1>6. CASE createLoadBalancerPool(w, u)
    <2>1. PICK new : /\ new.name = u.name /\ new.id \in FreshIds
                     /\ pools' = pools \cup {new}
      BY <1>6 DEF createLoadBalancerPool
    <2>2. \A p \in pools : p.id # new.id
      BY <2>1 DEF FreshIds, UsedIds
    <2>3. u.cmd = "CREATE-POOL" /\ listeners' = listeners
      BY <1>6 DEF createLoadBalancerPool
    <2> QED
      BY <1>1, <2>1, <2>2, <2>3, CreatePoolGood
  <1>7. CASE createLoadBalancerPoolMember(w, u)
    <2> DEFINE f == [p \in pools |-> IF p.id = u.pool
                                    THEN [p EXCEPT !.members = @ \cup {u.member}] ELSE p]
    <2>1. \A p \in pools : /\ f[p].id = p.id /\ (p.id # u.pool => f[p] = p)
                           /\ f[p].name = p.name
      BY <1>2 DEF VpcLoadBalancerPool
    <2>2. /\ pools' = {f[p] : p \in pools} /\ listeners' = listeners
          /\ u.cmd = "CREATE-POOL-MEMBER"
      BY <1>7 DEF createLoadBalancerPoolMember
    <2> HIDE DEF f
    <2> QED
      BY <1>4, <2>1, <2>2 DEF Changes, SetsMembers, MemberCmd
  <1>8. CASE deleteLoadBalancerListener(w, u)
    <2>1. /\ u.cmd = "DELETE-LISTENER" /\ pools' = pools
          /\ listeners' = listeners \ {u.listener}
      BY <1>8 DEF deleteLoadBalancerListener
    <2>2. CloudGood(listeners', pools')
      BY <1>3, <2>1 DEF CloudGood
    <2> QED
      BY <1>1, <2>1, <2>2, DeleteListenerGood
  <1>9. CASE deleteLoadBalancerPool(w, u)
    <2>1. /\ u.cmd = "DELETE-POOL" /\ listeners' = listeners
          /\ pools' = {p \in pools : p.id # u.pool}
      BY <1>9 DEF deleteLoadBalancerPool
    <2>2. CloudGood(listeners', pools')
      BY <1>3, <2>1 DEF CloudGood, Own
    <2> QED
      BY <1>1, <2>1, <2>2, DeletePoolGood
  <1>10. CASE deleteLoadBalancerPoolMember(w, u)
    <2> DEFINE f == [p \in pools |-> IF p.id = u.pool
                                    THEN [p EXCEPT !.members = @ \ {u.member}] ELSE p]
    <2>1. \A p \in pools : /\ f[p].id = p.id /\ (p.id # u.pool => f[p] = p)
                           /\ f[p].name = p.name
      BY <1>2 DEF VpcLoadBalancerPool
    <2>2. /\ pools' = {f[p] : p \in pools} /\ listeners' = listeners
          /\ u.cmd = "DELETE-POOL-MEMBER"
      BY <1>10 DEF deleteLoadBalancerPoolMember
    <2> HIDE DEF f
    <2> QED
      BY <1>4, <2>1, <2>2 DEF Changes, SetsMembers, MemberCmd
  <1>11. CASE replaceLoadBalancerPoolMembers(w, u)
    <2> DEFINE m == genLoadBalancerMembers(u.name.nodePort,
                       NodeList(wk[w].svc, wk[w].nodes))
               f == [p \in pools |-> IF p.id = u.pool
                                    THEN [p EXCEPT !.members = m] ELSE p]
    <2> HIDE DEF m
    <2>1. \A p \in pools : /\ f[p].id = p.id /\ (p.id # u.pool => f[p] = p)
                           /\ f[p].name = p.name
      BY <1>2 DEF VpcLoadBalancerPool
    <2>2. /\ pools' = {f[p] : p \in pools} /\ listeners' = listeners
          /\ u.cmd = "REPLACE-POOL-MEMBERS"
      BY <1>11 DEF replaceLoadBalancerPoolMembers, m
    <2> HIDE DEF f
    <2> QED
      BY <1>4, <2>1, <2>2 DEF Changes, SetsMembers
  <1>12. CASE updateLoadBalancerPool(w, u)
    <2> DEFINE requested == IF wk[w].svc.proxyProtocol THEN "v1" ELSE "disabled"
               differs == \E q \in wk[w].pools : q.id = u.pool /\ q.proxy # requested
               hm == genLoadBalancerHealthMonitor(u.name.nodePort,
                        getServiceHealthCheckNodePort(wk[w].svc))
               f == [p \in pools |-> IF p.id = u.pool
                       THEN [p EXCEPT !.name = u.name, !.hm = hm,
                                      !.proxy = IF differs THEN requested ELSE @]
                       ELSE p]
    <2>1. /\ pools' = {f[p] : p \in pools} /\ listeners' = listeners
          /\ u.cmd = "UPDATE-POOL"
      BY <1>12 DEF updateLoadBalancerPool
    <2> HIDE DEF requested, differs, hm
    <2>2. \A p \in pools : /\ f[p].id = p.id /\ (p.id # u.pool => f[p] = p)
                           /\ p.id = u.pool => f[p].name = u.name /\ f[p].members = p.members
      BY <1>2 DEF VpcLoadBalancerPool
    <2> HIDE DEF f
    <2> QED
      BY <1>4, <2>1, <2>2 DEF Changes
  <1> QED
    BY <1>5, <1>6, <1>7, <1>8, <1>9, <1>10, <1>11, <1>12 DEF Perform

\* Creating the load balancer makes one TCP pool per port.
LEMMA CreateGood ==
    ASSUME TypeOK, NEW w \in Worker, ~CreateInvalid(wk[w]), CreateRequest(w)
    PROVE  CloudGood(listeners', pools')
  <1> DEFINE c == wk[w]
             names == getServicePoolNames(c.svc)
             ids == CHOOSE f \in [names -> FreshIds] : Injective(f)
             New(n) == [id |-> ids[n], name |-> n,
                        hm |-> genLoadBalancerHealthMonitor(n.nodePort,
                                  getServiceHealthCheckNodePort(c.svc)),
                        proxy |-> IF c.svc.proxyProtocol THEN "v1" ELSE "disabled",
                        members |-> genLoadBalancerMembers(n.nodePort,
                                       NodeList(c.svc, c.nodes))]
  <1>1. /\ pools' = {New(n) : n \in names}
        /\ \A l \in listeners' : l.protocol = "tcp"
    BY DEF CreateRequest
  <1>2. c.svc \in Services /\ validateService(c.svc)
    BY DEF TypeOK, Call, CreateInvalid
  <1>3. /\ \A n \in names : n.protocol = "tcp"
        /\ \A m, n \in names : m.port = n.port => m = n
    BY <1>2, WantedNames
  <1>4. \A n \in names : New(n).name = n
    OBVIOUS
  <1> HIDE DEF names, New
  <1>5. \A p, q \in pools' : p.name.port = q.name.port => p = q
    BY <1>1, <1>3, <1>4
  <1>6. \A p \in pools' : p.name.protocol = "tcp"
    BY <1>1, <1>3, <1>4
  <1> QED
    BY <1>1, <1>5, <1>6 DEF CloudGood, Own

\* The state of the VPC when a call is at work.
LEMMA WorkSane ==
    ASSUME TypeOK, PortInv, SerialInv, NEW w \in Worker, wk[w].pc \in Working
    PROVE  Sane(wk[w].svc, listeners, pools)
  <1>1. wk[w].svc \in Services /\ pools \subseteq VpcLoadBalancerPool
    BY DEF TypeOK, Call
  <1>2. validateService(wk[w].svc) /\ CloudGood(listeners, pools)
    BY DEF SerialInv, CallGood
  <1> QED
    BY <1>1, <1>2 DEF Sane, PortInv, UniqueIds

\* What a call reads of the pools is true of them.
LEMMA RefsCurrent ==
    \A p \in Own(pools) : \E r \in Refs : r.id = p.id /\ r.name = p.name
  <1> SUFFICES ASSUME NEW p \in Own(pools)
               PROVE  \E r \in Refs : r.id = p.id /\ r.name = p.name
    OBVIOUS
  <1> DEFINE r == [id |-> p.id, name |-> p.name]
  <1>1. r \in Refs
    BY DEF Refs, Own
  <1>2. r.id = p.id /\ r.name = p.name
    OBVIOUS
  <1> QED
    BY <1>1, <1>2

\* A step of the only call: it becomes d.
LEMMA CallMoves ==
    ASSUME TypeOK, SerialInv, NEW w \in Worker, NEW d,
           wk' = [wk EXCEPT ![w] = d],
           ~Idle(w) \/ \A v \in Worker : Idle(v),
           d.result # "rule",
           CloudGood(listeners', pools'), CallGood(d, lb', listeners', pools')
    PROVE  SerialInv'
  <1>1. wk'[w] = d /\ \A v \in Worker : v # w => wk'[v] = wk[v] /\ wk[v].pc = "idle"
    BY DEF TypeOK, SerialInv, OneCall, Idle
  <1>2. OneCall'
    BY <1>1 DEF OneCall, Idle
  <1>3. \A v \in Worker : CallGood(wk'[v], lb', listeners', pools')
    BY <1>1 DEF CallGood, Working
  <1>4. RulesRespected'
    BY <1>1 DEF SerialInv, RulesRespected
  <1> QED
    BY <1>2, <1>3, <1>4 DEF SerialInv

\* The only call ends.
LEMMA CallEnds ==
    ASSUME TypeOK, SerialInv, NEW w \in Worker, ~Idle(w), NEW r, r # "rule",
           Finish(w, r), CloudGood(listeners', pools')
    PROVE  SerialInv'
  <1>1. PICK d : d = [wk[w] EXCEPT !.pc = "done", !.result = r]
    OBVIOUS
  <1>2. wk[w] \in Call /\ wk \in [Worker -> Call]
    BY DEF TypeOK
  <1>3. d.pc = "done" /\ d.result = r
    BY <1>1, <1>2 DEF Call
  <1>4. wk' = [wk EXCEPT ![w] = d]
    BY <1>1, <1>2 DEF Finish
  <1>5. CallGood(d, lb', listeners', pools')
    BY <1>3 DEF CallGood, Working
  <1> QED
    BY <1>3, <1>4, <1>5, CallMoves

\* FindLoadBalancer and what follows it.
LEMMA SerialFind ==
    ASSUME TypeOK, SerialInv, NEW w \in Worker, FindLoadBalancer(w)
    PROVE  SerialInv'
  <1>1. /\ ~Idle(w) /\ lb' = lb /\ listeners' = listeners /\ pools' = pools
        /\ CloudGood(listeners', pools')
    BY DEF FindLoadBalancer, cloud, Idle, SerialInv
  <1>2. wk[w] \in Call /\ wk \in [Worker -> Call] /\ wk[w].result # "rule"
    BY DEF TypeOK, SerialInv, RulesRespected
  <1>3. \/ wk' = [wk EXCEPT ![w].pc = "create"]
        \/ Finish(w, "ok") \/ Finish(w, "error") \/ Finish(w, "busy")
        \/ Take(w, "delete")
        \/ Take(w, "listeners") /\ IsReady /\ ~UpdateInvalid(wk[w])
    BY DEF FindLoadBalancer, EnsureLoadBalancer, EnsureLoadBalancerDeleted,
       EnsureLoadBalancerUpdated, BeginUpdate
  <1>4. CASE Finish(w, "ok") \/ Finish(w, "error") \/ Finish(w, "busy")
    BY <1>1, <1>4, CallEnds
  <1>5. CASE wk' = [wk EXCEPT ![w].pc = "create"]
    <2>1. PICK d : d = [wk[w] EXCEPT !.pc = "create"]
      OBVIOUS
    <2>2. d.pc = "create" /\ d.result # "rule"
      BY <1>2, <2>1 DEF Call
    <2>3. wk' = [wk EXCEPT ![w] = d] /\ CallGood(d, lb', listeners', pools')
      BY <1>2, <1>5, <2>1, <2>2 DEF CallGood, Working
    <2> QED
      BY <1>1, <2>2, <2>3, CallMoves
  <1>6. CASE Take(w, "delete")
    <2>1. PICK d : d = [wk[w] EXCEPT !.pc = "delete", !.lb = lb.id, !.refs = Refs]
      OBVIOUS
    <2>2. d.pc = "delete" /\ d.result # "rule"
      BY <1>2, <2>1 DEF Call
    <2>3. wk' = [wk EXCEPT ![w] = d] /\ CallGood(d, lb', listeners', pools')
      BY <1>2, <1>6, <2>1, <2>2 DEF CallGood, Working, Take
    <2> QED
      BY <1>1, <2>2, <2>3, CallMoves
  <1>7. CASE Take(w, "listeners") /\ IsReady /\ ~UpdateInvalid(wk[w])
    <2>1. PICK d : d = [wk[w] EXCEPT !.pc = "listeners", !.lb = lb.id, !.refs = Refs]
      OBVIOUS
    <2>2. /\ d.pc = "listeners" /\ d.result # "rule" /\ d.lb = lb.id /\ d.refs = Refs
          /\ d.svc = wk[w].svc /\ d.nodes = wk[w].nodes
      BY <1>2, <2>1 DEF Call
    <2>3. wk' = [wk EXCEPT ![w] = d]
      BY <1>2, <1>7, <2>1 DEF Take
    <2>4. validateService(d.svc) /\ FilterNodes(d.svc, d.nodes) # {} /\ Live(lb)
      BY <1>7, <2>2 DEF UpdateInvalid, IsReady, Live
    <2>5. \A p \in Own(pools) : \E r \in d.refs : r.id = p.id /\ r.name = p.name
      BY <2>2, RefsCurrent
    <2>6. CallGood(d, lb', listeners', pools')
      BY <1>1, <2>2, <2>4, <2>5 DEF CallGood, Executing
    <2> QED
      BY <1>1, <2>2, <2>3, <2>6, CallMoves
  <1> QED
    BY <1>3, <1>4, <1>5, <1>6, <1>7

\* The two listings, and the plan made from them.
LEMMA SerialList ==
    ASSUME TypeOK, PortInv, SerialInv, NEW w \in Worker,
           ListLoadBalancerListeners(w) \/ ListLoadBalancerPools(w)
    PROVE  SerialInv'
  <1>1. /\ ~Idle(w) /\ lb' = lb /\ listeners' = listeners /\ pools' = pools
        /\ CloudGood(listeners', pools') /\ wk[w].pc \in {"listeners", "pools"}
    BY DEF ListLoadBalancerListeners, ListLoadBalancerPools, cloud, Idle, SerialInv
  <1>2. /\ wk[w] \in Call /\ wk \in [Worker -> Call] /\ wk[w].result # "rule"
        /\ CallGood(wk[w], lb, listeners, pools)
    BY DEF TypeOK, SerialInv, RulesRespected
  <1>3. CASE Finish(w, "ok") \/ Finish(w, "error")
    BY <1>1, <1>3, CallEnds
  <1>4. CASE ListLoadBalancerListeners(w) /\ Found(w)
    <2>1. PICK d : d = [wk[w] EXCEPT !.pc = "pools", !.listeners = listeners]
      OBVIOUS
    <2>2. /\ d.pc = "pools" /\ d.result # "rule" /\ d.lb = wk[w].lb
          /\ d.refs = wk[w].refs /\ d.listeners = listeners
          /\ d.svc = wk[w].svc /\ d.nodes = wk[w].nodes
      BY <1>2, <2>1 DEF Call
    <2>3. wk' = [wk EXCEPT ![w] = d]
      BY <1>2, <1>4, <2>1 DEF ListLoadBalancerListeners
    <2>4. CallGood(d, lb', listeners', pools')
      BY <1>1, <1>2, <2>2 DEF CallGood, Executing, Working
    <2> QED
      BY <1>1, <2>2, <2>3, <2>4, CallMoves
  <1>5. CASE ListLoadBalancerPools(w) /\ ~PlanError(pools) /\ ~Finish(w, "ok")
    <2> DEFINE nodeList == NodeList(wk[w].svc, wk[w].nodes)
    <2>1. PICK plan : plan = Plan(wk[w].svc, nodeList, wk[w].listeners, pools)
      OBVIOUS
    <2>2. PICK d : d = [wk[w] EXCEPT !.pc = "exec", !.pools = pools, !.plan = plan]
      OBVIOUS
    <2>3. /\ d.pc = "exec" /\ d.result # "rule" /\ d.lb = wk[w].lb
          /\ d.refs = wk[w].refs /\ d.plan = plan
          /\ d.svc = wk[w].svc /\ d.nodes = wk[w].nodes
      BY <1>2, <2>2 DEF Call
    <2>4. CASE wk' = [wk EXCEPT ![w].pc = "exec", ![w].pools = pools, ![w].plan = plan]
      <3>1. wk' = [wk EXCEPT ![w] = d]
        BY <1>2, <2>2, <2>4
      <3>2. wk[w].pc = "pools" /\ wk[w].listeners = listeners
        BY <1>2, <1>5 DEF ListLoadBalancerPools, CallGood, Working
      <3>3. Sane(wk[w].svc, listeners, pools)
        BY <3>2, WorkSane DEF Working
      <3>4. /\ nodeList \subseteq Node
            /\ listeners \subseteq VpcLoadBalancerListener
        BY <1>2, NodeListType DEF TypeOK, Call
      <3>5. Own(pools) = pools
        BY <1>5 DEF PlanError, Own
      <3>6. \A l \in listeners : \E p \in pools : p.id = l.pool /\ p.name.port = l.port
        BY DEF PortInv, ListenerTargetsOwnPort
      <3>7. Given(wk[w].svc, nodeList, listeners, pools)
        BY <3>3, <3>4, <3>5, <3>6 DEF Given, Sane, CloudGood
      <3> HIDE DEF nodeList
      <3>8. PlanGood(wk[w].svc, nodeList, plan, listeners, pools)
        BY <2>1, <3>2, <3>7, PlanIsGood
      <3>9. CallGood(d, lb', listeners', pools')
        BY <1>1, <1>2, <2>3, <3>2, <3>8 DEF CallGood, Executing, Working, nodeList
      <3> QED
        BY <1>1, <2>3, <3>1, <3>9, CallMoves
    <2>5. CASE Finish(w, "error")
      BY <1>3, <2>5
    <2> QED
      BY <1>5, <2>1, <2>4, <2>5 DEF ListLoadBalancerPools
  <1> QED
    BY <1>3, <1>4, <1>5 DEF ListLoadBalancerListeners, ListLoadBalancerPools

\* The execution of a plan.
LEMMA SerialExec ==
    ASSUME TypeOK, PortInv, SerialInv, NEW w \in Worker, ExecUpdate(w)
    PROVE  SerialInv'
  <1>1. ~Idle(w) /\ wk[w].pc = "exec"
    BY DEF ExecUpdate, Idle
  <1>2. /\ wk[w] \in Call /\ wk \in [Worker -> Call] /\ wk[w].plan \subseteq Update
        /\ CallGood(wk[w], lb, listeners, pools) /\ CloudGood(listeners, pools)
    BY DEF TypeOK, SerialInv, Call
  <1>3. Sane(wk[w].svc, listeners, pools)
    BY <1>1, WorkSane DEF Working
  <1>4. /\ PlanGood(wk[w].svc, NodeList(wk[w].svc, wk[w].nodes), wk[w].plan,
                    listeners, pools)
        /\ \A p \in Own(pools) : \E r \in wk[w].refs : r.id = p.id /\ r.name = p.name
        /\ lb.id = wk[w].lb /\ Live(lb)
        /\ validateService(wk[w].svc) /\ FilterNodes(wk[w].svc, wk[w].nodes) # {}
    BY <1>1, <1>2 DEF CallGood, Working, Executing
  <1>5. PICK u \in wk[w].plan :
           /\ IsNext(u, wk[w].plan)
           /\ \/ Finish(w, "busy") /\ UNCHANGED cloud
              \/ ~Allowed(w, u)
              \/ Performed(w, u) /\ Advance(w, u)
    BY DEF ExecUpdate
  <1>6. Allowed(w, u)
    BY <1>2, <1>3, <1>4, <1>5, GoodAllowed
  <1>7. CASE Finish(w, "busy") /\ UNCHANGED cloud
    BY <1>1, <1>2, <1>7, CallEnds DEF cloud
  <1>8. CASE Performed(w, u) /\ Advance(w, u)
    <2>1. /\ PlanGood(wk[w].svc, NodeList(wk[w].svc, wk[w].nodes), wk[w].plan \ {u},
                      listeners', pools')
          /\ CloudGood(listeners', pools')
      BY <1>3, <1>4, <1>5, <1>8, PerformGood DEF Performed
    <2>2. PICK rest : rest = wk[w].plan \ {u}
      OBVIOUS
    <2>3. PICK d : d = [wk[w] EXCEPT !.plan = rest,
                           !.pc = IF rest = {} THEN "done" ELSE "get",
                           !.result = IF rest = {} THEN "ok" ELSE "none"]
      OBVIOUS
    <2>4. /\ d.pc \in {"done", "get"} /\ d.result # "rule" /\ d.plan = rest
          /\ d.lb = wk[w].lb /\ d.svc = wk[w].svc /\ d.nodes = wk[w].nodes
      BY <1>2, <2>3 DEF Call
    <2>5. wk' = [wk EXCEPT ![w] = d]
      BY <1>2, <1>8, <2>2, <2>3 DEF Advance
    <2>6. lb'.id = lb.id /\ Live(lb')
      BY <1>8 DEF Performed, TypeOK, Live
    <2>7. CallGood(d, lb', listeners', pools')
      BY <1>4, <2>1, <2>2, <2>4, <2>6 DEF CallGood, Working, Executing
    <2> QED
      BY <1>1, <2>1, <2>4, <2>5, <2>7, CallMoves
  <1> QED
    BY <1>5, <1>6, <1>7, <1>8

\* Reading the load balancer again between two updates.
LEMMA SerialGet ==
    ASSUME TypeOK, SerialInv, NEW w \in Worker,
           GetLoadBalancer(w) \/ WaitLoadBalancerReady(w)
    PROVE  SerialInv'
  <1>1. /\ ~Idle(w) /\ lb' = lb /\ listeners' = listeners /\ pools' = pools
        /\ CloudGood(listeners', pools') /\ wk[w].pc \in {"get", "wait"}
    BY DEF GetLoadBalancer, WaitLoadBalancerReady, cloud, Idle, SerialInv
  <1>2. /\ wk[w] \in Call /\ wk \in [Worker -> Call] /\ wk[w].result # "rule"
        /\ CallGood(wk[w], lb, listeners, pools)
    BY DEF TypeOK, SerialInv, RulesRespected
  <1>3. \/ Finish(w, "error") \/ Finish(w, "busy")
        \/ \E pc \in {"exec", "wait"}, n \in Nat :
              wk' = [wk EXCEPT ![w] = [wk[w] EXCEPT !.refs = Refs, !.polls = n, !.pc = pc]]
    <2>1. wk[w].polls + 1 \in Nat
      BY <1>2, BoundAssumption DEF Call
    <2>2. CASE GetLoadBalancer(w)
      BY <1>2, <2>2 DEF GetLoadBalancer
    <2>3. CASE WaitLoadBalancerReady(w)
      BY <1>2, <2>1, <2>3 DEF WaitLoadBalancerReady
    <2> QED
      BY <2>2, <2>3
  <1>4. ASSUME NEW pc \in {"exec", "wait"}, NEW n \in Nat,
               wk' = [wk EXCEPT ![w] = [wk[w] EXCEPT !.refs = Refs, !.polls = n, !.pc = pc]]
        PROVE  SerialInv'
    <2>1. PICK d : d = [wk[w] EXCEPT !.refs = Refs, !.polls = n, !.pc = pc]
      OBVIOUS
    <2>2. /\ d.pc = pc /\ d.result # "rule" /\ d.plan = wk[w].plan /\ d.refs = Refs
          /\ d.lb = wk[w].lb /\ d.svc = wk[w].svc /\ d.nodes = wk[w].nodes
      BY <1>2, <2>1 DEF Call
    <2>3. wk' = [wk EXCEPT ![w] = d]
      BY <1>4, <2>1
    <2>4. \A p \in Own(pools) : \E r \in d.refs : r.id = p.id /\ r.name = p.name
      BY <2>2, RefsCurrent
    <2>5. CallGood(d, lb', listeners', pools')
      BY <1>1, <1>2, <2>2, <2>4 DEF CallGood, Working, Executing
    <2> QED
      BY <1>1, <2>2, <2>3, <2>5, CallMoves
  <1>5. CASE Finish(w, "error") \/ Finish(w, "busy")
    BY <1>1, <1>5, CallEnds
  <1> QED
    BY <1>3, <1>4, <1>5

\* Every step of a call keeps the invariant.
LEMMA SerialCall ==
    ASSUME TypeOK, PortInv, SerialInv, NEW w \in Worker,
           CallStep(w) \/ WaitTimeout(w) \/ ApiFails(w) \/ ReplyLost(w)
    PROVE  SerialInv'
  <1>1. CloudGood(listeners, pools) /\ CallGood(wk[w], lb, listeners, pools)
    BY DEF SerialInv
  <1>2. CASE CreateLoadBalancer(w)
    <2>1. ~Idle(w)
      BY <1>2 DEF CreateLoadBalancer, Idle
    <2>2. CASE Finish(w, "error") /\ UNCHANGED cloud
      BY <1>1, <2>1, <2>2, CallEnds DEF cloud
    <2>3. CASE ~CreateInvalid(wk[w]) /\ CreateRequest(w) /\ Finish(w, "ok")
      BY <2>1, <2>3, CreateGood, CallEnds
    <2> QED
      BY <1>2, <2>2, <2>3 DEF CreateLoadBalancer
  <1>3. CASE DeleteLoadBalancer(w)
    <2>1. ~Idle(w)
      BY <1>3 DEF DeleteLoadBalancer, Idle
    <2>2. CloudGood(listeners', pools') /\ (Finish(w, "ok") \/ Finish(w, "busy"))
      BY <1>1, <1>3 DEF DeleteLoadBalancer, DeleteRequest, cloud
    <2> QED
      BY <2>1, <2>2, CallEnds
  <1>4. CASE Return(w)
    <2>1. PICK d : d = IdleCall
      OBVIOUS
    <2>2. d.pc = "idle" /\ d.result = "none"
      BY <2>1 DEF IdleCall
    <2>3. /\ ~Idle(w) /\ wk' = [wk EXCEPT ![w] = d]
          /\ listeners' = listeners /\ pools' = pools
      BY <1>4, <2>1 DEF Return, Idle, cloud
    <2>4. CallGood(d, lb', listeners', pools')
      BY <2>2 DEF CallGood, Working
    <2> QED
      BY <1>1, <2>2, <2>3, <2>4, CallMoves
  <1>5. CASE WaitTimeout(w) \/ ApiFails(w)
    <2>1. /\ ~Idle(w) /\ (Finish(w, "busy") \/ Finish(w, "error"))
          /\ listeners' = listeners /\ pools' = pools
      BY <1>5 DEF WaitTimeout, ApiFails, Idle, cloud
    <2> QED
      BY <1>1, <2>1, CallEnds
  <1>6. CASE ReplyLost(w)
    <2>1. ~Idle(w) /\ Finish(w, "error")
      BY <1>6 DEF ReplyLost, Idle
    <2>2. CASE /\ wk[w].pc = "exec"
               /\ \E u \in wk[w].plan : IsNext(u, wk[w].plan) /\ Performed(w, u)
      <3>1. Sane(wk[w].svc, listeners, pools)
        BY <2>2, WorkSane DEF Working
      <3>2. PlanGood(wk[w].svc, NodeList(wk[w].svc, wk[w].nodes), wk[w].plan,
                     listeners, pools)
        BY <1>1, <2>2 DEF CallGood, Working, Executing
      <3>3. CloudGood(listeners', pools')
        BY <2>2, <3>1, <3>2, PerformGood DEF Performed
      <3> QED
        BY <2>1, <3>3, CallEnds
    <2>3. CASE ~CreateInvalid(wk[w]) /\ CreateRequest(w)
      BY <2>1, <2>3, CreateGood, CallEnds
    <2>4. CASE DeleteRequest
      BY <1>1, <2>1, <2>4, CallEnds DEF DeleteRequest
    <2> QED
      BY <1>6, <2>2, <2>3, <2>4 DEF ReplyLost
  <1> QED
    BY <1>2, <1>3, <1>4, <1>5, <1>6, SerialFind, SerialList, SerialExec, SerialGet
       DEF CallStep

\* So does every other step, when no two calls overlap.
LEMMA SerialOutside ==
    ASSUME ~Overlap, TypeOK, SerialInv,
           \/ StartEnsure \/ StartDelete \/ StartUpdate
           \/ ChangeService \/ ToggleWanted \/ ChangeNodes
           \/ CloudReady \/ CloudDeleted \/ Maintenance
           \/ AddForeignPool \/ RemoveForeignPool \/ Restart
    PROVE  SerialInv'
  <1>1. /\ CloudGood(listeners, pools) /\ OneCall /\ RulesRespected
        /\ \A w \in Worker : CallGood(wk[w], lb, listeners, pools)
        /\ wk \in [Worker -> Call] /\ \A w \in Worker : wk[w] \in Call
    BY DEF SerialInv, TypeOK
  <1>2. CASE StartEnsure \/ StartDelete \/ StartUpdate
    <2>1. PICK w, op, svc, nodes :
             w \in Worker /\ Begin(w, op, svc, nodes) /\ \A v \in Worker : Idle(v)
      BY <1>2 DEF StartEnsure, StartDelete, StartUpdate, MayStart, Worker
    <2>2. PICK d : d = [IdleCall EXCEPT !.op = op, !.svc = svc, !.nodes = nodes,
                    !.pc = IF Refused(op, svc, nodes) THEN "done" ELSE "find",
                    !.result = IF Refused(op, svc, nodes) THEN "error" ELSE "none"]
      OBVIOUS
    <2>3. d.pc \in {"done", "find"} /\ d.result # "rule"
      BY <2>2 DEF IdleCall
    <2>4. wk' = [wk EXCEPT ![w] = d]
      BY <2>1, <2>2 DEF Begin
    <2>5. listeners' = listeners /\ pools' = pools
      BY <1>2 DEF StartEnsure, StartDelete, StartUpdate, cloud
    <2>6. CallGood(d, lb', listeners', pools')
      BY <2>3 DEF CallGood, Working
    <2> QED
      BY <1>1, <2>1, <2>3, <2>4, <2>5, <2>6, CallMoves
  <1>3. ASSUME wk' = wk, CloudGood(listeners', pools'),
               \A w \in Worker : CallGood(wk[w], lb', listeners', pools')
        PROVE  SerialInv'
    BY <1>1, <1>3 DEF SerialInv, OneCall, Idle, RulesRespected
  <1>4. CASE ChangeService \/ ToggleWanted \/ ChangeNodes
    BY <1>1, <1>3, <1>4 DEF ChangeService, ToggleWanted, ChangeNodes, cloud
  <1>5. CASE CloudReady \/ Maintenance
    <2>1. /\ wk' = wk /\ listeners' = listeners /\ pools' = pools
          /\ lb'.id = lb.id /\ Live(lb')
      BY <1>5 DEF CloudReady, Maintenance, TypeOK, Live
    <2>2. \A w \in Worker : CallGood(wk[w], lb', listeners', pools')
      BY <1>1, <2>1 DEF CallGood
    <2> QED
      BY <1>1, <1>3, <2>1, <2>2
  <1>6. CASE CloudDeleted
    <2>1. \A w \in Worker : wk[w].pc \notin Working
      BY <1>1, <1>6 DEF CloudDeleted, CallGood, Live
    <2>2. CloudGood(listeners', pools') /\ wk' = wk
      BY <1>6 DEF CloudDeleted, CloudGood, Own
    <2> QED
      BY <1>3, <2>1, <2>2 DEF CallGood
  <1>7. CASE AddForeignPool \/ RemoveForeignPool
    <2>1. /\ wk' = wk /\ lb' = lb /\ listeners' = listeners
          /\ Own(pools') = Own(pools)
          /\ \A p \in pools' \ pools : \A q \in pools : p.id # q.id
      <3>1. CASE AddForeignPool
        <4>1. PICK new : /\ new.id \in FreshIds /\ new.name.protocol = "other"
                         /\ pools' = pools \cup {new}
          BY <3>1 DEF AddForeignPool
        <4>2. \A q \in pools : new.id # q.id
          BY <4>1 DEF FreshIds, UsedIds
        <4>3. Own(pools') = Own(pools)
          BY <4>1 DEF Own, Parses
        <4> QED
          BY <3>1, <4>1, <4>2, <4>3 DEF AddForeignPool
      <3>2. CASE RemoveForeignPool
        BY <3>2 DEF RemoveForeignPool, Own, Parses
      <3> QED
        BY <1>7, <3>1, <3>2
    <2>2. CloudGood(listeners', pools')
      BY <1>1, <2>1 DEF CloudGood
    <2>3. ASSUME NEW w \in Worker
          PROVE  CallGood(wk[w], lb', listeners', pools')
      <3>1. CASE wk[w].pc \in Executing
        <4>1. /\ PlanGood(wk[w].svc, NodeList(wk[w].svc, wk[w].nodes), wk[w].plan,
                          listeners, pools)
              /\ validateService(wk[w].svc) /\ wk[w].svc \in Services
          BY <1>1, <3>1 DEF CallGood, Working, Executing, Call
        <4>2. PlanGood(wk[w].svc, NodeList(wk[w].svc, wk[w].nodes), wk[w].plan,
                       listeners', pools')
          BY <2>1, <4>1, ForeignGood
        <4> QED
          BY <1>1, <2>1, <4>2 DEF CallGood
      <3>2. CASE wk[w].pc \notin Executing
        BY <1>1, <2>1, <3>2 DEF CallGood
      <3> QED
        BY <3>1, <3>2
    <2> QED
      BY <1>3, <2>1, <2>2, <2>3
  <1>8. CASE Restart
    <2>1. \A w \in Worker : wk'[w].pc = "idle" /\ wk'[w].result = "none"
      BY <1>8 DEF Restart, IdleCall
    <2>2. listeners' = listeners /\ pools' = pools
      BY <1>8 DEF Restart, cloud
    <2> QED
      BY <1>1, <2>1, <2>2 DEF SerialInv, OneCall, Idle, RulesRespected, CallGood, Working
  <1> QED
    BY <1>2, <1>4, <1>5, <1>6, <1>7, <1>8

\* The invariant of serial calls.
THEOREM SerialCorrect ==
    ASSUME ~Overlap
    PROVE  Spec => []SerialInv
  <1>1. Init => SerialInv
    BY DEF Init, SerialInv, OneCall, Idle, RulesRespected, CallGood, CloudGood, Own,
       Working, IdleCall
  <1>2. TypeOK /\ PortInv /\ SerialInv /\ [Next]_vars => SerialInv'
    <2> SUFFICES ASSUME TypeOK, PortInv, SerialInv, [Next]_vars
                 PROVE  SerialInv'
      OBVIOUS
    <2>1. CASE UNCHANGED vars
      BY <2>1 DEF vars, SerialInv, OneCall, Idle, RulesRespected
    <2>2. CASE \E w \in Worker :
                  CallStep(w) \/ WaitTimeout(w) \/ ApiFails(w) \/ ReplyLost(w)
      BY <2>2, SerialCall
    <2>3. CASE ~\E w \in Worker :
                  CallStep(w) \/ WaitTimeout(w) \/ ApiFails(w) \/ ReplyLost(w)
      BY <2>1, <2>3, SerialOutside DEF Next
    <2> QED
      BY <2>2, <2>3
  <1> QED
    BY <1>1, <1>2, TypeCorrect, PortCorrect, PTL DEF Spec

\* No update of UpdateLoadBalancer is refused by a rule of the VPC, for any
\* services, nodes, failures and restarts, while calls do not overlap.
THEOREM RulesKept ==
    ASSUME ~Overlap
    PROVE  Spec => []RulesRespected
  <1>1. SerialInv => RulesRespected
    BY DEF SerialInv
  <1> QED
    BY <1>1, SerialCorrect, PTL

\* No external port ever has two pools of this provider, for any services,
\* nodes, failures and restarts, while calls do not overlap.
THEOREM PoolsUnique ==
    ASSUME ~Overlap
    PROVE  Spec => []OnePoolPerPort
  <1>1. SerialInv => OnePoolPerPort
    BY DEF SerialInv, CloudGood, OnePoolPerPort, OwnPools, Own
  <1> QED
    BY <1>1, SerialCorrect, PTL

-----------------------------------------------------------------------------
(* A pool never loses its last member *)

\* Of the nodes a service selects, one at least has an address.
SomeAddress ==
    \A svc \in Services, nodes \in SUBSET Node :
        FilterNodes(svc, nodes) # {} => NodeList(svc, nodes) # {}

\* A step from pools ps to new leaves no pool without members that had some.
KeepsMembers(ps, new) ==
    \A p \in ps, q \in new : p.id = q.id /\ p.members # {} => q.members # {}

\* Performing the next update of a good plan.
LEMMA PerformKeepsMembers ==
    ASSUME NEW w \in Worker, NEW u,
           Sane(wk[w].svc, listeners, pools),
           PlanGood(wk[w].svc, NodeList(wk[w].svc, wk[w].nodes), wk[w].plan,
                    listeners, pools),
           NodeList(wk[w].svc, wk[w].nodes) # {},
           IsNext(u, wk[w].plan), Perform(w, u)
    PROVE  KeepsMembers(pools, pools')
  <1>1. u \in wk[w].plan
    BY DEF IsNext
  <1>2. \A p \in pools : p \in VpcLoadBalancerPool
    BY DEF Sane
  <1>3. \A p, q \in pools : p.id = q.id => p = q
    BY DEF Sane
  <1>4. ASSUME NEW f, \A p \in pools : /\ f[p].id = p.id
                                       /\ p.members # {} => f[p].members # {},
               pools' = {f[p] : p \in pools}
        PROVE  KeepsMembers(pools, pools')
    BY <1>3, <1>4 DEF KeepsMembers
  <1>5. CASE pools' \subseteq pools
    BY <1>3, <1>5 DEF KeepsMembers
  <1>6. CASE createLoadBalancerListener(w, u) \/ deleteLoadBalancerListener(w, u)
    BY <1>5, <1>6 DEF createLoadBalancerListener, deleteLoadBalancerListener
  <1>7. CASE deleteLoadBalancerPool(w, u)
    BY <1>5, <1>7 DEF deleteLoadBalancerPool
  <1>8. CASE createLoadBalancerPool(w, u)
    <2>1. PICK new : new.id \in FreshIds /\ pools' = pools \cup {new}
      BY <1>8 DEF createLoadBalancerPool
    <2>2. \A p \in pools : p.id # new.id
      BY <2>1 DEF FreshIds, UsedIds
    <2> QED
      BY <1>3, <2>1, <2>2 DEF KeepsMembers
  <1>9. CASE createLoadBalancerPoolMember(w, u)
    <2> DEFINE f == [p \in pools |-> IF p.id = u.pool
                                    THEN [p EXCEPT !.members = @ \cup {u.member}] ELSE p]
    <2>1. \A p \in pools : f[p].id = p.id /\ (p.members # {} => f[p].members # {})
      BY <1>2 DEF VpcLoadBalancerPool
    <2>2. pools' = {f[p] : p \in pools}
      BY <1>9 DEF createLoadBalancerPoolMember
    <2> HIDE DEF f
    <2> QED
      BY <1>4, <2>1, <2>2
  <1>10. CASE deleteLoadBalancerPoolMember(w, u)
    <2> DEFINE f == [p \in pools |-> IF p.id = u.pool
                                    THEN [p EXCEPT !.members = @ \ {u.member}] ELSE p]
    <2>1. \A p \in pools : p.id = u.pool =>
             u.member \in p.members /\ p.members # {u.member}
      BY <1>1, <1>10 DEF deleteLoadBalancerPoolMember, PlanGood, MembersNext, MemberCmd
    <2>2. \A p \in pools : f[p].id = p.id /\ (p.members # {} => f[p].members # {})
      BY <1>2, <2>1 DEF VpcLoadBalancerPool
    <2>3. pools' = {f[p] : p \in pools}
      BY <1>10 DEF deleteLoadBalancerPoolMember
    <2> HIDE DEF f
    <2> QED
      BY <1>4, <2>2, <2>3
  <1>11. CASE replaceLoadBalancerPoolMembers(w, u)
    <2> DEFINE m == genLoadBalancerMembers(u.name.nodePort,
                       NodeList(wk[w].svc, wk[w].nodes))
               f == [p \in pools |-> IF p.id = u.pool
                                    THEN [p EXCEPT !.members = m] ELSE p]
    <2>1. m # {}
      BY DEF genLoadBalancerMembers
    <2> HIDE DEF m
    <2>2. \A p \in pools : f[p].id = p.id /\ (p.members # {} => f[p].members # {})
      BY <1>2, <2>1 DEF VpcLoadBalancerPool
    <2>3. pools' = {f[p] : p \in pools}
      BY <1>11 DEF replaceLoadBalancerPoolMembers, m
    <2> HIDE DEF f
    <2> QED
      BY <1>4, <2>2, <2>3
  <1>12. CASE updateLoadBalancerPool(w, u)
    <2> DEFINE requested == IF wk[w].svc.proxyProtocol THEN "v1" ELSE "disabled"
               differs == \E q \in wk[w].pools : q.id = u.pool /\ q.proxy # requested
               hm == genLoadBalancerHealthMonitor(u.name.nodePort,
                        getServiceHealthCheckNodePort(wk[w].svc))
               f == [p \in pools |-> IF p.id = u.pool
                       THEN [p EXCEPT !.name = u.name, !.hm = hm,
                                      !.proxy = IF differs THEN requested ELSE @]
                       ELSE p]
    <2>1. pools' = {f[p] : p \in pools}
      BY <1>12 DEF updateLoadBalancerPool
    <2> HIDE DEF requested, differs, hm
    <2>2. \A p \in pools : f[p].id = p.id /\ (p.members # {} => f[p].members # {})
      BY <1>2 DEF VpcLoadBalancerPool
    <2> HIDE DEF f
    <2> QED
      BY <1>4, <2>1, <2>2
  <1> QED
    BY <1>6, <1>7, <1>8, <1>9, <1>10, <1>11, <1>12 DEF Perform

\* No step takes the last member out of a pool that stays, while calls do not
\* overlap and of the nodes a service selects one at least has an address: a
\* member is removed by itself only where others stay, and otherwise the
\* members are replaced at once (step 8).
THEOREM NeverEmptied ==
    ASSUME ~Overlap, SomeAddress
    PROVE  Spec => NeverEmptiesPool
  <1>1. TypeOK /\ PortInv /\ RoutesInv /\ SerialInv /\ [Next]_vars
           => KeepsMembers(pools, pools')
    <2> SUFFICES ASSUME TypeOK, PortInv, RoutesInv, SerialInv, [Next]_vars
                 PROVE  KeepsMembers(pools, pools')
      OBVIOUS
    <2>1. \A p, q \in pools : p.id = q.id => p = q
      BY DEF PortInv, UniqueIds
    <2>2. CASE pools' \subseteq pools
      BY <2>1, <2>2 DEF KeepsMembers
    <2>3. ASSUME NEW w \in Worker, NEW u, wk[w].pc = "exec",
                 IsNext(u, wk[w].plan), Perform(w, u)
          PROVE  KeepsMembers(pools, pools')
      <3>1. Sane(wk[w].svc, listeners, pools)
        BY <2>3, WorkSane DEF Working
      <3>2. CallGood(wk[w], lb, listeners, pools)
        BY DEF SerialInv
      <3>3. /\ PlanGood(wk[w].svc, NodeList(wk[w].svc, wk[w].nodes), wk[w].plan,
                        listeners, pools)
            /\ FilterNodes(wk[w].svc, wk[w].nodes) # {}
        BY <2>3, <3>2 DEF CallGood, Working, Executing
      <3>4. NodeList(wk[w].svc, wk[w].nodes) # {}
        BY <3>3 DEF SomeAddress, TypeOK, Call
      <3> QED
        BY <2>3, <3>1, <3>3, <3>4, PerformKeepsMembers
    <2>4. CASE lb.status = "none"
      BY <2>4 DEF RoutesInv, NothingLeft, KeepsMembers
    <2>5. CASE CloudDeleted \/ RemoveForeignPool
      BY <2>2, <2>5 DEF CloudDeleted, RemoveForeignPool
    <2>6. CASE AddForeignPool
      <3>1. PICK new : new.id \in FreshIds /\ pools' = pools \cup {new}
        BY <2>6 DEF AddForeignPool
      <3>2. \A p \in pools : p.id # new.id
        BY <3>1 DEF FreshIds, UsedIds
      <3> QED
        BY <2>1, <3>1, <3>2 DEF KeepsMembers
    <2> QED
      BY <2>2, <2>3, <2>4, <2>5, <2>6, CloudEffect
  <1>2. Spec => []RoutesInv
    <2>1. Init => RoutesInv
      BY DEF Init, RoutesInv, NothingLeft, UniquePorts
    <2> QED
      BY <2>1, TypeCorrect, RoutesInvStep, PTL DEF Spec
  <1>3. [](TypeOK /\ PortInv /\ RoutesInv /\ SerialInv) /\ [][Next]_vars
           => [][KeepsMembers(pools, pools')]_vars
    BY <1>1, PTL
  <1> QED
    BY <1>2, <1>3, TypeCorrect, PortCorrect, SerialCorrect, PTL
       DEF Spec, NeverEmptiesPool, KeepsMembers

-----------------------------------------------------------------------------
(* A call that succeeds has done what was asked.  What follows assumes of  *)
(* the services what the API server gives them, a health check port for a  *)
(* local traffic policy, and of subnets that an identifier tells one.      *)

LocalHealth ==
    \A svc \in Services : svc.policy = "Local" => svc.healthCheckNodePort > 0

UniqueSubnets == \A s, t \in Subnets : s.id = t.id => s = t

\* The health monitor and the members svc wants for a pool of this name.
Monitor(svc, name) ==
    genLoadBalancerHealthMonitor(name.nodePort, getServiceHealthCheckNodePort(svc))

Wanted(nodeList, name) == genLoadBalancerMembers(name.nodePort, nodeList)

\* What an update makes of a pool's members.
After(u, members, nodeList) ==
    CASE u.cmd = "REPLACE-POOL-MEMBERS" -> Wanted(nodeList, u.name)
      [] u.cmd = "CREATE-POOL-MEMBER" -> members \cup {u.member}
      [] u.cmd = "DELETE-POOL-MEMBER" -> members \ {u.member}

\* Every port has its listener or gets it, every other listener goes.
ListenersLead(svc, plan, ls) ==
    /\ \A kp \in svc.ports :
          \/ \E l \in ls : l.port = kp.port
          \/ \E u \in plan : u.cmd = "CREATE-LISTENER" /\ u.name.port = kp.port
    /\ \A l \in ls : ~HasPort(svc, l.port) =>
          \E u \in plan : u.cmd = "DELETE-LISTENER" /\ u.listener = l
    /\ \A u \in plan : u.cmd = "DELETE-LISTENER" => ~HasPort(svc, u.listener.port)

\* Every port has its pool or gets it, every other pool goes.
PoolsLead(svc, plan, own) ==
    /\ \A kp \in svc.ports :
          \/ \E p \in own : p.name.port = kp.port
          \/ \E u \in plan : u.cmd = "CREATE-POOL" /\ u.name.port = kp.port
    /\ \A p \in own : ~HasPort(svc, p.name.port) =>
          \E u \in plan : u.cmd = "DELETE-POOL" /\ u.pool = p.id

\* Every pool that stays has its name and health monitor or gets them.
NamesLead(svc, plan, own) ==
    \A p \in own : HasPort(svc, p.name.port) =>
        \/ p.name \in getServicePoolNames(svc) /\ p.hm = Monitor(svc, p.name)
        \/ \E u \in plan : u.cmd = "UPDATE-POOL" /\ u.pool = p.id

\* Every pool that stays has its members or gets them, and whatever sets them
\* sets them right.
MembersLead(svc, nodeList, plan, own) ==
    \A p \in own, n \in getServicePoolNames(svc) : n.port = p.name.port =>
        /\ \/ p.members = Wanted(nodeList, n)
           \/ \E u \in plan : u.cmd \in SetsMembers /\ u.pool = p.id
        /\ \A u \in plan : u.cmd \in SetsMembers /\ u.pool = p.id =>
              After(u, p.members, nodeList) = Wanted(nodeList, n)

\* The plan leads from the listeners ls and this provider's pools own to what
\* svc and nodeList ask for.
Leads(svc, nodeList, plan, ls, own) ==
    /\ ListenersLead(svc, plan, ls)
    /\ PoolsLead(svc, plan, own)
    /\ NamesLead(svc, plan, own)
    /\ MembersLead(svc, nodeList, plan, own)

\* Placed, of the load balancer b.
PlacedAs(svc, b) ==
    /\ b.public = svc.public
    /\ \A i \in b.subnets : \E s \in Subnets :
          /\ s.id = i /\ s.vpc = VpcName
          /\ svc.subnets # {} => svc.subnets \cap {s.id, s.name, s.cidr} # {}
    /\ \A e \in svc.subnets : \E s \in Subnets :
          s.id \in b.subnets /\ e \in {s.id, s.name, s.cidr}

\* A load balancer is in subnets of the cluster's VPC.
InVpc(b) == \A i \in b.subnets : \E s \in Subnets : s.id = i /\ s.vpc = VpcName

Gone(b) == b.status \in {"none", "delete_pending"}

\* A call at work has a load balancer in the right place and a plan that
\* leads to what it wants; one that has succeeded has it.
CallLeads(c, b, ls, own) ==
    LET nodeList == NodeList(c.svc, c.nodes)
        ok == c.pc = "done" /\ c.result = "ok"
    IN  /\ c.pc = "create" => c.op = "ensure"
        /\ c.pc = "delete" => c.op = "delete"
        /\ c.pc \in Working => c.op \in {"ensure", "update"} /\ PlacedAs(c.svc, b)
        /\ c.pc \in Executing => Leads(c.svc, nodeList, c.plan, ls, own)
        /\ ok /\ c.op \in {"ensure", "update"} /\ b.status # "none" =>
              /\ validateService(c.svc) /\ PlacedAs(c.svc, b)
              /\ Leads(c.svc, nodeList, {}, ls, own)
        /\ ok => (c.op = "ensure" => ~Gone(b)) /\ (c.op = "delete" => Gone(b))

LeadInv ==
    /\ InVpc(lb)
    /\ \A w \in Worker : CallLeads(wk[w], lb, listeners, Own(pools))

\* The member updates of this name are all of the pool id, deletions first.
Grouped(us, name, id) ==
    \A x \in us : x.cmd \in MemberCmd /\ x.name = name =>
        x.pool = id /\ x.at = <<IF x.cmd = "DELETE-POOL-MEMBER" THEN 3 ELSE 5, id, 0>>

\* Several member updates of one name become a replacement.
LEMMA StepEightReplaces ==
    ASSUME NEW us, NEW v \in us, v.cmd \in MemberCmd, NEW id \in Nat, Grouped(us, v.name, id)
    PROVE  \E u \in checkForMultiplePoolMemberUpdates(us) :
              u.cmd \in SetsMembers /\ u.pool = id
  <1> DEFINE memberUpdates == {x \in us : x.cmd \in MemberCmd}
             multiple == {x \in memberUpdates :
                             \E y \in memberUpdates : y # x /\ y.name = x.name}
             first == {x \in multiple :
                          \A y \in multiple : y.name = x.name => ~Before(y.at, x.at)}
             plan == checkForMultiplePoolMemberUpdates(us)
             R(x) == [at |-> x.at, cmd |-> "REPLACE-POOL-MEMBERS",
                      name |-> x.name, pool |-> x.pool]
  <1>1. plan = (us \ multiple) \cup {R(x) : x \in first}
    BY DEF checkForMultiplePoolMemberUpdates
  <1>2. \A x : R(x).cmd = "REPLACE-POOL-MEMBERS" /\ R(x).pool = x.pool
    OBVIOUS
  <1>3. "REPLACE-POOL-MEMBERS" \in SetsMembers /\ MemberCmd \subseteq SetsMembers
    BY DEF SetsMembers
  <1>4. CASE v \notin multiple
    <2>1. v \in plan
      BY <1>1, <1>4
    <2>2. v.pool = id
      BY DEF Grouped
    <2> QED
      BY <1>3, <2>1, <2>2
  <1>5. CASE v \in multiple
    <2> DEFINE same == {x \in multiple : x.name = v.name}
    <2>1. \A x \in same : /\ x.pool = id
                          /\ x.at = <<IF x.cmd = "DELETE-POOL-MEMBER" THEN 3 ELSE 5, id, 0>>
      <3> SUFFICES ASSUME NEW x \in same
                   PROVE  /\ x.pool = id
                          /\ x.at = <<IF x.cmd = "DELETE-POOL-MEMBER" THEN 3 ELSE 5, id, 0>>
        OBVIOUS
      <3>1. x \in us /\ x.cmd \in MemberCmd /\ x.name = v.name
        OBVIOUS
      <3> QED
        BY <3>1 DEF Grouped
    <2>2. PICK x \in same : \A y \in same : y.at[1] >= x.at[1]
      <3>1. \A y \in same : y.at[1] = IF y.cmd = "DELETE-POOL-MEMBER" THEN 3 ELSE 5
        BY <2>1
      <3>2. v \in same
        BY <1>5
      <3> HIDE DEF same
      <3>3. CASE \E y \in same : y.cmd = "DELETE-POOL-MEMBER"
        BY <3>1, <3>3
      <3>4. CASE \A y \in same : y.cmd # "DELETE-POOL-MEMBER"
        BY <3>1, <3>2, <3>4
      <3> QED
        BY <3>3, <3>4
    <2>3. ASSUME NEW y \in multiple, y.name = x.name
          PROVE  ~Before(y.at, x.at)
      <3>1. y \in same
        BY <2>3
      <3>2. PICK i \in {3, 5} : y.at = <<i, id, 0>>
        BY <2>1, <3>1
      <3>3. PICK j \in {3, 5} : x.at = <<j, id, 0>>
        BY <2>1
      <3>4. /\ y.at[1] = i /\ y.at[2] = id /\ y.at[3] = 0
            /\ x.at[1] = j /\ x.at[2] = id /\ x.at[3] = 0
        BY <3>2, <3>3
      <3> HIDE DEF same
      <3>5. y.at[1] >= x.at[1]
        BY <2>2, <3>1
      <3>6. i >= j
        BY <3>4, <3>5
      <3> QED
        BY <3>4, <3>6 DEF Before
    <2>4. x \in first
      BY <2>3
    <2>5. R(x) \in plan
      BY <1>1, <2>4
    <2> HIDE DEF R, plan
    <2>6. R(x).pool = id
      BY <1>2, <2>1
    <2> QED
      BY <1>2, <1>3, <2>5, <2>6 DEF plan
  <1> QED
    BY <1>4, <1>5

\* A plan made from what the VPC holds leads to what is asked for.
LEMMA PlanLeads ==
    ASSUME LocalHealth, NEW svc, NEW nodeList, NEW ls, NEW ps,
           Given(svc, nodeList, ls, ps)
    PROVE  Leads(svc, nodeList, Plan(svc, nodeList, ls, ps), ls, ps)
  <1> DEFINE us == UpdatesRequired(svc, nodeList, ls, ps)
             plan == Plan(svc, nodeList, ls, ps)
             names == getServicePoolNames(svc)
  <1>1. /\ svc \in Services /\ validateService(svc) /\ ps \subseteq VpcLoadBalancerPool
        /\ \A p \in ps : p.name.protocol = "tcp"
        /\ \A p, q \in ps : p.id = q.id => p = q
    BY DEF Given
  <1>2. /\ \A n \in names : HasPort(svc, n.port)
        /\ \A m, n \in names : m.port = n.port => m = n
    BY <1>1, WantedNames
  <1>3. \A kp \in svc.ports : /\ genLoadBalancerPoolName(kp) \in names
                              /\ genLoadBalancerPoolName(kp).port = kp.port
                              /\ genLoadBalancerPoolName(kp).nodePort = kp.nodePort
    BY <1>1, PortOfName
  <1>4. /\ \A u \in us : u.cmd \notin MemberCmd => u \in plan
        /\ \A u \in plan : u.cmd \notin SetsMembers => u \in us
        /\ \A u \in plan : u.cmd \in MemberCmd =>
              /\ u \in us
              /\ \A v \in us : v.cmd \in MemberCmd /\ v.name = u.name => v = u
        /\ \A u \in plan : u.cmd = "REPLACE-POOL-MEMBERS" =>
              \/ u \in us
              \/ \E m, v \in us :
                    /\ m.cmd \in MemberCmd /\ v.cmd \in MemberCmd /\ v # m
                    /\ v.name = m.name /\ u.name = m.name /\ u.pool = m.pool
    BY StepEight DEF Plan
  <1>5. /\ \A u \in us : u.cmd = "DELETE-LISTENER" => \E l \in ls : DeletesListener(svc, u, l)
        /\ \A u \in us : u.cmd = "DELETE-POOL-MEMBER" =>
              \E p \in ps : DeletesMember(svc, nodeList, u, p)
        /\ \A u \in us : u.cmd = "REPLACE-POOL-MEMBERS" =>
              \E p \in ps : ReplacesMembers(svc, u, p)
        /\ \A u \in us : u.cmd = "CREATE-POOL-MEMBER" =>
              \E p \in ps : CreatesMember(svc, nodeList, u, p)
        /\ \A u \in us : u.cmd \in MemberCmd =>
              \E p \in ps : p.name \in names /\ u.name = p.name /\ u.pool = p.id
    BY PlanOf
  <1>6. /\ \A u : (\E l \in ls : DeletesListener(svc, u, l)) => u \in us
        /\ \A u : (\E p \in ps : DeletesPool(svc, u, p)) => u \in us
        /\ \A u : (\E p \in ps : DeletesMember(svc, nodeList, u, p)) => u \in us
        /\ \A u : (\E p \in ps : UpdatesPool(svc, u, p)) => u \in us
        /\ \A u : (\E p \in ps : ReplacesMembers(svc, u, p)) => u \in us
        /\ \A u : (\E p \in ps : CreatesMember(svc, nodeList, u, p)) => u \in us
        /\ \A u : CreatesPool(svc, u, ps) => u \in us
        /\ \A u : CreatesListener(svc, u, ls) => u \in us
    BY UpdatesOf
  <1>7. /\ {"DELETE-LISTENER", "DELETE-POOL", "UPDATE-POOL", "CREATE-POOL",
            "CREATE-LISTENER"} \cap SetsMembers = {}
        /\ {"DELETE-LISTENER", "DELETE-POOL", "UPDATE-POOL", "CREATE-POOL",
            "CREATE-LISTENER", "REPLACE-POOL-MEMBERS"} \cap MemberCmd = {}
        /\ MemberCmd = {"CREATE-POOL-MEMBER", "DELETE-POOL-MEMBER"}
        /\ SetsMembers = {"CREATE-POOL-MEMBER", "DELETE-POOL-MEMBER", "REPLACE-POOL-MEMBERS"}
    BY DEF SetsMembers, MemberCmd
  <1>8. \A v \in us : v.cmd \in MemberCmd =>
           \E u \in plan : u.cmd \in SetsMembers /\ u.pool = v.pool
    <2> SUFFICES ASSUME NEW v \in us, v.cmd \in MemberCmd
                 PROVE  \E u \in plan : u.cmd \in SetsMembers /\ u.pool = v.pool
      OBVIOUS
    <2>1. PICK p \in ps : p.name \in names /\ v.name = p.name /\ v.pool = p.id
      BY <1>5
    <2>2. \A q \in ps : q.name = p.name => q = p
      BY DEF Given
    <2>3. Grouped(us, v.name, v.pool)
      <3> SUFFICES ASSUME NEW x \in us, x.cmd \in MemberCmd, x.name = v.name
                   PROVE  /\ x.pool = v.pool
                          /\ x.at = <<IF x.cmd = "DELETE-POOL-MEMBER" THEN 3 ELSE 5, v.pool, 0>>
        BY DEF Grouped
      <3>1. x.pool = v.pool
        BY <1>5, <2>1, <2>2
      <3>2. CASE x.cmd = "DELETE-POOL-MEMBER"
        <4>1. PICK q \in ps : DeletesMember(svc, nodeList, x, q)
          BY <1>5, <3>2
        <4>2. x.at = <<3, x.pool, 0>>
          BY <4>1 DEF DeletesMember
        <4> QED
          BY <3>1, <3>2, <4>2
      <3>3. CASE x.cmd = "CREATE-POOL-MEMBER"
        <4>1. PICK q \in ps : CreatesMember(svc, nodeList, x, q)
          BY <1>5, <3>3
        <4>2. x.at = <<5, x.pool, 0>>
          BY <4>1 DEF CreatesMember
        <4> QED
          BY <3>1, <3>3, <4>2
      <3> QED
        BY <1>7, <3>2, <3>3
    <2>4. v.pool \in Nat
      BY <1>1, <2>1, PoolFields, PortAssumption
    <2> QED
      BY <2>3, <2>4, StepEightReplaces DEF Plan
  <1> HIDE DEF us, plan, names
  <1>9. ListenersLead(svc, plan, ls)
    <2>1. ASSUME NEW kp \in svc.ports, \A l \in ls : l.port # kp.port
          PROVE  \E u \in plan : u.cmd = "CREATE-LISTENER" /\ u.name.port = kp.port
      <3> DEFINE u == [at |-> <<6, kp.port, 1>>, cmd |-> "CREATE-LISTENER",
                       name |-> genLoadBalancerPoolName(kp)]
      <3>1. CreatesListener(svc, u, ls)
        BY <2>1 DEF CreatesListener
      <3>2. u.cmd = "CREATE-LISTENER" /\ u.name.port = kp.port
        BY <1>3
      <3> HIDE DEF u
      <3> QED
        BY <1>4, <1>6, <1>7, <3>1, <3>2
    <2>2. ASSUME NEW l \in ls, ~HasPort(svc, l.port)
          PROVE  \E u \in plan : u.cmd = "DELETE-LISTENER" /\ u.listener = l
      <3> DEFINE u == [at |-> <<1, l.port, 0>>, cmd |-> "DELETE-LISTENER", listener |-> l]
      <3>1. DeletesListener(svc, u, l)
        BY <2>2 DEF DeletesListener
      <3>2. u.cmd = "DELETE-LISTENER" /\ u.listener = l
        OBVIOUS
      <3> HIDE DEF u
      <3> QED
        BY <1>4, <1>6, <1>7, <3>1, <3>2
    <2>3. ASSUME NEW u \in plan, u.cmd = "DELETE-LISTENER"
          PROVE  ~HasPort(svc, u.listener.port)
      <3>1. PICK l \in ls : DeletesListener(svc, u, l)
        BY <1>4, <1>5, <1>7, <2>3
      <3> QED
        BY <3>1 DEF DeletesListener
    <2> QED
      BY <2>1, <2>2, <2>3 DEF ListenersLead
  <1>10. PoolsLead(svc, plan, ps)
    <2>1. ASSUME NEW kp \in svc.ports, \A p \in ps : p.name.port # kp.port
          PROVE  \E u \in plan : u.cmd = "CREATE-POOL" /\ u.name.port = kp.port
      <3> DEFINE u == [at |-> <<6, kp.port, 0>>, cmd |-> "CREATE-POOL",
                       name |-> genLoadBalancerPoolName(kp)]
      <3>1. CreatesPool(svc, u, ps)
        BY <2>1 DEF CreatesPool
      <3>2. u.cmd = "CREATE-POOL" /\ u.name.port = kp.port
        BY <1>3
      <3> HIDE DEF u
      <3> QED
        BY <1>4, <1>6, <1>7, <3>1, <3>2
    <2>2. ASSUME NEW p \in ps, ~HasPort(svc, p.name.port)
          PROVE  \E u \in plan : u.cmd = "DELETE-POOL" /\ u.pool = p.id
      <3> DEFINE u == [at |-> <<2, p.id, 0>>, cmd |-> "DELETE-POOL",
                       name |-> p.name, pool |-> p.id]
      <3>1. DeletesPool(svc, u, p)
        BY <2>2 DEF DeletesPool
      <3>2. u.cmd = "DELETE-POOL" /\ u.pool = p.id
        OBVIOUS
      <3> HIDE DEF u
      <3> QED
        BY <1>4, <1>6, <1>7, <3>1, <3>2
    <2> QED
      BY <2>1, <2>2 DEF PoolsLead
  <1>11. NamesLead(svc, plan, ps)
    <2> SUFFICES ASSUME NEW p \in ps, HasPort(svc, p.name.port)
                 PROVE  \/ p.name \in names /\ p.hm = Monitor(svc, p.name)
                        \/ \E u \in plan : u.cmd = "UPDATE-POOL" /\ u.pool = p.id
      BY DEF NamesLead, names
    <2>1. PICK kp \in svc.ports : kp.port = p.name.port
      BY DEF HasPort
    <2>2. CASE NeedsUpdate(p, kp, svc)
      <3> DEFINE u == [at |-> <<4, p.id, 1>>, cmd |-> "UPDATE-POOL",
                       name |-> genLoadBalancerPoolName(kp), pool |-> p.id]
      <3>1. UpdatesPool(svc, u, p)
        BY <2>1, <2>2 DEF UpdatesPool
      <3>2. u.cmd = "UPDATE-POOL" /\ u.pool = p.id
        OBVIOUS
      <3> HIDE DEF u
      <3> QED
        BY <1>4, <1>6, <1>7, <3>1, <3>2
    <2>3. CASE ~NeedsUpdate(p, kp, svc)
      <3>1. p.name = genLoadBalancerPoolName(kp)
        BY <2>3 DEF NeedsUpdate
      <3>2. p.name \in names /\ p.name.nodePort = kp.nodePort
        BY <1>3, <3>1
      <3>3. svc.policy \in {"Local", "Cluster"}
        BY <1>1, ServiceAssumption DEF Service
      <3>4. CASE svc.policy = "Local"
        <4>1. svc.healthCheckNodePort > 0
          BY <1>1, <3>4 DEF LocalHealth
        <4> QED
          BY <2>3, <3>2, <3>4, <4>1 DEF NeedsUpdate, Monitor, getServiceHealthCheckNodePort,
             genLoadBalancerHealthMonitor
      <3>5. CASE svc.policy = "Cluster"
        BY <2>3, <3>2, <3>5 DEF NeedsUpdate, Monitor, getServiceHealthCheckNodePort,
           genLoadBalancerHealthMonitor
      <3> QED
        BY <3>3, <3>4, <3>5
    <2> QED
      BY <2>2, <2>3
  <1>12. MembersLead(svc, nodeList, plan, ps)
    <2> SUFFICES ASSUME NEW p \in ps, NEW n \in names, n.port = p.name.port
                 PROVE  /\ \/ p.members = Wanted(nodeList, n)
                           \/ \E u \in plan : u.cmd \in SetsMembers /\ u.pool = p.id
                        /\ \A u \in plan : u.cmd \in SetsMembers /\ u.pool = p.id =>
                              After(u, p.members, nodeList) = Wanted(nodeList, n)
      BY DEF MembersLead, names
    <2> DEFINE wanted == Wanted(nodeList, n)
    <2>1. PICK kp \in svc.ports : n = genLoadBalancerPoolName(kp)
      BY DEF names, getServicePoolNames
    <2>2. kp.port = p.name.port
      BY <1>3, <2>1
    <2>3. p.name \in names => p.name = n
      BY <1>2
    <2>4. \A m \in p.members : m \in wanted <=> m.target \in nodeList /\ m.port = n.nodePort
      <3>1. \A m \in p.members : m = [target |-> m.target, port |-> m.port]
        BY <1>1, PoolFields DEF Member
      <3> QED
        BY <3>1 DEF Wanted, genLoadBalancerMembers
    <2>5. ASSUME NEW m \in p.members, m \notin wanted, p.name = n
          PROVE  \E v \in us : /\ v.cmd = "DELETE-POOL-MEMBER" /\ v.name = n
                               /\ v.pool = p.id /\ v.member = m
      <3> DEFINE v == [at |-> <<3, p.id, 0>>, cmd |-> "DELETE-POOL-MEMBER",
                       name |-> p.name, pool |-> p.id, member |-> m]
      <3>1. DeletesMember(svc, nodeList, v, p)
        BY <2>4, <2>5 DEF DeletesMember, names
      <3>2. v.cmd = "DELETE-POOL-MEMBER" /\ v.name = n /\ v.pool = p.id /\ v.member = m
        BY <2>5
      <3> HIDE DEF v
      <3> QED
        BY <1>6, <3>1, <3>2
    <2>6. ASSUME NEW m \in wanted, m \notin p.members, p.name = n
          PROVE  \E v \in us : /\ v.cmd = "CREATE-POOL-MEMBER" /\ v.name = n
                               /\ v.pool = p.id /\ v.member = m
      <3> DEFINE v == [at |-> <<5, p.id, 0>>, cmd |-> "CREATE-POOL-MEMBER",
                       name |-> p.name, pool |-> p.id, member |-> m]
      <3>1. CreatesMember(svc, nodeList, v, p)
        BY <2>6 DEF CreatesMember, names, Wanted
      <3>2. v.cmd = "CREATE-POOL-MEMBER" /\ v.name = n /\ v.pool = p.id /\ v.member = m
        BY <2>6
      <3> HIDE DEF v
      <3> QED
        BY <1>6, <3>1, <3>2
    <2> HIDE DEF wanted
    <2>7. p.members = wanted \/ \E u \in plan : u.cmd \in SetsMembers /\ u.pool = p.id
      <3>1. CASE p.name = n
        <4>1. CASE p.members # wanted
          <5>1. \E m : (m \in p.members /\ m \notin wanted) \/ (m \in wanted /\ m \notin p.members)
            BY <4>1
          <5>2. \E v \in us : v.cmd \in MemberCmd /\ v.pool = p.id
            BY <1>7, <2>5, <2>6, <3>1, <5>1
          <5> QED
            BY <1>8, <5>2
        <4> QED
          BY <4>1
      <3>2. CASE p.name # n
        <4> DEFINE u == [at |-> <<4, p.id, 2>>, cmd |-> "REPLACE-POOL-MEMBERS",
                         name |-> genLoadBalancerPoolName(kp), pool |-> p.id]
        <4>1. ReplacesMembers(svc, u, p)
          BY <2>1, <2>2, <3>2 DEF ReplacesMembers
        <4>2. u.cmd = "REPLACE-POOL-MEMBERS" /\ u.pool = p.id
          OBVIOUS
        <4> HIDE DEF u
        <4> QED
          BY <1>4, <1>6, <1>7, <4>1, <4>2
      <3> QED
        BY <3>1, <3>2
    <2>8. ASSUME NEW u \in plan, u.cmd \in SetsMembers, u.pool = p.id
          PROVE  After(u, p.members, nodeList) = wanted
      <3>1. CASE u.cmd = "REPLACE-POOL-MEMBERS"
        <4>1. u.name \in names /\ u.name.port = p.name.port
          <5>1. CASE u \in us
            <6>1. PICK q \in ps : ReplacesMembers(svc, u, q)
              BY <1>5, <3>1, <5>1
            <6>2. PICK k \in svc.ports : /\ k.port = q.name.port
                                         /\ u.name = genLoadBalancerPoolName(k)
                                         /\ u.pool = q.id
              BY <6>1 DEF ReplacesMembers
            <6> QED
              BY <1>1, <1>3, <2>8, <6>2
          <5>2. CASE u \notin us
            BY <1>1, <1>4, <1>5, <2>8, <3>1, <5>2
          <5> QED
            BY <5>1, <5>2
        <4>2. u.name = n
          BY <1>2, <4>1
        <4> QED
          BY <3>1, <4>2 DEF After, wanted
      <3>2. CASE u.cmd \in MemberCmd
        <4>1. /\ u \in us
              /\ \A v \in us : v.cmd \in MemberCmd /\ v.name = u.name => v = u
          BY <1>4, <3>2
        <4>2. p.name = n /\ u.name = n
          BY <1>1, <1>5, <2>3, <2>8, <3>2, <4>1
        <4>3. \A m \in p.members : m \notin wanted =>
                 u.cmd = "DELETE-POOL-MEMBER" /\ m = u.member
          BY <1>7, <2>5, <4>1, <4>2
        <4>4. \A m \in wanted : m \notin p.members =>
                 u.cmd = "CREATE-POOL-MEMBER" /\ m = u.member
          BY <1>7, <2>6, <4>1, <4>2
        <4>5. CASE u.cmd = "CREATE-POOL-MEMBER"
          <5>1. PICK q \in ps : CreatesMember(svc, nodeList, u, q)
            BY <1>5, <4>1, <4>5
          <5>2. q = p
            BY <1>1, <2>8, <5>1 DEF CreatesMember
          <5>3. u.member \in wanted
            BY <4>2, <5>1, <5>2 DEF CreatesMember, wanted, Wanted
          <5>4. p.members \cup {u.member} = wanted
            BY <4>3, <4>4, <4>5, <5>3
          <5> QED
            BY <4>5, <5>4 DEF After
        <4>6. CASE u.cmd = "DELETE-POOL-MEMBER"
          <5>1. PICK q \in ps : DeletesMember(svc, nodeList, u, q)
            BY <1>5, <4>1, <4>6
          <5>2. q = p
            BY <1>1, <2>8, <5>1 DEF DeletesMember
          <5>3. /\ u.member \in p.members
                /\ u.member.target \notin nodeList \/ u.member.port # p.name.nodePort
            BY <5>1, <5>2 DEF DeletesMember
          <5>4. u.member \notin wanted
            BY <2>4, <4>2, <5>3
          <5>5. p.members \ {u.member} = wanted
            BY <4>3, <4>4, <4>6, <5>4
          <5> QED
            BY <4>6, <5>5 DEF After
        <4> QED
          BY <1>7, <3>2, <4>5, <4>6
      <3> QED
        BY <1>7, <2>8, <3>1, <3>2
    <2> QED
      BY <2>7, <2>8 DEF wanted
  <1> QED
    BY <1>9, <1>10, <1>11, <1>12 DEF Leads, plan

-----------------------------------------------------------------------------
(* What is left of a plan still leads there *)

\* A listener is deleted.
LEMMA DeleteListenerLeads ==
    ASSUME NEW svc, NEW nodeList, NEW plan, NEW ls, NEW own,
           Leads(svc, nodeList, plan, ls, own),
           NEW u \in plan, u.cmd = "DELETE-LISTENER"
    PROVE  Leads(svc, nodeList, plan \ {u}, ls \ {u.listener}, own)
  <1>1. u.cmd \notin SetsMembers
    BY DEF SetsMembers, MemberCmd
  <1>2. ListenersLead(svc, plan \ {u}, ls \ {u.listener})
    BY DEF Leads, ListenersLead, HasPort
  <1>3. PoolsLead(svc, plan \ {u}, own) /\ NamesLead(svc, plan \ {u}, own)
    BY DEF Leads, PoolsLead, NamesLead
  <1>4. MembersLead(svc, nodeList, plan \ {u}, own)
    BY <1>1 DEF Leads, MembersLead
  <1> QED
    BY <1>2, <1>3, <1>4 DEF Leads

\* A listener is created.
LEMMA CreateListenerLeads ==
    ASSUME NEW svc \in Services, validateService(svc),
           NEW nodeList, NEW plan, NEW ls, NEW own,
           Leads(svc, nodeList, plan, ls, own), NamesWanted(svc, plan),
           NEW u \in plan, u.cmd = "CREATE-LISTENER",
           NEW new, new.port = u.name.port
    PROVE  Leads(svc, nodeList, plan \ {u}, ls \cup {new}, own)
  <1>1. u.cmd \notin SetsMembers
    BY DEF SetsMembers, MemberCmd
  <1>2. HasPort(svc, new.port)
    BY WantedNames DEF NamesWanted, NameCmd
  <1>3. ListenersLead(svc, plan \ {u}, ls \cup {new})
    BY <1>2 DEF Leads, ListenersLead
  <1>4. PoolsLead(svc, plan \ {u}, own) /\ NamesLead(svc, plan \ {u}, own)
    BY DEF Leads, PoolsLead, NamesLead
  <1>5. MembersLead(svc, nodeList, plan \ {u}, own)
    BY <1>1 DEF Leads, MembersLead
  <1> QED
    BY <1>3, <1>4, <1>5 DEF Leads

\* A pool is deleted.
LEMMA DeletePoolLeads ==
    ASSUME NEW svc, NEW nodeList, NEW plan, NEW ls, NEW ps,
           Sane(svc, ls, ps), PoolsThere(svc, plan, ps),
           Leads(svc, nodeList, plan, ls, Own(ps)),
           NEW u \in plan, u.cmd = "DELETE-POOL"
    PROVE  Leads(svc, nodeList, plan \ {u}, ls, Own({p \in ps : p.id # u.pool}))
  <1> DEFINE left == {p \in ps : p.id # u.pool}
  <1>1. u.cmd \notin SetsMembers
    BY DEF SetsMembers, MemberCmd
  <1>2. PICK p \in Own(ps) : p.id = u.pool /\ ~HasPort(svc, p.name.port)
    BY DEF PoolsThere, PoolCmd
  <1>3. /\ \A q \in Own(left) : q \in Own(ps) /\ q.id # u.pool
        /\ \A q \in Own(ps) : HasPort(svc, q.name.port) => q \in Own(left)
    BY <1>2 DEF Sane, Own
  <1> HIDE DEF left
  <1>4. ListenersLead(svc, plan \ {u}, ls)
    BY DEF Leads, ListenersLead
  <1>5. PoolsLead(svc, plan \ {u}, Own(left))
    <2>1. \A kp \in svc.ports : HasPort(svc, kp.port)
      BY DEF HasPort
    <2> QED
      BY <1>3, <2>1 DEF Leads, PoolsLead
  <1>6. NamesLead(svc, plan \ {u}, Own(left))
    BY <1>3 DEF Leads, NamesLead
  <1>7. MembersLead(svc, nodeList, plan \ {u}, Own(left))
    BY <1>1, <1>3 DEF Leads, MembersLead
  <1> QED
    BY <1>4, <1>5, <1>6, <1>7 DEF Leads, left

\* A pool is created, as it is wanted.
LEMMA CreatePoolLeads ==
    ASSUME NEW svc, NEW nodeList, NEW plan, NEW ls, NEW ps,
           Sane(svc, ls, ps), NamesWanted(svc, plan), PoolsThere(svc, plan, ps),
           Leads(svc, nodeList, plan, ls, Own(ps)),
           NEW u \in plan, u.cmd = "CREATE-POOL",
           NEW new, new.name = u.name, \A p \in ps : p.id # new.id,
           new.hm = Monitor(svc, u.name), new.members = Wanted(nodeList, u.name)
    PROVE  Leads(svc, nodeList, plan \ {u}, ls, Own(ps \cup {new}))
  <1> DEFINE names == getServicePoolNames(svc)
             own == Own(ps)
             more == Own(ps \cup {new})
             rest == plan \ {u}
  <1>1. u.cmd \notin SetsMembers
    BY DEF SetsMembers, MemberCmd
  <1>2. /\ u.name \in names /\ Parses(u.name) /\ HasPort(svc, u.name.port)
        /\ \A n \in names : n.port = u.name.port => n = u.name
    BY WantedNames DEF Sane, NamesWanted, NameCmd
  <1>3. more = own \cup {new}
    BY <1>2 DEF Own
  <1>4. \A v \in plan : v.cmd \in SetsMembers => v.pool # new.id
    BY DEF PoolsThere, PoolCmd, Own
  <1> HIDE DEF names, own, more
  <1>5. ListenersLead(svc, rest, ls)
    BY DEF Leads, ListenersLead
  <1>6. PoolsLead(svc, rest, more)
    <2>1. PoolsLead(svc, plan, own)
      BY DEF Leads, own
    <2> QED
      BY <1>2, <1>3, <2>1 DEF PoolsLead
  <1>7. NamesLead(svc, rest, more)
    <2>1. NamesLead(svc, plan, own)
      BY DEF Leads, own
    <2> QED
      BY <1>2, <1>3, <2>1 DEF NamesLead, names
  <1>8. MembersLead(svc, nodeList, rest, more)
    <2>1. MembersLead(svc, nodeList, plan, own)
      BY DEF Leads, own
    <2> SUFFICES ASSUME NEW p \in more, NEW n \in names, n.port = p.name.port
                 PROVE  /\ \/ p.members = Wanted(nodeList, n)
                           \/ \E v \in rest : v.cmd \in SetsMembers /\ v.pool = p.id
                        /\ \A v \in rest : v.cmd \in SetsMembers /\ v.pool = p.id =>
                              After(v, p.members, nodeList) = Wanted(nodeList, n)
      BY DEF MembersLead, names
    <2>2. CASE p = new
      BY <1>2, <1>4, <2>2
    <2>3. CASE p \in own
      BY <1>1, <2>1, <2>3 DEF MembersLead, names
    <2> QED
      BY <1>3, <2>2, <2>3
  <1> QED
    BY <1>5, <1>6, <1>7, <1>8 DEF Leads, more

\* f makes of the pool of update u what svc and nodeList ask for.
ChangesRight(f, u, svc, nodeList, ps) ==
    \A p \in ps : p.id = u.pool =>
        IF u.cmd = "UPDATE-POOL"
        THEN f[p].hm = Monitor(svc, u.name)
        ELSE f[p].hm = p.hm /\ f[p].members = After(u, p.members, nodeList)

\* A pool is renamed, or its members change.
LEMMA ChangePoolLeads ==
    ASSUME NEW svc, NEW nodeList, NEW plan, NEW ls, NEW ps,
           Sane(svc, ls, ps), PlanGood(svc, nodeList, plan, ls, ps),
           Leads(svc, nodeList, plan, ls, Own(ps)),
           NEW u \in plan, u.cmd \in SetsMembers \cup {"UPDATE-POOL"},
           NEW f, NEW new, Changes(f, u, ps, new), ChangesRight(f, u, svc, nodeList, ps)
    PROVE  Leads(svc, nodeList, plan \ {u}, ls, Own(new))
  <1> DEFINE rest == plan \ {u}
             names == getServicePoolNames(svc)
             own == Own(ps)
             left == Own(new)
  <1>1. /\ \A n \in names : n.protocol = "tcp" /\ Parses(n)
        /\ \A m, n \in names : m.port = n.port => m = n
    BY WantedNames DEF Sane
  <1>2. PICK p0 \in ps : p0.id = u.pool /\ Parses(p0.name)
    BY DEF PlanGood, PoolsThere, PoolCmd, Own
  <1>3. \A p \in ps : p.id = u.pool <=> p = p0
    BY <1>2 DEF Sane
  <1>4. u.cmd = "UPDATE-POOL" => u.name \in names /\ u.name.port = p0.name.port
    BY <1>2 DEF PlanGood, NamesWanted, NameCmd, PoolsKept
  <1>5. \A p \in ps : /\ f[p].id = p.id /\ f[p].name.port = p.name.port
                      /\ Parses(f[p].name) <=> Parses(p.name)
    BY <1>1, <1>2, <1>3, <1>4 DEF Changes
  <1>6. new = {f[p] : p \in ps}
    BY DEF Changes
  <1>7. /\ \A p \in own : f[p] \in left
        /\ \A q \in left : \E p \in own : q = f[p]
    BY <1>5, <1>6 DEF Own
  <1>8. /\ \A p \in own : f[p].id = p.id /\ f[p].name.port = p.name.port
        /\ \A p \in own : p.id # u.pool => f[p] = p
        /\ \A p \in own : p.id = u.pool <=> p = p0
        /\ p0 \in own
    BY <1>2, <1>3, <1>5 DEF Changes, Own
  <1>9. /\ u.cmd = "UPDATE-POOL" =>
              /\ f[p0].name = u.name /\ f[p0].hm = Monitor(svc, u.name)
              /\ f[p0].members = p0.members
        /\ u.cmd # "UPDATE-POOL" =>
              /\ f[p0].name = p0.name /\ f[p0].hm = p0.hm
              /\ f[p0].members = After(u, p0.members, nodeList)
    BY <1>2 DEF Changes, ChangesRight
  <1>10. u.cmd # "UPDATE-POOL" => u.cmd \in SetsMembers
    OBVIOUS
  <1>11. /\ u.cmd # "CREATE-LISTENER" /\ u.cmd # "DELETE-LISTENER"
         /\ u.cmd # "CREATE-POOL" /\ u.cmd # "DELETE-POOL"
         /\ "UPDATE-POOL" \notin SetsMembers
    BY DEF SetsMembers, MemberCmd
  <1> HIDE DEF names, own, left
  <1>12. ListenersLead(svc, rest, ls)
    BY <1>11 DEF Leads, ListenersLead
  <1>13. PoolsLead(svc, rest, left)
    <2>1. PoolsLead(svc, plan, own)
      BY DEF Leads, own
    <2>2. ASSUME NEW kp \in svc.ports
          PROVE  \/ \E q \in left : q.name.port = kp.port
                 \/ \E v \in rest : v.cmd = "CREATE-POOL" /\ v.name.port = kp.port
      BY <1>7, <1>8, <1>11, <2>1 DEF PoolsLead
    <2>3. ASSUME NEW q \in left, ~HasPort(svc, q.name.port)
          PROVE  \E v \in rest : v.cmd = "DELETE-POOL" /\ v.pool = q.id
      <3>1. PICK p \in own : q = f[p]
        BY <1>7
      <3>2. ~HasPort(svc, p.name.port) /\ q.id = p.id
        BY <1>8, <2>3, <3>1
      <3> QED
        BY <1>11, <2>1, <3>2 DEF PoolsLead
    <2> QED
      BY <2>2, <2>3 DEF PoolsLead
  <1>14. NamesLead(svc, rest, left)
    <2>1. NamesLead(svc, plan, own)
      BY DEF Leads, own
    <2> SUFFICES ASSUME NEW q \in left, HasPort(svc, q.name.port)
                 PROVE  \/ q.name \in names /\ q.hm = Monitor(svc, q.name)
                        \/ \E v \in rest : v.cmd = "UPDATE-POOL" /\ v.pool = q.id
      BY DEF NamesLead, names
    <2>2. PICK p \in own : q = f[p]
      BY <1>7
    <2>3. q.id = p.id /\ HasPort(svc, p.name.port)
      BY <1>8, <2>2
    <2>4. \/ p.name \in names /\ p.hm = Monitor(svc, p.name)
          \/ \E v \in plan : v.cmd = "UPDATE-POOL" /\ v.pool = p.id
      BY <2>1, <2>3 DEF NamesLead, names
    <2>5. CASE u.cmd = "UPDATE-POOL" /\ p = p0
      BY <1>4, <1>9, <2>2, <2>5
    <2>6. CASE u.cmd # "UPDATE-POOL" /\ p = p0
      BY <1>9, <2>2, <2>3, <2>4, <2>6
    <2>7. CASE p # p0
      BY <1>8, <2>2, <2>3, <2>4, <2>7
    <2> QED
      BY <2>5, <2>6, <2>7
  <1>15. MembersLead(svc, nodeList, rest, left)
    <2>1. MembersLead(svc, nodeList, plan, own)
      BY DEF Leads, own
    <2> SUFFICES ASSUME NEW q \in left, NEW n \in names, n.port = q.name.port
                 PROVE  /\ \/ q.members = Wanted(nodeList, n)
                           \/ \E v \in rest : v.cmd \in SetsMembers /\ v.pool = q.id
                        /\ \A v \in rest : v.cmd \in SetsMembers /\ v.pool = q.id =>
                              After(v, q.members, nodeList) = Wanted(nodeList, n)
      BY DEF MembersLead, names
    <2>2. PICK p \in own : q = f[p]
      BY <1>7
    <2>3. q.id = p.id /\ n.port = p.name.port
      BY <1>8, <2>2
    <2>4. /\ \/ p.members = Wanted(nodeList, n)
             \/ \E v \in plan : v.cmd \in SetsMembers /\ v.pool = p.id
          /\ \A v \in plan : v.cmd \in SetsMembers /\ v.pool = p.id =>
                After(v, p.members, nodeList) = Wanted(nodeList, n)
      BY <2>1, <2>3 DEF MembersLead, names
    <2>5. CASE p = p0 /\ u.cmd \in SetsMembers
      <3>1. q.members = Wanted(nodeList, n)
        BY <1>2, <1>9, <1>11, <2>2, <2>4, <2>5
      <3>2. ASSUME NEW v \in rest, v.cmd \in SetsMembers, v.pool = q.id
            PROVE  After(v, q.members, nodeList) = Wanted(nodeList, n)
        <4>1. v.pool = u.pool /\ v # u
          BY <1>2, <2>3, <2>5, <3>2
        <4>2. v.cmd \notin MemberCmd
          BY <2>5, <4>1 DEF PlanGood, MembersNext
        <4>3. v.cmd = "REPLACE-POOL-MEMBERS"
          BY <3>2, <4>2 DEF SetsMembers
        <4>4. After(v, q.members, nodeList) = After(v, p.members, nodeList)
          BY <4>3 DEF After
        <4> QED
          BY <2>3, <2>4, <3>2, <4>4
      <3> QED
        BY <3>1, <3>2
    <2>6. CASE p # p0 \/ u.cmd \notin SetsMembers
      <3>1. q.members = p.members
        BY <1>8, <1>9, <1>10, <2>2, <2>6
      <3>2. \A v \in plan : v.cmd \in SetsMembers /\ v.pool = p.id => v # u
        BY <1>8, <2>6
      <3> QED
        BY <2>3, <2>4, <3>1, <3>2
    <2> QED
      BY <2>5, <2>6
  <1> QED
    BY <1>12, <1>13, <1>14, <1>15 DEF Leads, left

\* Performing the next update of a plan.
LEMMA PerformLeads ==
    ASSUME NEW w \in Worker, NEW u,
           Sane(wk[w].svc, listeners, pools),
           PlanGood(wk[w].svc, NodeList(wk[w].svc, wk[w].nodes), wk[w].plan,
                    listeners, pools),
           Leads(wk[w].svc, NodeList(wk[w].svc, wk[w].nodes), wk[w].plan,
                 listeners, Own(pools)),
           u \in wk[w].plan, Perform(w, u)
    PROVE  Leads(wk[w].svc, NodeList(wk[w].svc, wk[w].nodes), wk[w].plan \ {u},
                 listeners', Own(pools'))
  <1>1. PICK svc, nodeList, plan :
           svc = wk[w].svc /\ nodeList = NodeList(wk[w].svc, wk[w].nodes) /\ plan = wk[w].plan
    OBVIOUS
  <1>2. /\ Sane(svc, listeners, pools) /\ PlanGood(svc, nodeList, plan, listeners, pools)
        /\ Leads(svc, nodeList, plan, listeners, Own(pools)) /\ u \in plan
    BY <1>1
  <1>3. svc \in Services /\ validateService(svc) /\ \A p \in pools : p \in VpcLoadBalancerPool
    BY <1>2 DEF Sane
  <1>4. NamesWanted(svc, plan) /\ PoolsThere(svc, plan, pools)
    BY <1>2 DEF PlanGood
  <1> SUFFICES Leads(svc, nodeList, plan \ {u}, listeners', Own(pools'))
    BY <1>1
  <1>5. ASSUME NEW f, u.cmd \in SetsMembers \cup {"UPDATE-POOL"},
               Changes(f, u, pools, pools'), ChangesRight(f, u, svc, nodeList, pools),
               listeners' = listeners
        PROVE  Leads(svc, nodeList, plan \ {u}, listeners', Own(pools'))
    BY <1>2, <1>5, ChangePoolLeads
  <1>6. CASE createLoadBalancerListener(w, u)
    <2>1. PICK new : new.port = u.name.port /\ listeners' = listeners \cup {new}
      BY <1>6 DEF createLoadBalancerListener
    <2>2. u.cmd = "CREATE-LISTENER" /\ pools' = pools
      BY <1>6 DEF createLoadBalancerListener
    <2> QED
      BY <1>2, <1>3, <1>4, <2>1, <2>2, CreateListenerLeads
  <1>7. CASE createLoadBalancerPool(w, u)
    <2>1. PICK new : /\ new.name = u.name /\ new.id \in FreshIds
                     /\ new.hm = genLoadBalancerHealthMonitor(u.name.nodePort,
                                    getServiceHealthCheckNodePort(wk[w].svc))
                     /\ new.members = genLoadBalancerMembers(u.name.nodePort,
                                         NodeList(wk[w].svc, wk[w].nodes))
                     /\ pools' = pools \cup {new}
      BY <1>7 DEF createLoadBalancerPool
    <2>2. \A p \in pools : p.id # new.id
      BY <2>1 DEF FreshIds, UsedIds
    <2>3. u.cmd = "CREATE-POOL" /\ listeners' = listeners
      BY <1>7 DEF createLoadBalancerPool
    <2>4. new.hm = Monitor(svc, u.name) /\ new.members = Wanted(nodeList, u.name)
      BY <1>1, <2>1 DEF Monitor, Wanted
    <2> QED
      BY <1>2, <1>4, <2>1, <2>2, <2>3, <2>4, CreatePoolLeads
  <1>8. CASE createLoadBalancerPoolMember(w, u)
    <2> DEFINE f == [p \in pools |-> IF p.id = u.pool
                                    THEN [p EXCEPT !.members = @ \cup {u.member}] ELSE p]
    <2>1. \A p \in pools : /\ f[p].id = p.id /\ (p.id # u.pool => f[p] = p)
                           /\ f[p].name = p.name /\ f[p].hm = p.hm
                           /\ p.id = u.pool => f[p].members = p.members \cup {u.member}
      BY <1>3 DEF VpcLoadBalancerPool
    <2>2. /\ pools' = {f[p] : p \in pools} /\ listeners' = listeners
          /\ u.cmd = "CREATE-POOL-MEMBER"
      BY <1>8 DEF createLoadBalancerPoolMember
    <2> HIDE DEF f
    <2>3. Changes(f, u, pools, pools')
      BY <2>1, <2>2 DEF Changes
    <2>4. ChangesRight(f, u, svc, nodeList, pools)
      BY <2>1, <2>2 DEF ChangesRight, After
    <2> QED
      BY <1>5, <2>2, <2>3, <2>4 DEF SetsMembers, MemberCmd
  <1>9. CASE deleteLoadBalancerListener(w, u)
    <2>1. /\ u.cmd = "DELETE-LISTENER" /\ pools' = pools
          /\ listeners' = listeners \ {u.listener}
      BY <1>9 DEF deleteLoadBalancerListener
    <2> QED
      BY <1>2, <2>1, DeleteListenerLeads
  <1>10. CASE deleteLoadBalancerPool(w, u)
    <2>1. /\ u.cmd = "DELETE-POOL" /\ listeners' = listeners
          /\ pools' = {p \in pools : p.id # u.pool}
      BY <1>10 DEF deleteLoadBalancerPool
    <2> QED
      BY <1>2, <1>4, <2>1, DeletePoolLeads
  <1>11. CASE deleteLoadBalancerPoolMember(w, u)
    <2> DEFINE f == [p \in pools |-> IF p.id = u.pool
                                    THEN [p EXCEPT !.members = @ \ {u.member}] ELSE p]
    <2>1. \A p \in pools : /\ f[p].id = p.id /\ (p.id # u.pool => f[p] = p)
                           /\ f[p].name = p.name /\ f[p].hm = p.hm
                           /\ p.id = u.pool => f[p].members = p.members \ {u.member}
      BY <1>3 DEF VpcLoadBalancerPool
    <2>2. /\ pools' = {f[p] : p \in pools} /\ listeners' = listeners
          /\ u.cmd = "DELETE-POOL-MEMBER"
      BY <1>11 DEF deleteLoadBalancerPoolMember
    <2> HIDE DEF f
    <2>3. Changes(f, u, pools, pools')
      BY <2>1, <2>2 DEF Changes
    <2>4. ChangesRight(f, u, svc, nodeList, pools)
      BY <2>1, <2>2 DEF ChangesRight, After
    <2> QED
      BY <1>5, <2>2, <2>3, <2>4 DEF SetsMembers, MemberCmd
  <1>12. CASE replaceLoadBalancerPoolMembers(w, u)
    <2>1. PICK m : m = genLoadBalancerMembers(u.name.nodePort,
                          NodeList(wk[w].svc, wk[w].nodes))
      OBVIOUS
    <2> DEFINE f == [p \in pools |-> IF p.id = u.pool
                                    THEN [p EXCEPT !.members = m] ELSE p]
    <2>2. \A p \in pools : /\ f[p].id = p.id /\ (p.id # u.pool => f[p] = p)
                           /\ f[p].name = p.name /\ f[p].hm = p.hm
                           /\ p.id = u.pool => f[p].members = m
      BY <1>3 DEF VpcLoadBalancerPool
    <2>3. /\ pools' = {f[p] : p \in pools} /\ listeners' = listeners
          /\ u.cmd = "REPLACE-POOL-MEMBERS"
      BY <1>12, <2>1 DEF replaceLoadBalancerPoolMembers
    <2> HIDE DEF f
    <2>4. m = Wanted(nodeList, u.name)
      BY <1>1, <2>1 DEF Wanted
    <2>5. Changes(f, u, pools, pools')
      BY <2>2, <2>3 DEF Changes
    <2>6. ChangesRight(f, u, svc, nodeList, pools)
      BY <2>2, <2>3, <2>4 DEF ChangesRight, After
    <2> QED
      BY <1>5, <2>3, <2>5, <2>6 DEF SetsMembers
  <1>13. CASE updateLoadBalancerPool(w, u)
    <2>1. PICK requested, differs, hm :
             /\ requested = IF wk[w].svc.proxyProtocol THEN "v1" ELSE "disabled"
             /\ differs = \E q \in wk[w].pools : q.id = u.pool /\ q.proxy # requested
             /\ hm = genLoadBalancerHealthMonitor(u.name.nodePort,
                        getServiceHealthCheckNodePort(wk[w].svc))
      OBVIOUS
    <2> DEFINE f == [p \in pools |-> IF p.id = u.pool
                       THEN [p EXCEPT !.name = u.name, !.hm = hm,
                                      !.proxy = IF differs THEN requested ELSE @]
                       ELSE p]
    <2>2. /\ pools' = {f[p] : p \in pools} /\ listeners' = listeners
          /\ u.cmd = "UPDATE-POOL"
      BY <1>13, <2>1 DEF updateLoadBalancerPool
    <2>3. \A p \in pools : /\ f[p].id = p.id /\ (p.id # u.pool => f[p] = p)
                           /\ p.id = u.pool => /\ f[p].name = u.name /\ f[p].hm = hm
                                               /\ f[p].members = p.members
      BY <1>3 DEF VpcLoadBalancerPool
    <2> HIDE DEF f
    <2>4. hm = Monitor(svc, u.name)
      BY <1>1, <2>1 DEF Monitor
    <2>5. Changes(f, u, pools, pools')
      BY <2>2, <2>3 DEF Changes
    <2>6. ChangesRight(f, u, svc, nodeList, pools)
      BY <2>2, <2>3, <2>4 DEF ChangesRight
    <2> QED
      BY <1>5, <2>2, <2>5, <2>6
  <1> QED
    BY <1>6, <1>7, <1>8, <1>9, <1>10, <1>11, <1>12, <1>13 DEF Perform

\* A load balancer is created as it is wanted.
LEMMA CreateLeads ==
    ASSUME TypeOK, NEW w \in Worker, ~CreateInvalid(wk[w]), CreateRequest(w)
    PROVE  Leads(wk[w].svc, NodeList(wk[w].svc, wk[w].nodes), {}, listeners', Own(pools'))
  <1>1. PICK svc, nodeList : svc = wk[w].svc /\ nodeList = NodeList(wk[w].svc, wk[w].nodes)
    OBVIOUS
  <1> DEFINE names == getServicePoolNames(svc)
             ids == CHOOSE f \in [names -> FreshIds] : Injective(f)
             New(n) == [id |-> ids[n], name |-> n,
                        hm |-> genLoadBalancerHealthMonitor(n.nodePort,
                                  getServiceHealthCheckNodePort(svc)),
                        proxy |-> IF svc.proxyProtocol THEN "v1" ELSE "disabled",
                        members |-> genLoadBalancerMembers(n.nodePort, nodeList)]
             Open(n) == [protocol |-> "tcp", port |-> n.port, pool |-> ids[n]]
  <1>2. /\ pools' = {New(n) : n \in names}
        /\ listeners' = {Open(n) : n \in names}
    BY <1>1 DEF CreateRequest
  <1>3. svc \in Services /\ validateService(svc)
    BY <1>1 DEF TypeOK, Call, CreateInvalid
  <1>4. /\ \A n \in names : n.protocol = "tcp" /\ Parses(n) /\ HasPort(svc, n.port)
        /\ \A m, n \in names : m.port = n.port => m = n
    BY <1>3, WantedNames
  <1>5. \A kp \in svc.ports : \E n \in names : n.port = kp.port
    BY <1>3, PortOfName
  <1>6. \A n \in names : /\ New(n).name = n /\ New(n).hm = Monitor(svc, n)
                         /\ New(n).members = Wanted(nodeList, n)
    BY DEF Monitor, Wanted
  <1>7. \A n \in names : Open(n).port = n.port
    OBVIOUS
  <1> HIDE DEF names, New, Open
  <1>8. /\ \A p \in Own(pools') : /\ p.name \in names /\ p.hm = Monitor(svc, p.name)
                                  /\ p.members = Wanted(nodeList, p.name)
        /\ \A n \in names : \E p \in Own(pools') : p.name = n
    BY <1>2, <1>4, <1>6 DEF Own
  <1>9. ListenersLead(svc, {}, listeners')
    BY <1>2, <1>4, <1>5, <1>7 DEF ListenersLead
  <1>10. PoolsLead(svc, {}, Own(pools'))
    BY <1>4, <1>5, <1>8 DEF PoolsLead
  <1>11. NamesLead(svc, {}, Own(pools'))
    BY <1>8 DEF NamesLead, names
  <1>12. MembersLead(svc, nodeList, {}, Own(pools'))
    BY <1>4, <1>8 DEF MembersLead, names
  <1> QED
    BY <1>1, <1>9, <1>10, <1>11, <1>12 DEF Leads

\* Where an empty plan leads, everything is as it is asked for.
LEMMA LeadsMatches ==
    ASSUME NEW svc \in Services, validateService(svc), NEW nodes,
           CloudGood(listeners, pools),
           Leads(svc, NodeList(svc, nodes), {}, listeners, Own(pools))
    PROVE  Matches(svc, nodes)
  <1> DEFINE names == getServicePoolNames(svc)
             own == Own(pools)
             nodeList == NodeList(svc, nodes)
  <1>1. /\ \A n \in names : HasPort(svc, n.port)
        /\ \A m, n \in names : m.port = n.port => m = n
    BY WantedNames
  <1>2. \A kp \in svc.ports : Lower(kp.protocol) = "tcp"
    BY DEF validateService, Lower
  <1>3. \A l \in listeners : l.protocol = "tcp"
    BY DEF CloudGood
  <1>4. own = OwnPools
    BY DEF Own, OwnPools
  <1> HIDE DEF names, own, nodeList
  <1>5. {<<l.protocol, l.port>> : l \in listeners}
           = {<<Lower(kp.protocol), kp.port>> : kp \in svc.ports}
    <2>1. /\ \A kp \in svc.ports : \E l \in listeners : l.port = kp.port
          /\ \A l \in listeners : \E kp \in svc.ports : kp.port = l.port
      BY DEF Leads, ListenersLead, HasPort
    <2>2. ASSUME NEW l \in listeners
          PROVE  <<l.protocol, l.port>> \in {<<Lower(kp.protocol), kp.port>> : kp \in svc.ports}
      BY <1>2, <1>3, <2>1
    <2>3. ASSUME NEW kp \in svc.ports
          PROVE  <<Lower(kp.protocol), kp.port>> \in {<<l.protocol, l.port>> : l \in listeners}
      BY <1>2, <1>3, <2>1
    <2> QED
      BY <2>2, <2>3
  <1>6. \A p \in own : p.name \in names /\ p.hm = Monitor(svc, p.name)
    BY DEF Leads, PoolsLead, NamesLead, own, names
  <1>7. \A n \in names : \E p \in own : p.name = n
    <2>1. \A n \in names : \E p \in own : p.name.port = n.port
      BY <1>1 DEF Leads, PoolsLead, HasPort, own
    <2> QED
      BY <1>1, <1>6, <2>1
  <1>8. \A p \in own : p.members = Wanted(nodeList, p.name)
    <2>1. MembersLead(svc, nodeList, {}, own)
      BY DEF Leads, own, nodeList
    <2> QED
      BY <1>6, <2>1 DEF MembersLead, names
  <1>9. {p.name : p \in own} = names
    BY <1>6, <1>7
  <1> QED
    BY <1>4, <1>5, <1>6, <1>8, <1>9 DEF Matches, Monitor, Wanted, names, nodeList

\* What validateServiceSubnets accepts names every entry, and only them.
LEMMA ValidSubnets ==
    ASSUME NEW wanted, NEW vpc, NEW subnets, NEW ids,
           ids = validateServiceSubnets(wanted, vpc, subnets), ids # {}
    PROVE  /\ \A i \in ids : \E s \in subnets :
                 s.id = i /\ s.vpc = vpc /\ \E e \in wanted : e \in {s.id, s.name, s.cidr}
           /\ \A e \in wanted : \E s \in subnets : s.id \in ids /\ e \in {s.id, s.name, s.cidr}
  <1> DEFINE Match(e) == {s \in subnets : \/ e = s.id
                                          \/ s.vpc = vpc /\ e \in {s.name, s.cidr}}
             bad == \E e \in wanted : Match(e) = {} \/ \E s \in Match(e) : s.vpc # vpc
  <1>1. ids = IF bad THEN {} ELSE {s.id : s \in UNION {Match(e) : e \in wanted}}
    BY DEF validateServiceSubnets
  <1>2. ~bad /\ ids = {s.id : s \in UNION {Match(e) : e \in wanted}}
    BY <1>1
  <1>3. \A e \in wanted : /\ \E s \in Match(e) : TRUE
                          /\ \A s \in Match(e) : s.vpc = vpc
    BY <1>2
  <1>4. \A e \in wanted : \A s \in Match(e) : s \in subnets /\ e \in {s.id, s.name, s.cidr}
    OBVIOUS
  <1> HIDE DEF Match, bad
  <1>5. /\ \A i \in ids : \E e \in wanted : \E s \in Match(e) : s.id = i
        /\ \A e \in wanted : \A s \in Match(e) : s.id \in ids
    BY <1>2
  <1> QED
    BY <1>3, <1>4, <1>5

\* A load balancer is created in the right place.
LEMMA CreatePlaces ==
    ASSUME NEW svc, SubnetList(svc) # {}, NEW b,
           b.public = svc.public, b.subnets = SubnetList(svc)
    PROVE  PlacedAs(svc, b) /\ InVpc(b)
  <1>1. /\ \A s \in filterSubnetsByVpcName(Subnets) : s \in Subnets /\ s.vpc = VpcName
        /\ \A s \in ClusterSubnets : s \in Subnets /\ s.vpc = VpcName
    BY DEF filterSubnetsByVpcName, ClusterSubnets, filterSubnetsByName
  <1>2. CASE svc.subnets # {}
    <2>1. b.subnets = validateServiceSubnets(svc.subnets, VpcName,
                                             filterSubnetsByVpcName(Subnets))
      BY <1>2 DEF SubnetList
    <2>2. /\ \A i \in b.subnets : \E s \in filterSubnetsByVpcName(Subnets) :
                s.id = i /\ s.vpc = VpcName
                  /\ \E e \in svc.subnets : e \in {s.id, s.name, s.cidr}
          /\ \A e \in svc.subnets : \E s \in filterSubnetsByVpcName(Subnets) :
                s.id \in b.subnets /\ e \in {s.id, s.name, s.cidr}
      BY <2>1, ValidSubnets
    <2> QED
      BY <1>1, <2>2 DEF PlacedAs, InVpc
  <1>3. CASE svc.subnets = {}
    <2>1. \A i \in b.subnets : \E s \in ClusterSubnets : s.id = i
      <3>1. \/ b.subnets = validateServiceZone(svc.zone, ClusterSubnets)
            \/ b.subnets = getSubnetIDs(ClusterSubnets)
        BY <1>3 DEF SubnetList
      <3> QED
        BY <3>1 DEF validateServiceZone, getSubnetIDs
    <2> QED
      BY <1>1, <1>3, <2>1 DEF PlacedAs, InVpc
  <1> QED
    BY <1>2, <1>3

\* A load balancer that passes the validations is in the right place.
LEMMA ValidPlaces ==
    ASSUME UniqueSubnets, NEW svc, NEW b, InVpc(b),
           validateServiceTypeNotUpdated(svc, b.public),
           validateServiceSubnetsNotUpdated(svc, b.subnets)
    PROVE  PlacedAs(svc, b)
  <1>1. b.public = svc.public
    BY DEF validateServiceTypeNotUpdated
  <1>2. CASE svc.subnets = {}
    BY <1>1, <1>2 DEF PlacedAs, InVpc
  <1>3. CASE svc.subnets # {}
    <2>1. PICK s \in Subnets :
             s.id \in b.subnets /\ b.subnets = validateServiceSubnets(svc.subnets, s.vpc, Subnets)
      BY <1>3 DEF validateServiceSubnetsNotUpdated
    <2>2. s.vpc = VpcName
      BY <2>1 DEF InVpc, UniqueSubnets
    <2>3. /\ \A i \in b.subnets : \E t \in Subnets :
                t.id = i /\ t.vpc = VpcName
                  /\ \E e \in svc.subnets : e \in {t.id, t.name, t.cidr}
          /\ \A e \in svc.subnets : \E t \in Subnets :
                t.id \in b.subnets /\ e \in {t.id, t.name, t.cidr}
      BY <2>1, <2>2, ValidSubnets
    <2> QED
      BY <1>1, <2>3 DEF PlacedAs
  <1> QED
    BY <1>2, <1>3

-----------------------------------------------------------------------------
(* Every step keeps what calls lead to *)

\* A step of the only call: it becomes d.
LEMMA LeadMoves ==
    ASSUME TypeOK, SerialInv, LeadInv, NEW w \in Worker, NEW d,
           wk' = [wk EXCEPT ![w] = d],
           ~Idle(w) \/ \A v \in Worker : Idle(v),
           InVpc(lb'), CallLeads(d, lb', listeners', Own(pools'))
    PROVE  LeadInv'
  <1>1. wk'[w] = d /\ \A v \in Worker : v # w => wk'[v] = wk[v] /\ wk[v].pc = "idle"
    BY DEF TypeOK, SerialInv, OneCall, Idle
  <1>2. \A v \in Worker : CallLeads(wk'[v], lb', listeners', Own(pools'))
    BY <1>1 DEF CallLeads, Working, Executing
  <1> QED
    BY <1>2 DEF LeadInv

\* The only call fails.
LEMMA LeadEnds ==
    ASSUME TypeOK, SerialInv, LeadInv, NEW w \in Worker, ~Idle(w), NEW r, r # "ok",
           Finish(w, r), InVpc(lb')
    PROVE  LeadInv'
  <1>1. PICK d : d = [wk[w] EXCEPT !.pc = "done", !.result = r]
    OBVIOUS
  <1>2. wk[w] \in Call /\ wk \in [Worker -> Call]
    BY DEF TypeOK
  <1>3. d.pc = "done" /\ d.result = r
    BY <1>1, <1>2 DEF Call
  <1>4. wk' = [wk EXCEPT ![w] = d]
    BY <1>1, <1>2 DEF Finish
  <1>5. CallLeads(d, lb', listeners', Own(pools'))
    BY <1>3 DEF CallLeads, Working, Executing
  <1> QED
    BY <1>4, <1>5, LeadMoves

\* The only call succeeds.
LEMMA LeadSucceeds ==
    ASSUME TypeOK, SerialInv, LeadInv, NEW w \in Worker, ~Idle(w), Finish(w, "ok"),
           InVpc(lb'),
           wk[w].op \in {"ensure", "update"} /\ lb'.status # "none" =>
              /\ validateService(wk[w].svc) /\ PlacedAs(wk[w].svc, lb')
              /\ Leads(wk[w].svc, NodeList(wk[w].svc, wk[w].nodes), {}, listeners',
                       Own(pools')),
           wk[w].op = "ensure" => ~Gone(lb'),
           wk[w].op = "delete" => Gone(lb')
    PROVE  LeadInv'
  <1>1. PICK d : d = [wk[w] EXCEPT !.pc = "done", !.result = "ok"]
    OBVIOUS
  <1>2. wk[w] \in Call /\ wk \in [Worker -> Call]
    BY DEF TypeOK
  <1>3. /\ d.pc = "done" /\ d.op = wk[w].op /\ d.svc = wk[w].svc /\ d.nodes = wk[w].nodes
    BY <1>1, <1>2 DEF Call
  <1>4. wk' = [wk EXCEPT ![w] = d]
    BY <1>1, <1>2 DEF Finish
  <1>5. CallLeads(d, lb', listeners', Own(pools'))
    BY <1>3 DEF CallLeads, Working, Executing
  <1> QED
    BY <1>4, <1>5, LeadMoves

\* FindLoadBalancer and what follows it.
LEMMA LeadFind ==
    ASSUME UniqueSubnets, TypeOK, SerialInv, LeadInv, NEW w \in Worker, FindLoadBalancer(w)
    PROVE  LeadInv'
  <1>1. ~Idle(w) /\ lb' = lb /\ listeners' = listeners /\ pools' = pools /\ InVpc(lb')
    BY DEF FindLoadBalancer, cloud, Idle, LeadInv
  <1>2. wk[w] \in Call /\ wk \in [Worker -> Call]
    BY DEF TypeOK
  <1>3. \/ wk' = [wk EXCEPT ![w].pc = "create"] /\ wk[w].op = "ensure"
        \/ Finish(w, "ok") /\ wk[w].op \in {"delete", "update"} /\ lb.status = "none"
        \/ Finish(w, "error") \/ Finish(w, "busy")
        \/ Take(w, "delete") /\ wk[w].op = "delete"
        \/ Take(w, "listeners") /\ ~UpdateInvalid(wk[w]) /\ wk[w].op \in {"ensure", "update"}
    BY DEF FindLoadBalancer, EnsureLoadBalancer, EnsureLoadBalancerDeleted,
       EnsureLoadBalancerUpdated, BeginUpdate
  <1>4. CASE Finish(w, "error") \/ Finish(w, "busy")
    BY <1>1, <1>4, LeadEnds
  <1>5. CASE Finish(w, "ok") /\ wk[w].op \in {"delete", "update"} /\ lb.status = "none"
    BY <1>1, <1>5, LeadSucceeds DEF Gone
  <1>6. CASE wk' = [wk EXCEPT ![w].pc = "create"] /\ wk[w].op = "ensure"
    <2>1. PICK d : d = [wk[w] EXCEPT !.pc = "create"]
      OBVIOUS
    <2>2. d.pc = "create" /\ d.op = "ensure"
      BY <1>2, <1>6, <2>1 DEF Call
    <2>3. wk' = [wk EXCEPT ![w] = d] /\ CallLeads(d, lb', listeners', Own(pools'))
      BY <1>2, <1>6, <2>1, <2>2 DEF CallLeads, Working, Executing
    <2> QED
      BY <1>1, <2>3, LeadMoves
  <1>7. CASE Take(w, "delete") /\ wk[w].op = "delete"
    <2>1. PICK d : d = [wk[w] EXCEPT !.pc = "delete", !.lb = lb.id, !.refs = Refs]
      OBVIOUS
    <2>2. d.pc = "delete" /\ d.op = "delete"
      BY <1>2, <1>7, <2>1 DEF Call
    <2>3. wk' = [wk EXCEPT ![w] = d] /\ CallLeads(d, lb', listeners', Own(pools'))
      BY <1>2, <1>7, <2>1, <2>2 DEF CallLeads, Working, Executing, Take
    <2> QED
      BY <1>1, <2>3, LeadMoves
  <1>8. CASE /\ Take(w, "listeners") /\ ~UpdateInvalid(wk[w])
             /\ wk[w].op \in {"ensure", "update"}
    <2>1. PICK d : d = [wk[w] EXCEPT !.pc = "listeners", !.lb = lb.id, !.refs = Refs]
      OBVIOUS
    <2>2. d.pc = "listeners" /\ d.op \in {"ensure", "update"} /\ d.svc = wk[w].svc
      BY <1>2, <1>8, <2>1 DEF Call
    <2>3. wk' = [wk EXCEPT ![w] = d]
      BY <1>2, <1>8, <2>1 DEF Take
    <2>4. PlacedAs(d.svc, lb')
      BY <1>1, <1>8, <2>2, ValidPlaces DEF UpdateInvalid
    <2>5. CallLeads(d, lb', listeners', Own(pools'))
      BY <2>2, <2>4 DEF CallLeads, Working, Executing
    <2> QED
      BY <1>1, <2>3, <2>5, LeadMoves
  <1> QED
    BY <1>3, <1>4, <1>5, <1>6, <1>7, <1>8

\* What a call at work has, of SerialInv and LeadInv.
LEMMA WorkLeads ==
    ASSUME TypeOK, SerialInv, LeadInv, NEW w \in Worker, wk[w].pc \in Working
    PROVE  /\ ~Idle(w) /\ wk[w].op \in {"ensure", "update"} /\ InVpc(lb)
           /\ PlacedAs(wk[w].svc, lb) /\ ~Gone(lb) /\ validateService(wk[w].svc)
           /\ wk[w].pc \in Executing =>
                 Leads(wk[w].svc, NodeList(wk[w].svc, wk[w].nodes), wk[w].plan,
                       listeners, Own(pools))
  <1>1. CallLeads(wk[w], lb, listeners, Own(pools)) /\ CallGood(wk[w], lb, listeners, pools)
    BY DEF LeadInv, SerialInv
  <1> QED
    BY <1>1 DEF CallLeads, CallGood, LeadInv, Idle, Working, Live, Gone

\* The two listings, and the plan made from them.
LEMMA LeadList ==
    ASSUME LocalHealth, TypeOK, PortInv, SerialInv, LeadInv, NEW w \in Worker,
           ListLoadBalancerListeners(w) \/ ListLoadBalancerPools(w)
    PROVE  LeadInv'
  <1>1. /\ ~Idle(w) /\ lb' = lb /\ listeners' = listeners /\ pools' = pools
        /\ InVpc(lb') /\ wk[w].pc \in {"listeners", "pools"}
    BY DEF ListLoadBalancerListeners, ListLoadBalancerPools, cloud, Idle, LeadInv
  <1>2. /\ wk[w] \in Call /\ wk \in [Worker -> Call]
        /\ CallGood(wk[w], lb, listeners, pools)
    BY DEF TypeOK, SerialInv
  <1>3. /\ wk[w].op \in {"ensure", "update"} /\ PlacedAs(wk[w].svc, lb)
        /\ ~Gone(lb) /\ validateService(wk[w].svc)
    BY <1>1, WorkLeads DEF Working
  <1>4. CASE Finish(w, "error")
    BY <1>1, <1>4, LeadEnds
  <1>5. CASE ListLoadBalancerListeners(w) /\ Found(w)
    <2>1. PICK d : d = [wk[w] EXCEPT !.pc = "pools", !.listeners = listeners]
      OBVIOUS
    <2>2. d.pc = "pools" /\ d.op = wk[w].op /\ d.svc = wk[w].svc
      BY <1>2, <2>1 DEF Call
    <2>3. wk' = [wk EXCEPT ![w] = d]
      BY <1>2, <1>5, <2>1 DEF ListLoadBalancerListeners
    <2>4. CallLeads(d, lb', listeners', Own(pools'))
      BY <1>1, <1>3, <2>2 DEF CallLeads, Executing
    <2> QED
      BY <1>1, <2>3, <2>4, LeadMoves
  <1>6. CASE ListLoadBalancerPools(w) /\ ~PlanError(pools)
    <2>1. PICK nodeList : nodeList = NodeList(wk[w].svc, wk[w].nodes)
      OBVIOUS
    <2>2. PICK plan : plan = Plan(wk[w].svc, nodeList, wk[w].listeners, pools)
      OBVIOUS
    <2>3. wk[w].pc = "pools" /\ wk[w].listeners = listeners
      BY <1>2, <1>6 DEF ListLoadBalancerPools, CallGood, Working
    <2>4. Sane(wk[w].svc, listeners, pools)
      BY <2>3, WorkSane DEF Working
    <2>5. /\ nodeList \subseteq Node
          /\ listeners \subseteq VpcLoadBalancerListener
      BY <1>2, <2>1, NodeListType DEF TypeOK, Call
    <2>6. Own(pools) = pools
      BY <1>6 DEF PlanError, Own
    <2>7. \A l \in listeners : \E p \in pools : p.id = l.pool /\ p.name.port = l.port
      BY DEF PortInv, ListenerTargetsOwnPort
    <2>8. Given(wk[w].svc, nodeList, listeners, pools)
      BY <2>4, <2>5, <2>6, <2>7 DEF Given, Sane, CloudGood
    <2>9. Leads(wk[w].svc, nodeList, plan, listeners, Own(pools))
      BY <2>2, <2>3, <2>6, <2>8, PlanLeads
    <2>10. \/ Finish(w, "error")
           \/ Finish(w, "ok") /\ plan = {}
           \/ wk' = [wk EXCEPT ![w].pc = "exec", ![w].pools = pools, ![w].plan = plan]
      BY <1>6, <2>1, <2>2 DEF ListLoadBalancerPools
    <2>11. CASE Finish(w, "ok") /\ plan = {}
      BY <1>1, <1>3, <2>1, <2>9, <2>11, LeadSucceeds
    <2>12. CASE wk' = [wk EXCEPT ![w].pc = "exec", ![w].pools = pools, ![w].plan = plan]
      <3>1. PICK d : d = [wk[w] EXCEPT !.pc = "exec", !.pools = pools, !.plan = plan]
        OBVIOUS
      <3>2. /\ d.pc = "exec" /\ d.op = wk[w].op /\ d.plan = plan
            /\ d.svc = wk[w].svc /\ d.nodes = wk[w].nodes
        BY <1>2, <3>1 DEF Call
      <3>3. wk' = [wk EXCEPT ![w] = d]
        BY <1>2, <2>12, <3>1
      <3>4. CallLeads(d, lb', listeners', Own(pools'))
        BY <1>1, <1>3, <2>1, <2>9, <3>2 DEF CallLeads
      <3> QED
        BY <1>1, <3>3, <3>4, LeadMoves
    <2> QED
      BY <1>4, <2>10, <2>11, <2>12
  <1> QED
    BY <1>4, <1>5, <1>6 DEF ListLoadBalancerListeners, ListLoadBalancerPools

\* The execution of a plan.
LEMMA LeadExec ==
    ASSUME TypeOK, PortInv, SerialInv, LeadInv, NEW w \in Worker, ExecUpdate(w)
    PROVE  LeadInv'
  <1>1. ~Idle(w) /\ wk[w].pc = "exec"
    BY DEF ExecUpdate, Idle
  <1>2. /\ wk[w] \in Call /\ wk \in [Worker -> Call]
        /\ CallGood(wk[w], lb, listeners, pools)
    BY DEF TypeOK, SerialInv
  <1>3. Sane(wk[w].svc, listeners, pools)
    BY <1>1, WorkSane DEF Working
  <1>4. /\ wk[w].op \in {"ensure", "update"} /\ PlacedAs(wk[w].svc, lb) /\ InVpc(lb)
        /\ validateService(wk[w].svc)
        /\ Leads(wk[w].svc, NodeList(wk[w].svc, wk[w].nodes), wk[w].plan,
                 listeners, Own(pools))
    BY <1>1, WorkLeads DEF Working, Executing
  <1>5. PlanGood(wk[w].svc, NodeList(wk[w].svc, wk[w].nodes), wk[w].plan, listeners, pools)
    BY <1>1, <1>2 DEF CallGood, Working, Executing
  <1>6. PICK u \in wk[w].plan :
           \/ (Finish(w, "busy") \/ Finish(w, "rule")) /\ UNCHANGED cloud
           \/ Performed(w, u) /\ Advance(w, u)
    BY DEF ExecUpdate
  <1>7. CASE (Finish(w, "busy") \/ Finish(w, "rule")) /\ UNCHANGED cloud
    BY <1>1, <1>4, <1>7, LeadEnds DEF cloud
  <1>8. CASE Performed(w, u) /\ Advance(w, u)
    <2>1. Leads(wk[w].svc, NodeList(wk[w].svc, wk[w].nodes), wk[w].plan \ {u},
                listeners', Own(pools'))
      BY <1>3, <1>4, <1>5, <1>8, PerformLeads DEF Performed
    <2>2. PICK rest : rest = wk[w].plan \ {u}
      OBVIOUS
    <2>3. PICK d : d = [wk[w] EXCEPT !.plan = rest,
                           !.pc = IF rest = {} THEN "done" ELSE "get",
                           !.result = IF rest = {} THEN "ok" ELSE "none"]
      OBVIOUS
    <2>4. /\ d.pc = IF rest = {} THEN "done" ELSE "get"
          /\ d.plan = rest /\ d.op = wk[w].op
          /\ d.svc = wk[w].svc /\ d.nodes = wk[w].nodes
      BY <1>2, <2>3 DEF Call
    <2>5. wk' = [wk EXCEPT ![w] = d]
      BY <1>2, <1>8, <2>2, <2>3 DEF Advance
    <2>6. lb'.public = lb.public /\ lb'.subnets = lb.subnets /\ lb'.status = "update_pending"
      BY <1>8 DEF Performed, TypeOK
    <2>7. PlacedAs(d.svc, lb') /\ InVpc(lb') /\ ~Gone(lb')
      BY <1>4, <2>4, <2>6 DEF PlacedAs, InVpc, Gone
    <2>8. Leads(d.svc, NodeList(d.svc, d.nodes), d.plan, listeners', Own(pools'))
      BY <2>1, <2>2, <2>4
    <2>9. CallLeads(d, lb', listeners', Own(pools'))
      <3>1. CASE rest = {}
        BY <1>4, <2>4, <2>7, <2>8, <3>1 DEF CallLeads, Working, Executing
      <3>2. CASE rest # {}
        BY <1>4, <2>4, <2>7, <2>8, <3>2 DEF CallLeads
      <3> QED
        BY <3>1, <3>2
    <2> QED
      BY <1>1, <2>5, <2>7, <2>9, LeadMoves
  <1> QED
    BY <1>6, <1>7, <1>8

\* Reading the load balancer again between two updates.
LEMMA LeadGet ==
    ASSUME TypeOK, SerialInv, LeadInv, NEW w \in Worker,
           GetLoadBalancer(w) \/ WaitLoadBalancerReady(w)
    PROVE  LeadInv'
  <1>1. /\ ~Idle(w) /\ lb' = lb /\ listeners' = listeners /\ pools' = pools
        /\ InVpc(lb') /\ wk[w].pc \in {"get", "wait"}
    BY DEF GetLoadBalancer, WaitLoadBalancerReady, cloud, Idle, LeadInv
  <1>2. wk[w] \in Call /\ wk \in [Worker -> Call]
    BY DEF TypeOK
  <1>3. \/ Finish(w, "error") \/ Finish(w, "busy")
        \/ \E pc \in {"exec", "wait"}, n \in Nat :
              wk' = [wk EXCEPT ![w] = [wk[w] EXCEPT !.refs = Refs, !.polls = n, !.pc = pc]]
    <2>1. wk[w].polls + 1 \in Nat
      BY <1>2, BoundAssumption DEF Call
    <2>2. CASE GetLoadBalancer(w)
      BY <1>2, <2>2 DEF GetLoadBalancer
    <2>3. CASE WaitLoadBalancerReady(w)
      BY <1>2, <2>1, <2>3 DEF WaitLoadBalancerReady
    <2> QED
      BY <2>2, <2>3
  <1>4. ASSUME NEW pc \in {"exec", "wait"}, NEW n \in Nat,
               wk' = [wk EXCEPT ![w] = [wk[w] EXCEPT !.refs = Refs, !.polls = n, !.pc = pc]]
        PROVE  LeadInv'
    <2>1. PICK d : d = [wk[w] EXCEPT !.refs = Refs, !.polls = n, !.pc = pc]
      OBVIOUS
    <2>2. /\ d.pc = pc /\ d.plan = wk[w].plan /\ d.op = wk[w].op
          /\ d.svc = wk[w].svc /\ d.nodes = wk[w].nodes
      BY <1>2, <2>1 DEF Call
    <2>3. wk' = [wk EXCEPT ![w] = d]
      BY <1>4, <2>1
    <2>4. /\ wk[w].op \in {"ensure", "update"} /\ PlacedAs(wk[w].svc, lb)
          /\ Leads(wk[w].svc, NodeList(wk[w].svc, wk[w].nodes), wk[w].plan,
                   listeners, Own(pools))
      BY <1>1, WorkLeads DEF Working, Executing
    <2>5. CallLeads(d, lb', listeners', Own(pools'))
      BY <1>1, <2>2, <2>4 DEF CallLeads
    <2> QED
      BY <1>1, <2>3, <2>5, LeadMoves
  <1> QED
    BY <1>1, <1>3, <1>4, LeadEnds

\* Every step of a call.
LEMMA LeadCall ==
    ASSUME LocalHealth, UniqueSubnets, TypeOK, PortInv, SerialInv, LeadInv,
           NEW w \in Worker,
           CallStep(w) \/ WaitTimeout(w) \/ ApiFails(w) \/ ReplyLost(w)
    PROVE  LeadInv'
  <1>1. /\ InVpc(lb) /\ CallLeads(wk[w], lb, listeners, Own(pools))
        /\ wk[w] \in Call /\ wk \in [Worker -> Call]
    BY DEF LeadInv, TypeOK
  <1>2. ASSUME ~CreateInvalid(wk[w]), CreateRequest(w)
        PROVE  PlacedAs(wk[w].svc, lb') /\ InVpc(lb') /\ ~Gone(lb')
    <2>1. /\ lb'.public = wk[w].svc.public /\ lb'.subnets = SubnetList(wk[w].svc)
          /\ lb'.status = "create_pending"
      BY <1>2 DEF CreateRequest
    <2>2. SubnetList(wk[w].svc) # {}
      BY <1>2 DEF CreateInvalid
    <2> QED
      BY <2>1, <2>2, CreatePlaces DEF Gone
  <1>3. ASSUME DeleteRequest
        PROVE  InVpc(lb') /\ Gone(lb')
    BY <1>1, <1>3 DEF DeleteRequest, InVpc, Gone, TypeOK
  <1>4. CASE CreateLoadBalancer(w)
    <2>1. ~Idle(w) /\ wk[w].op = "ensure"
      BY <1>1, <1>4 DEF CreateLoadBalancer, Idle, CallLeads
    <2>2. CASE Finish(w, "error") /\ UNCHANGED cloud
      BY <1>1, <2>1, <2>2, LeadEnds DEF cloud
    <2>3. CASE ~CreateInvalid(wk[w]) /\ CreateRequest(w) /\ Finish(w, "ok")
      <3>1. validateService(wk[w].svc)
        BY <2>3 DEF CreateInvalid
      <3> QED
        BY <1>2, <2>1, <2>3, <3>1, CreateLeads, LeadSucceeds
    <2> QED
      BY <1>4, <2>2, <2>3 DEF CreateLoadBalancer
  <1>5. CASE DeleteLoadBalancer(w)
    <2>1. ~Idle(w) /\ wk[w].op = "delete"
      BY <1>1, <1>5 DEF DeleteLoadBalancer, Idle, CallLeads
    <2>2. CASE Finish(w, "busy") /\ UNCHANGED cloud
      BY <1>1, <2>1, <2>2, LeadEnds DEF cloud
    <2>3. CASE DeleteRequest /\ Finish(w, "ok")
      BY <1>3, <2>1, <2>3, LeadSucceeds
    <2> QED
      BY <1>5, <2>2, <2>3 DEF DeleteLoadBalancer
  <1>6. CASE Return(w)
    <2>1. PICK d : d = IdleCall
      OBVIOUS
    <2>2. d.pc = "idle"
      BY <2>1 DEF IdleCall
    <2>3. ~Idle(w) /\ wk' = [wk EXCEPT ![w] = d] /\ lb' = lb
      BY <1>6, <2>1 DEF Return, Idle, cloud
    <2>4. CallLeads(d, lb', listeners', Own(pools'))
      BY <2>2 DEF CallLeads, Working, Executing
    <2> QED
      BY <1>1, <2>3, <2>4, LeadMoves
  <1>7. CASE WaitTimeout(w) \/ ApiFails(w)
    <2>1. ~Idle(w) /\ (Finish(w, "busy") \/ Finish(w, "error")) /\ lb' = lb
      BY <1>7 DEF WaitTimeout, ApiFails, Idle, cloud
    <2> QED
      BY <1>1, <2>1, LeadEnds
  <1>8. CASE ReplyLost(w)
    <2>1. ~Idle(w) /\ Finish(w, "error")
      BY <1>8 DEF ReplyLost, Idle
    <2>2. CASE lb' = [lb EXCEPT !.status = "update_pending"]
      BY <1>1, <2>1, <2>2, LeadEnds DEF InVpc, TypeOK
    <2>3. CASE ~CreateInvalid(wk[w]) /\ CreateRequest(w)
      BY <1>2, <2>1, <2>3, LeadEnds
    <2>4. CASE DeleteRequest
      BY <1>3, <2>1, <2>4, LeadEnds
    <2> QED
      BY <1>8, <2>2, <2>3, <2>4 DEF ReplyLost, Performed
  <1> QED
    BY <1>4, <1>5, <1>6, <1>7, <1>8, LeadFind, LeadList, LeadExec, LeadGet DEF CallStep

\* Every other step.
LEMMA LeadOutside ==
    ASSUME ~Overlap, TypeOK, SerialInv, LeadInv,
           \/ StartEnsure \/ StartDelete \/ StartUpdate
           \/ ChangeService \/ ToggleWanted \/ ChangeNodes
           \/ CloudReady \/ CloudDeleted \/ Maintenance
           \/ AddForeignPool \/ RemoveForeignPool \/ Restart
    PROVE  LeadInv'
  <1>1. /\ InVpc(lb) /\ \A w \in Worker : CallLeads(wk[w], lb, listeners, Own(pools))
        /\ \A w \in Worker : CallGood(wk[w], lb, listeners, pools)
    BY DEF LeadInv, SerialInv
  <1>2. CASE StartEnsure \/ StartDelete \/ StartUpdate
    <2>1. PICK w, op, svc, nodes :
             w \in Worker /\ Begin(w, op, svc, nodes) /\ \A v \in Worker : Idle(v)
      BY <1>2 DEF StartEnsure, StartDelete, StartUpdate, MayStart, Worker
    <2>2. PICK d : d = [IdleCall EXCEPT !.op = op, !.svc = svc, !.nodes = nodes,
                    !.pc = IF Refused(op, svc, nodes) THEN "done" ELSE "find",
                    !.result = IF Refused(op, svc, nodes) THEN "error" ELSE "none"]
      OBVIOUS
    <2>3. d.pc \in {"done", "find"} /\ d.result # "ok"
      BY <2>2 DEF IdleCall
    <2>4. wk' = [wk EXCEPT ![w] = d]
      BY <2>1, <2>2 DEF Begin
    <2>5. lb' = lb
      BY <1>2 DEF StartEnsure, StartDelete, StartUpdate, cloud
    <2>6. CallLeads(d, lb', listeners', Own(pools'))
      BY <2>3 DEF CallLeads, Working, Executing
    <2> QED
      BY <1>1, <2>1, <2>4, <2>5, <2>6, LeadMoves
  <1>3. CASE ChangeService \/ ToggleWanted \/ ChangeNodes
    BY <1>1, <1>3 DEF ChangeService, ToggleWanted, ChangeNodes, cloud, LeadInv
  <1>4. CASE CloudReady \/ Maintenance
    <2>1. /\ wk' = wk /\ listeners' = listeners /\ pools' = pools
          /\ lb'.public = lb.public /\ lb'.subnets = lb.subnets
          /\ ~Gone(lb) /\ ~Gone(lb') /\ lb.status # "none"
      BY <1>4 DEF CloudReady, Maintenance, TypeOK, Gone
    <2>2. InVpc(lb') /\ \A svc : PlacedAs(svc, lb) => PlacedAs(svc, lb')
      BY <1>1, <2>1 DEF InVpc, PlacedAs
    <2>3. \A w \in Worker : CallLeads(wk[w], lb', listeners', Own(pools'))
      BY <1>1, <2>1, <2>2 DEF CallLeads
    <2> QED
      BY <2>1, <2>2, <2>3 DEF LeadInv
  <1>5. CASE CloudDeleted
    <2>1. \A w \in Worker : wk[w].pc \notin Working
      BY <1>1, <1>5 DEF CloudDeleted, CallGood, Live
    <2>2. /\ wk' = wk /\ lb'.subnets = {} /\ lb'.status = "none" /\ Gone(lb) /\ Gone(lb')
      BY <1>5 DEF CloudDeleted, NoLb, Gone
    <2>3. \A w \in Worker : CallLeads(wk[w], lb', listeners', Own(pools'))
      BY <1>1, <2>1, <2>2 DEF CallLeads, Working, Executing
    <2> QED
      BY <2>2, <2>3 DEF LeadInv, InVpc
  <1>6. CASE AddForeignPool \/ RemoveForeignPool
    <2>1. /\ wk' = wk /\ lb' = lb /\ listeners' = listeners /\ Own(pools') = Own(pools)
      <3>1. CASE AddForeignPool
        <4>1. PICK new : new.name.protocol = "other" /\ pools' = pools \cup {new}
          BY <3>1 DEF AddForeignPool
        <4>2. Own(pools') = Own(pools)
          BY <4>1 DEF Own, Parses
        <4> QED
          BY <3>1, <4>2 DEF AddForeignPool
      <3>2. CASE RemoveForeignPool
        BY <3>2 DEF RemoveForeignPool, Own, Parses
      <3> QED
        BY <1>6, <3>1, <3>2
    <2> QED
      BY <1>1, <2>1 DEF LeadInv
  <1>7. CASE Restart
    <2>1. (\A w \in Worker : wk'[w].pc = "idle") /\ lb' = lb
      BY <1>7 DEF Restart, IdleCall, cloud
    <2> QED
      BY <1>1, <2>1 DEF LeadInv, CallLeads, Working, Executing
  <1> QED
    BY <1>2, <1>3, <1>4, <1>5, <1>6, <1>7

\* Plans lead to what their calls want, and a call that has succeeded has it.
THEOREM LeadCorrect ==
    ASSUME ~Overlap, LocalHealth, UniqueSubnets
    PROVE  Spec => []LeadInv
  <1>1. Init => LeadInv
    BY DEF Init, LeadInv, InVpc, NoLb, IdleCall, CallLeads, Working, Executing
  <1>2. TypeOK /\ PortInv /\ SerialInv /\ LeadInv /\ [Next]_vars => LeadInv'
    <2> SUFFICES ASSUME TypeOK, PortInv, SerialInv, LeadInv, [Next]_vars
                 PROVE  LeadInv'
      OBVIOUS
    <2>1. CASE UNCHANGED vars
      BY <2>1 DEF vars, LeadInv
    <2>2. CASE \E w \in Worker :
                  CallStep(w) \/ WaitTimeout(w) \/ ApiFails(w) \/ ReplyLost(w)
      BY <2>2, LeadCall
    <2>3. CASE ~\E w \in Worker :
                  CallStep(w) \/ WaitTimeout(w) \/ ApiFails(w) \/ ReplyLost(w)
      BY <2>1, <2>3, LeadOutside DEF Next
    <2> QED
      BY <2>2, <2>3
  <1> QED
    BY <1>1, <1>2, TypeCorrect, PortCorrect, SerialCorrect, PTL DEF Spec

\* A call that EnsureLoadBalancer or EnsureLoadBalancerUpdated reports as
\* successful has left exactly what its service and nodes ask for, for any
\* services, nodes, earlier failures and restarts, while calls do not overlap.
THEOREM SuccessDesired ==
    ASSUME ~Overlap, LocalHealth, UniqueSubnets
    PROVE  Spec => []SuccessMeansDesired
  <1>1. TypeOK /\ SerialInv /\ LeadInv => SuccessMeansDesired
    <2> SUFFICES ASSUME TypeOK, SerialInv, LeadInv, NEW w \in Worker,
                        wk[w].pc = "done", wk[w].result = "ok",
                        wk[w].op \in {"ensure", "update"}, lb.status # "none"
                 PROVE  Matches(wk[w].svc, wk[w].nodes) /\ Placed(wk[w].svc)
      BY DEF SuccessMeansDesired
    <2>1. CloudGood(listeners, pools) /\ wk[w].svc \in Services
      BY DEF SerialInv, TypeOK, Call
    <2>2. /\ validateService(wk[w].svc) /\ PlacedAs(wk[w].svc, lb)
          /\ Leads(wk[w].svc, NodeList(wk[w].svc, wk[w].nodes), {}, listeners, Own(pools))
      BY DEF LeadInv, CallLeads
    <2>3. Matches(wk[w].svc, wk[w].nodes)
      BY <2>1, <2>2, LeadsMatches
    <2>4. Placed(wk[w].svc)
      BY <2>2 DEF PlacedAs, Placed
    <2> QED
      BY <2>3, <2>4
  <1> QED
    BY <1>1, TypeCorrect, SerialCorrect, LeadCorrect, PTL


-----------------------------------------------------------------------------
(* What the controller's queues say of the load balancer *)

\* What a call was given is still wanted.
UpToDate(c) == c.svc = kube.service /\ (c.nodes = kube.nodes \/ kube.nodePending)

\* Each worker has operations of its own.
OwnOps ==
    /\ ~Idle("sync") => wk["sync"].op \in {"ensure", "delete"}
    /\ ~Idle("nodes") => wk["nodes"].op = "update"

\* While the service is being synced and is not queued again, the call is for
\* the service as it is.
SyncCurrent ==
    ~kube.syncPending /\ ~Idle("sync") =>
        IF kube.wanted THEN wk["sync"].op = "ensure" /\ UpToDate(wk["sync"])
                       ELSE wk["sync"].op = "delete"

\* Once it is synced and not queued again, the load balancer is there and in
\* its place, the controller remembers the service as it is, and so does a
\* node update under way; its hosts are right unless nodes are still to be
\* updated.  Or it is gone, and nothing is remembered.
SyncDone ==
    ~kube.syncPending /\ Idle("sync") =>
        IF kube.wanted
        THEN /\ kube.cached = {kube.service} /\ ~Gone(lb)
             /\ validateService(kube.service) /\ PlacedAs(kube.service, lb)
             /\ ~Idle("nodes") => UpToDate(wk["nodes"])
             /\ Idle("nodes") /\ ~kube.nodePending =>
                   Leads(kube.service, NodeList(kube.service, kube.nodes), {},
                         listeners, Own(pools))
        ELSE kube.cached = {} /\ Gone(lb) /\ Idle("nodes")

SettledInv == OwnOps /\ SyncCurrent /\ SyncDone

\* A step of a call before it returns: the call keeps its arguments, and the
\* controller's queues are not touched.
LEMMA CallKeepsArgs ==
    ASSUME TypeOK, NEW w \in Worker,
           \/ CallStep(w) /\ ~Return(w)
           \/ WaitTimeout(w) \/ ApiFails(w) \/ ReplyLost(w)
    PROVE  /\ kube' = kube /\ ~Idle(w)
           /\ \E d : /\ wk' = [wk EXCEPT ![w] = d] /\ d.pc # "idle"
                     /\ d.op = wk[w].op /\ d.svc = wk[w].svc /\ d.nodes = wk[w].nodes
  <1>1. wk[w] \in Call /\ wk \in [Worker -> Call]
    BY DEF TypeOK
  <1> DEFINE Goal == \E d : /\ wk' = [wk EXCEPT ![w] = d] /\ d.pc # "idle"
                            /\ d.op = wk[w].op /\ d.svc = wk[w].svc
                            /\ d.nodes = wk[w].nodes
  <1>2. ASSUME NEW d, wk' = [wk EXCEPT ![w] = d], d.pc # "idle",
               d.op = wk[w].op, d.svc = wk[w].svc, d.nodes = wk[w].nodes
        PROVE  Goal
    BY <1>2
  <1> HIDE DEF Goal
  <1>3. ASSUME NEW r, Finish(w, r)
        PROVE  Goal
    <2>1. PICK d : d = [wk[w] EXCEPT !.pc = "done", !.result = r]
      OBVIOUS
    <2>2. wk' = [wk EXCEPT ![w] = d]
      BY <1>1, <1>3, <2>1 DEF Finish
    <2>3. /\ d.pc # "idle" /\ d.op = wk[w].op /\ d.svc = wk[w].svc
          /\ d.nodes = wk[w].nodes
      BY <1>1, <2>1 DEF Call
    <2> QED
      BY <1>2, <2>2, <2>3
  <1>4. ASSUME NEW pc \in {"create", "delete", "listeners"},
               wk' = [wk EXCEPT ![w].pc = pc] \/ Take(w, pc)
        PROVE  Goal
    <2>1. CASE wk' = [wk EXCEPT ![w].pc = pc]
      <3>1. PICK d : d = [wk[w] EXCEPT !.pc = pc]
        OBVIOUS
      <3>2. wk' = [wk EXCEPT ![w] = d]
        BY <1>1, <2>1, <3>1
      <3>3. /\ d.pc # "idle" /\ d.op = wk[w].op /\ d.svc = wk[w].svc
            /\ d.nodes = wk[w].nodes
        BY <1>1, <3>1 DEF Call
      <3> QED
        BY <1>2, <3>2, <3>3
    <2>2. CASE Take(w, pc)
      <3>1. PICK d : d = [wk[w] EXCEPT !.pc = pc, !.lb = lb.id, !.refs = Refs]
        OBVIOUS
      <3>2. wk' = [wk EXCEPT ![w] = d]
        BY <1>1, <2>2, <3>1 DEF Take
      <3>3. /\ d.pc # "idle" /\ d.op = wk[w].op /\ d.svc = wk[w].svc
            /\ d.nodes = wk[w].nodes
        BY <1>1, <3>1 DEF Call
      <3> QED
        BY <1>2, <3>2, <3>3
    <2> QED
      BY <1>4, <2>1, <2>2
  <1>5. CASE FindLoadBalancer(w)
    <2>1. \/ \E pc \in {"create", "delete", "listeners"} :
                wk' = [wk EXCEPT ![w].pc = pc] \/ Take(w, pc)
          \/ Finish(w, "ok") \/ Finish(w, "error") \/ Finish(w, "busy")
      BY <1>5 DEF FindLoadBalancer, EnsureLoadBalancer, EnsureLoadBalancerDeleted,
         EnsureLoadBalancerUpdated, BeginUpdate
    <2> QED
      BY <1>3, <1>4, <1>5, <2>1 DEF FindLoadBalancer, cluster, Idle, Goal
  <1>6. CASE CreateLoadBalancer(w) \/ DeleteLoadBalancer(w)
    <2>1. /\ kube' = kube /\ ~Idle(w)
          /\ Finish(w, "ok") \/ Finish(w, "error") \/ Finish(w, "busy")
      BY <1>6 DEF CreateLoadBalancer, DeleteLoadBalancer, cluster, Idle
    <2> QED
      BY <1>3, <2>1 DEF Goal
  <1>7. CASE ListLoadBalancerListeners(w)
    <2>1. PICK d : d = [wk[w] EXCEPT !.pc = "pools", !.listeners = listeners]
      OBVIOUS
    <2>2. wk' = [wk EXCEPT ![w] = d] \/ Finish(w, "error")
      BY <1>1, <1>7, <2>1 DEF ListLoadBalancerListeners
    <2>3. /\ d.pc # "idle" /\ d.op = wk[w].op /\ d.svc = wk[w].svc
          /\ d.nodes = wk[w].nodes
      BY <1>1, <2>1 DEF Call
    <2>4. Goal
      BY <1>2, <1>3, <2>2, <2>3
    <2> QED
      BY <1>7, <2>4 DEF ListLoadBalancerListeners, cluster, Idle, Goal
  <1>8. CASE ListLoadBalancerPools(w)
    <2>1. PICK plan : plan = Plan(wk[w].svc, NodeList(wk[w].svc, wk[w].nodes),
                                  wk[w].listeners, pools)
      OBVIOUS
    <2>2. PICK d : d = [wk[w] EXCEPT !.pc = "exec", !.pools = pools, !.plan = plan]
      OBVIOUS
    <2>3. \/ Finish(w, "error") \/ Finish(w, "ok")
          \/ wk' = [wk EXCEPT ![w].pc = "exec", ![w].pools = pools, ![w].plan = plan]
      BY <1>8, <2>1 DEF ListLoadBalancerPools
    <2>4. wk' = [wk EXCEPT ![w] = d] \/ Finish(w, "error") \/ Finish(w, "ok")
      BY <1>1, <2>2, <2>3
    <2>5. /\ d.pc # "idle" /\ d.op = wk[w].op /\ d.svc = wk[w].svc
          /\ d.nodes = wk[w].nodes
      BY <1>1, <2>2 DEF Call
    <2>6. Goal
      BY <1>2, <1>3, <2>4, <2>5
    <2> QED
      BY <1>8, <2>6 DEF ListLoadBalancerPools, cluster, Idle, Goal
  <1>9. CASE ExecUpdate(w)
    <2>1. PICK u : \/ Finish(w, "busy") \/ Finish(w, "rule") \/ Advance(w, u)
      BY <1>9 DEF ExecUpdate
    <2>2. PICK d : d = [wk[w] EXCEPT !.plan = wk[w].plan \ {u},
                           !.pc = IF wk[w].plan \ {u} = {} THEN "done" ELSE "get",
                           !.result = IF wk[w].plan \ {u} = {} THEN "ok" ELSE "none"]
      OBVIOUS
    <2>3. wk' = [wk EXCEPT ![w] = d] \/ Finish(w, "busy") \/ Finish(w, "rule")
      BY <1>1, <2>1, <2>2 DEF Advance
    <2>4. /\ d.pc # "idle" /\ d.op = wk[w].op /\ d.svc = wk[w].svc
          /\ d.nodes = wk[w].nodes
      BY <1>1, <2>2 DEF Call
    <2>5. Goal
      BY <1>2, <1>3, <2>3, <2>4
    <2> QED
      BY <1>9, <2>5 DEF ExecUpdate, cluster, Idle, Goal
  <1>10. CASE GetLoadBalancer(w) \/ WaitLoadBalancerReady(w)
    <2>1. \/ Finish(w, "error") \/ Finish(w, "busy")
          \/ \E pc \in {"exec", "wait"} : \E n :
                wk' = [wk EXCEPT ![w] = [wk[w] EXCEPT !.refs = Refs, !.polls = n, !.pc = pc]]
      <3>1. CASE GetLoadBalancer(w)
        BY <1>1, <3>1 DEF GetLoadBalancer
      <3>2. CASE WaitLoadBalancerReady(w)
        BY <1>1, <3>2 DEF WaitLoadBalancerReady
      <3> QED
        BY <1>10, <3>1, <3>2
    <2>2. ASSUME NEW pc \in {"exec", "wait"}, NEW n,
                 wk' = [wk EXCEPT ![w] = [wk[w] EXCEPT !.refs = Refs, !.polls = n, !.pc = pc]]
          PROVE  Goal
      <3>1. PICK d : d = [wk[w] EXCEPT !.refs = Refs, !.polls = n, !.pc = pc]
        OBVIOUS
      <3>2. /\ d.pc # "idle" /\ d.op = wk[w].op /\ d.svc = wk[w].svc
            /\ d.nodes = wk[w].nodes
        BY <1>1, <3>1 DEF Call
      <3>3. wk' = [wk EXCEPT ![w] = d]
        BY <2>2, <3>1
      <3> QED
        BY <1>2, <3>2, <3>3
    <2>3. Goal
      BY <1>3, <2>1, <2>2
    <2> QED
      BY <1>10, <2>3 DEF GetLoadBalancer, WaitLoadBalancerReady, cluster, Idle, Goal
  <1>11. CASE WaitTimeout(w) \/ ApiFails(w) \/ ReplyLost(w)
    <2>1. kube' = kube /\ ~Idle(w) /\ (Finish(w, "busy") \/ Finish(w, "error"))
      BY <1>11 DEF WaitTimeout, ApiFails, ReplyLost, cluster, Idle
    <2> QED
      BY <1>3, <2>1 DEF Goal
  <1> QED
    BY <1>5, <1>6, <1>7, <1>8, <1>9, <1>10, <1>11 DEF CallStep

\* A node update does not make, move or delete a load balancer.
LEMMA UpdateKeepsLb ==
    ASSUME TypeOK, LeadInv, NEW w \in Worker, wk[w].op = "update",
           \/ CallStep(w) \/ WaitTimeout(w) \/ ApiFails(w) \/ ReplyLost(w)
    PROVE  lb' = lb \/ lb' = [lb EXCEPT !.status = "update_pending"]
  <1>1. wk[w].pc # "create" /\ wk[w].pc # "delete"
    BY DEF LeadInv, CallLeads
  <1>2. CASE \/ FindLoadBalancer(w) \/ ListLoadBalancerListeners(w)
             \/ ListLoadBalancerPools(w) \/ GetLoadBalancer(w)
             \/ WaitLoadBalancerReady(w) \/ Return(w) \/ WaitTimeout(w) \/ ApiFails(w)
    BY <1>2 DEF FindLoadBalancer, ListLoadBalancerListeners, ListLoadBalancerPools,
       GetLoadBalancer, WaitLoadBalancerReady, Return, WaitTimeout, ApiFails, cloud
  <1>3. CASE ExecUpdate(w)
    BY <1>3 DEF ExecUpdate, Performed, cloud
  <1>4. CASE ReplyLost(w)
    BY <1>1, <1>4 DEF ReplyLost, Performed
  <1> QED
    BY <1>1, <1>2, <1>3, <1>4 DEF CallStep, CreateLoadBalancer, DeleteLoadBalancer

\* The two workers, when one of them has a call.
LEMMA OtherIdle ==
    ASSUME SerialInv
    PROVE  Idle("sync") \/ Idle("nodes")
  BY DEF SerialInv, OneCall, Worker

\* Every step of a call but its return.
LEMMA SettledCall ==
    ASSUME TypeOK, SerialInv, LeadInv, SettledInv, NEW w \in Worker,
           \/ CallStep(w) /\ ~Return(w)
           \/ WaitTimeout(w) \/ ApiFails(w) \/ ReplyLost(w)
    PROVE  SettledInv'
  <1>1. PICK d : /\ wk' = [wk EXCEPT ![w] = d] /\ d.pc # "idle"
                 /\ d.op = wk[w].op /\ d.svc = wk[w].svc /\ d.nodes = wk[w].nodes
    BY CallKeepsArgs
  <1>2. kube' = kube /\ ~Idle(w)
    BY CallKeepsArgs
  <1>3. /\ wk'[w] = d /\ \A v \in Worker : v # w => wk'[v] = wk[v]
        /\ w \in {"sync", "nodes"} /\ "sync" \in Worker /\ "nodes" \in Worker
    BY <1>1 DEF TypeOK, Worker
  <1>4. /\ Idle("sync")' <=> Idle("sync")
        /\ Idle("nodes")' <=> Idle("nodes")
    BY <1>1, <1>2, <1>3 DEF Idle
  <1>5. OwnOps'
    BY <1>1, <1>3, <1>4 DEF SettledInv, OwnOps
  <1>6. SyncCurrent'
    BY <1>1, <1>2, <1>3, <1>4 DEF SettledInv, SyncCurrent, UpToDate
  <1>7. SyncDone'
    <2> SUFFICES ASSUME ~kube.syncPending, Idle("sync")
                 PROVE  SyncDone'
      BY <1>2, <1>4 DEF SyncDone
    <2>1. w = "nodes" /\ ~Idle("nodes") /\ wk[w].op = "update"
      BY <1>2, <1>3 DEF SettledInv, OwnOps
    <2>2. /\ kube.wanted /\ kube.cached = {kube.service} /\ ~Gone(lb)
          /\ validateService(kube.service) /\ PlacedAs(kube.service, lb)
          /\ UpToDate(wk["nodes"])
      BY <2>1 DEF SettledInv, SyncDone
    <2>3. lb' = lb \/ lb' = [lb EXCEPT !.status = "update_pending"]
      BY <2>1, UpdateKeepsLb
    <2>4. ~Gone(lb') /\ PlacedAs(kube.service, lb')
      BY <2>2, <2>3 DEF Gone, PlacedAs, TypeOK
    <2>5. UpToDate(wk["nodes"])'
      BY <1>1, <1>2, <1>3, <2>1, <2>2 DEF UpToDate
    <2> QED
      BY <1>2, <1>4, <2>1, <2>2, <2>4, <2>5 DEF SyncDone
  <1> QED
    BY <1>5, <1>6, <1>7 DEF SettledInv

\* The return of a call.
LEMMA SettledReturn ==
    ASSUME TypeOK, SerialInv, LeadInv, SettledInv, NEW w \in Worker, Return(w)
    PROVE  SettledInv'
  <1>1. PICK c : c = wk[w]
    OBVIOUS
  <1>2. /\ c.pc = "done" /\ lb' = lb /\ listeners' = listeners /\ pools' = pools
        /\ wk' = [wk EXCEPT ![w] = IdleCall] /\ ~Idle(w)
    BY <1>1 DEF Return, cloud, Idle
  <1>3. kube \in [service: Services, wanted: BOOLEAN, nodes: SUBSET Node,
                  cached: SUBSET Services, syncPending: BOOLEAN, nodePending: BOOLEAN]
    BY DEF TypeOK
  <1>4. /\ kube'.service = kube.service /\ kube'.wanted = kube.wanted
        /\ kube'.nodes = kube.nodes
        /\ kube'.syncPending <=> kube.syncPending \/ (c.result # "ok" /\ c.op # "update")
        /\ kube'.nodePending <=> kube.nodePending \/ (c.result # "ok" /\ c.op = "update")
        /\ c.result # "ok" \/ c.op = "update" => kube'.cached = kube.cached
        /\ c.result = "ok" /\ c.op = "ensure" => kube'.cached = {c.svc}
        /\ c.result = "ok" /\ c.op = "delete" => kube'.cached = {}
    BY <1>1, <1>3 DEF Return
  <1>5. /\ "sync" \in Worker /\ "nodes" \in Worker /\ w \in {"sync", "nodes"}
        /\ \A v \in Worker : Idle(v)'
    <2>1. IdleCall.pc = "idle"
      BY DEF IdleCall
    <2>2. \A v \in Worker : v # w => Idle(v) /\ wk'[v] = wk[v]
      BY <1>2 DEF SerialInv, OneCall, TypeOK
    <2>3. wk'[w] = IdleCall
      BY <1>2 DEF TypeOK
    <2> QED
      BY <2>1, <2>2, <2>3 DEF Worker, Idle
  <1>6. OwnOps' /\ SyncCurrent'
    BY <1>5 DEF OwnOps, SyncCurrent
  <1>7. CallLeads(c, lb, listeners, Own(pools))
    BY <1>1 DEF LeadInv
  <1>8. CASE w = "sync"
    <2> SUFFICES ASSUME ~kube'.syncPending
                 PROVE  SyncDone'
      BY <1>6 DEF SettledInv, SyncDone
    <2>1. ~kube.syncPending /\ c.result = "ok" /\ c.op # "update"
      BY <1>1, <1>2, <1>4, <1>8 DEF SettledInv, OwnOps
    <2>2. IF kube.wanted THEN c.op = "ensure" /\ UpToDate(c) ELSE c.op = "delete"
      BY <1>1, <1>2, <1>8, <2>1 DEF SettledInv, SyncCurrent
    <2>3. CASE kube.wanted
      <3>1. c.op = "ensure" /\ UpToDate(c) /\ (kube'.nodePending <=> kube.nodePending)
        BY <1>3, <1>4, <2>1, <2>2, <2>3
      <3>2. ~Gone(lb)
        BY <1>2, <1>7, <2>1, <3>1 DEF CallLeads
      <3>3. /\ validateService(c.svc) /\ PlacedAs(c.svc, lb)
            /\ Leads(c.svc, NodeList(c.svc, c.nodes), {}, listeners, Own(pools))
        BY <1>2, <1>7, <2>1, <3>1, <3>2 DEF CallLeads, Gone
      <3> QED
        BY <1>2, <1>4, <1>5, <2>1, <2>3, <3>1, <3>2, <3>3 DEF SyncDone, UpToDate
    <2>4. CASE ~kube.wanted
      BY <1>2, <1>4, <1>5, <1>7, <2>1, <2>2, <2>4 DEF SyncDone, CallLeads
    <2> QED
      BY <2>3, <2>4
  <1>9. CASE w = "nodes"
    <2> SUFFICES ASSUME ~kube'.syncPending
                 PROVE  SyncDone'
      BY <1>6 DEF SettledInv, SyncDone
    <2>1. ~kube.syncPending /\ c.op = "update" /\ Idle("sync")
      BY <1>1, <1>2, <1>4, <1>9, OtherIdle DEF SettledInv, OwnOps
    <2>2. /\ kube.wanted /\ kube.cached = {kube.service} /\ ~Gone(lb)
          /\ validateService(kube.service) /\ PlacedAs(kube.service, lb)
          /\ UpToDate(c)
      BY <1>1, <1>2, <1>9, <2>1 DEF SettledInv, SyncDone
    <2>3. ASSUME ~kube'.nodePending
          PROVE  Leads(kube.service, NodeList(kube.service, kube.nodes), {}, listeners,
                       Own(pools))
      <3>1. c.result = "ok" /\ ~kube.nodePending
        BY <1>4, <2>1, <2>3
      <3>2. Leads(c.svc, NodeList(c.svc, c.nodes), {}, listeners, Own(pools))
        BY <1>2, <1>7, <2>1, <2>2, <3>1 DEF CallLeads, Gone
      <3> QED
        BY <2>2, <3>1, <3>2 DEF UpToDate
    <2> QED
      BY <1>2, <1>4, <1>5, <2>1, <2>2, <2>3 DEF SyncDone
  <1> QED
    BY <1>5, <1>8, <1>9

\* Every other step.
LEMMA SettledOutside ==
    ASSUME ~Overlap, TypeOK, SerialInv, SettledInv,
           \/ StartEnsure \/ StartDelete \/ StartUpdate
           \/ ChangeService \/ ToggleWanted \/ ChangeNodes
           \/ CloudReady \/ CloudDeleted \/ Maintenance
           \/ AddForeignPool \/ RemoveForeignPool \/ Restart
    PROVE  SettledInv'
  <1>1. kube \in [service: Services, wanted: BOOLEAN, nodes: SUBSET Node,
                  cached: SUBSET Services, syncPending: BOOLEAN, nodePending: BOOLEAN]
    BY DEF TypeOK
  <1>2. /\ "sync" \in Worker /\ "nodes" \in Worker /\ Worker = {"sync", "nodes"}
        /\ "sync" # "nodes"
    BY DEF Worker
  <1>3. ASSUME NEW w, NEW op, NEW svc, NEW nodes, w \in Worker,
               Begin(w, op, svc, nodes), \A v \in Worker : Idle(v)
        PROVE  /\ wk'[w].op = op /\ wk'[w].svc = svc /\ wk'[w].nodes = nodes
               /\ ~Idle(w)' /\ \A v \in Worker : v # w => Idle(v)'
    <2>1. PICK d : d = [IdleCall EXCEPT !.op = op, !.svc = svc, !.nodes = nodes,
                    !.pc = IF Refused(op, svc, nodes) THEN "done" ELSE "find",
                    !.result = IF Refused(op, svc, nodes) THEN "error" ELSE "none"]
      OBVIOUS
    <2>2. d.op = op /\ d.svc = svc /\ d.nodes = nodes /\ d.pc # "idle"
      BY <2>1 DEF IdleCall
    <2>3. wk' = [wk EXCEPT ![w] = d]
      BY <1>3, <2>1 DEF Begin
    <2>4. wk'[w] = d /\ \A v \in Worker : v # w => wk'[v] = wk[v]
      BY <1>3, <2>3 DEF TypeOK
    <2> QED
      BY <1>3, <2>2, <2>4 DEF Idle
  <1>4. CASE StartEnsure
    <2>1. /\ kube.wanted /\ (\A v \in Worker : Idle(v))
          /\ Begin("sync", "ensure", kube.service, kube.nodes)
          /\ kube' = [kube EXCEPT !.syncPending = FALSE]
      BY <1>4 DEF StartEnsure, MayStart
    <2>2. /\ wk'["sync"].op = "ensure" /\ wk'["sync"].svc = kube.service
          /\ wk'["sync"].nodes = kube.nodes /\ ~Idle("sync")' /\ Idle("nodes")'
      BY <1>2, <1>3, <2>1
    <2> QED
      BY <1>1, <2>1, <2>2 DEF SettledInv, OwnOps, SyncCurrent, SyncDone, UpToDate
  <1>5. CASE StartDelete
    <2>1. /\ ~kube.wanted /\ (\A v \in Worker : Idle(v))
          /\ Begin("sync", "delete", kube.service, {})
          /\ kube' = [kube EXCEPT !.syncPending = FALSE]
      BY <1>5 DEF StartDelete, MayStart
    <2>2. wk'["sync"].op = "delete" /\ ~Idle("sync")' /\ Idle("nodes")'
      BY <1>2, <1>3, <2>1
    <2> QED
      BY <1>1, <2>1, <2>2 DEF SettledInv, OwnOps, SyncCurrent, SyncDone
  <1>6. CASE StartUpdate
    <2>1. PICK s \in kube.cached :
             /\ \A v \in Worker : Idle(v)
             /\ Begin("nodes", "update", s, kube.nodes)
             /\ kube' = [kube EXCEPT !.nodePending = FALSE]
             /\ lb' = lb
      BY <1>6 DEF StartUpdate, MayStart, cloud
    <2>2. /\ wk'["nodes"].op = "update" /\ wk'["nodes"].svc = s
          /\ wk'["nodes"].nodes = kube.nodes /\ ~Idle("nodes")' /\ Idle("sync")'
      BY <1>2, <1>3, <2>1
    <2>3. OwnOps' /\ SyncCurrent'
      BY <2>2 DEF OwnOps, SyncCurrent
    <2>4. /\ kube'.service = kube.service /\ kube'.wanted = kube.wanted
          /\ kube'.nodes = kube.nodes /\ kube'.cached = kube.cached
          /\ kube'.syncPending = kube.syncPending
      BY <1>1, <2>1
    <2>5. ASSUME ~kube.syncPending
          PROVE  /\ kube.wanted /\ kube.cached = {kube.service} /\ ~Gone(lb)
                 /\ validateService(kube.service) /\ PlacedAs(kube.service, lb)
                 /\ s = kube.service
      BY <1>2, <2>1, <2>5 DEF SettledInv, SyncDone
    <2>6. SyncDone'
      BY <2>1, <2>2, <2>4, <2>5 DEF SyncDone, UpToDate
    <2> QED
      BY <2>3, <2>6 DEF SettledInv
  <1>7. CASE ChangeService \/ ToggleWanted
    <2>1. wk' = wk /\ kube'.syncPending = TRUE
      BY <1>1, <1>7 DEF ChangeService, ToggleWanted
    <2> QED
      BY <2>1 DEF SettledInv, OwnOps, SyncCurrent, SyncDone, Idle
  <1>8. CASE ChangeNodes
    <2>1. /\ wk' = wk /\ lb' = lb
          /\ kube'.service = kube.service /\ kube'.wanted = kube.wanted
          /\ kube'.cached = kube.cached /\ kube'.syncPending = kube.syncPending
          /\ kube'.nodePending = TRUE
      BY <1>1, <1>8 DEF ChangeNodes, cloud
    <2>2. OwnOps'
      BY <2>1 DEF SettledInv, OwnOps, Idle
    <2>3. SyncCurrent'
      BY <2>1 DEF SettledInv, SyncCurrent, Idle, UpToDate
    <2>4. SyncDone'
      BY <2>1 DEF SettledInv, SyncDone, Idle, UpToDate
    <2> QED
      BY <2>2, <2>3, <2>4 DEF SettledInv
  <1>9. ASSUME wk' = wk, kube' = kube, listeners' = listeners, Own(pools') = Own(pools),
               Gone(lb') <=> Gone(lb),
               (lb'.public = lb.public /\ lb'.subnets = lb.subnets) \/ Gone(lb)
        PROVE  SettledInv'
    <2>1. OwnOps' /\ SyncCurrent'
      BY <1>9 DEF SettledInv, OwnOps, SyncCurrent, Idle, UpToDate
    <2>2. ~Gone(lb) => \A svc : PlacedAs(svc, lb) => PlacedAs(svc, lb')
      BY <1>9 DEF PlacedAs
    <2>3. SyncDone'
      BY <1>9, <2>2 DEF SettledInv, SyncDone, Idle, UpToDate
    <2> QED
      BY <2>1, <2>3 DEF SettledInv
  <1>10. CASE CloudReady \/ Maintenance
    BY <1>9, <1>10 DEF CloudReady, Maintenance, TypeOK, Gone, cluster
  <1>11. CASE CloudDeleted
    <2>1. wk' = wk /\ kube' = kube /\ Gone(lb) /\ Gone(lb')
      BY <1>11 DEF CloudDeleted, cluster, NoLb, Gone
    <2>2. OwnOps' /\ SyncCurrent'
      BY <2>1 DEF SettledInv, OwnOps, SyncCurrent, Idle, UpToDate
    <2>3. SyncDone'
      BY <2>1 DEF SettledInv, SyncDone, Idle
    <2> QED
      BY <2>2, <2>3 DEF SettledInv
  <1>12. CASE AddForeignPool \/ RemoveForeignPool
    <2>1. Own(pools') = Own(pools)
      <3>1. CASE AddForeignPool
        <4>1. PICK new : new.name.protocol = "other" /\ pools' = pools \cup {new}
          BY <3>1 DEF AddForeignPool
        <4> QED
          BY <4>1 DEF Own, Parses
      <3>2. CASE RemoveForeignPool
        BY <3>2 DEF RemoveForeignPool, Own, Parses
      <3> QED
        BY <1>12, <3>1, <3>2
    <2> QED
      BY <1>9, <1>12, <2>1 DEF AddForeignPool, RemoveForeignPool, cluster
  <1>13. CASE Restart
    <2>1. (\A w \in Worker : Idle(w)') /\ kube'.syncPending = TRUE
      BY <1>1, <1>13 DEF Restart, IdleCall, Idle
    <2> QED
      BY <1>2, <2>1 DEF SettledInv, OwnOps, SyncCurrent, SyncDone
  <1> QED
    BY <1>4, <1>5, <1>6, <1>7, <1>8, <1>10, <1>11, <1>12, <1>13

\* When the controller has nothing left to do, the VPC holds what the latest
\* service and nodes ask for, or nothing when the service is not wanted, for
\* any services, nodes, failures and restarts, while calls do not overlap.
THEOREM SettledDesired ==
    ASSUME ~Overlap, LocalHealth, UniqueSubnets
    PROVE  Spec => []SettledMeansDesired
  <1>1. Init => SettledInv
    BY DEF Init, SettledInv, OwnOps, SyncCurrent, SyncDone, Idle, IdleCall, Worker
  <1>2. TypeOK /\ SerialInv /\ LeadInv /\ SettledInv /\ [Next]_vars => SettledInv'
    <2> SUFFICES ASSUME TypeOK, SerialInv, LeadInv, SettledInv, [Next]_vars
                 PROVE  SettledInv'
      OBVIOUS
    <2>1. CASE UNCHANGED vars
      BY <2>1 DEF vars, SettledInv, OwnOps, SyncCurrent, SyncDone, Idle, UpToDate
    <2>2. CASE \E w \in Worker :
                  CallStep(w) \/ WaitTimeout(w) \/ ApiFails(w) \/ ReplyLost(w)
      BY <2>2, SettledCall, SettledReturn
    <2>3. CASE ~\E w \in Worker :
                  CallStep(w) \/ WaitTimeout(w) \/ ApiFails(w) \/ ReplyLost(w)
      BY <2>1, <2>3, SettledOutside DEF Next
    <2> QED
      BY <2>2, <2>3
  <1>3. TypeOK /\ SerialInv /\ SettledInv => SettledMeansDesired
    <2> SUFFICES ASSUME TypeOK, SerialInv, SettledInv, Quiet
                 PROVE  IF kube.wanted
                        THEN /\ ~Gone(lb)
                             /\ Matches(kube.service, kube.nodes)
                             /\ Placed(kube.service)
                        ELSE Gone(lb)
      BY DEF SettledMeansDesired, Gone
    <2>1. /\ Idle("sync") /\ Idle("nodes") /\ ~kube.syncPending
          /\ ~(kube.nodePending /\ kube.cached # {})
      BY DEF Quiet, Worker
    <2>2. CASE kube.wanted
      <3>1. /\ kube.cached = {kube.service} /\ ~Gone(lb)
            /\ validateService(kube.service) /\ PlacedAs(kube.service, lb)
        BY <2>1, <2>2 DEF SettledInv, SyncDone
      <3>2. Leads(kube.service, NodeList(kube.service, kube.nodes), {}, listeners,
                  Own(pools))
        BY <2>1, <2>2, <3>1 DEF SettledInv, SyncDone
      <3>3. CloudGood(listeners, pools) /\ kube.service \in Services
        BY DEF SerialInv, TypeOK
      <3>4. Matches(kube.service, kube.nodes)
        BY <3>1, <3>2, <3>3, LeadsMatches
      <3> QED
        BY <2>2, <3>1, <3>4 DEF PlacedAs, Placed
    <2>3. CASE ~kube.wanted
      BY <2>1, <2>3 DEF SettledInv, SyncDone
    <2> QED
      BY <2>2, <2>3
  <1> QED
    BY <1>1, <1>2, <1>3, TypeCorrect, SerialCorrect, LeadCorrect, PTL DEF Spec

=============================================================================
