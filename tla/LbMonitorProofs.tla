--------------------------- MODULE LbMonitorProofs ---------------------------
(* Proofs about LbMonitor, for every number of services, every set of names  *)
(* and every way services are named and edited.                              *)
EXTENDS LbMonitor, FiniteSetTheorems, TLAPS

USE MonitorAssumption

\* The monitor is the record its actions make of it, and rests as Idle.
MonitorRecord ==
    /\ mon = [pc |-> mon.pc, all |-> mon.all, list |-> mon.list, vpc |-> mon.vpc,
              stale |-> mon.stale]
    /\ mon.pc = "idle" => mon = Idle

\* What the monitor kept of the services are load balancers, and what it is
\* about to delete was active, with no service of that name on the list.
StaleListed ==
    /\ \A s \in DOMAIN mon.list : mon.list[s].type = "LoadBalancer"
    /\ \A n \in mon.stale : mon.vpc[n].status = Active /\ NoService(mon.list, n)

\* A service whose load balancer is well since the run began has not been
\* edited since, and its load balancer was active when it was listed.
WellListed ==
    /\ \A s \in well : lb[LbName(s)].status = Active
    /\ mon.pc # "idle" => \A s \in well \cap DOMAIN mon.list : svc[s] = mon.list[s]
    /\ mon.pc = "clean" => \A s \in well \cap DOMAIN mon.list :
          LbName(s) \in OwnName =>
              LbName(s) \in DOMAIN mon.vpc /\ mon.vpc[LbName(s)].status = Active

\* The status map and the events agree on what is active.
ActiveReported == \A s \in Service : status[s] = Active => last[s] # "Warning"

\* The inductive invariant.
MonitorInv == TypeOK /\ MonitorRecord /\ StaleListed /\ WellListed /\ ActiveReported

\* The name of a service's load balancer is a name.
LEMMA LbNameType ==
    ASSUME TypeOK, NEW s \in Service
    PROVE  LbName(s) \in Name
  BY DEF LbName, TypeOK

\* A monitor at rest has no list.
LEMMA IdleType ==
    /\ Idle.pc = "idle" /\ Idle.stale = {}
    /\ DOMAIN Idle.all = {} /\ DOMAIN Idle.list = {} /\ DOMAIN Idle.vpc = {}
    /\ Idle = [pc |-> Idle.pc, all |-> Idle.all, list |-> Idle.list, vpc |-> Idle.vpc,
               stale |-> Idle.stale]
  BY DEF Idle, Empty

\* The monitor's part of TypeOK.
MonitorType ==
    /\ mon.pc \in {"idle", "gather", "clean"}
    /\ mon.all \in [DOMAIN mon.all -> ServiceObject]
    /\ DOMAIN mon.list \subseteq DOMAIN mon.all /\ DOMAIN mon.all \subseteq Service
    /\ mon.list \in [DOMAIN mon.list -> ServiceObject]
    /\ mon.stale \subseteq DOMAIN mon.vpc /\ DOMAIN mon.vpc \subseteq OwnName
    /\ mon.vpc \in [DOMAIN mon.vpc -> LbObject]

\* The conjuncts of the invariant that speak of the monitor hold at rest.
LEMMA IdleKeeps ==
    /\ mon = Idle => MonitorType /\ MonitorRecord /\ StaleListed /\ mon.pc = "idle"
    /\ mon' = Idle => MonitorType' /\ MonitorRecord' /\ StaleListed' /\ mon'.pc = "idle"
  <1>1. Idle.all \in [DOMAIN Idle.all -> ServiceObject]
          /\ Idle.list \in [DOMAIN Idle.list -> ServiceObject]
          /\ Idle.vpc \in [DOMAIN Idle.vpc -> LbObject]
    BY DEF Idle, Empty
  <1>2. mon = Idle => MonitorType /\ MonitorRecord /\ StaleListed /\ mon.pc = "idle"
    BY <1>1, IdleType DEF MonitorType, MonitorRecord, StaleListed
  <1>3. mon' = Idle => MonitorType' /\ MonitorRecord' /\ StaleListed' /\ mon'.pc = "idle"
    BY <1>1, IdleType DEF MonitorType, MonitorRecord, StaleListed
  <1> QED
    BY <1>2, <1>3

\* Initially nothing runs and nothing has been reported.
LEMMA MonitorInit == Init => MonitorInv
  <1> SUFFICES ASSUME Init
               PROVE  MonitorInv
    OBVIOUS
  <1>1. MonitorType /\ MonitorRecord /\ StaleListed /\ mon.pc = "idle"
    BY IdleKeeps DEF Init
  <1>2. Absent \in ServiceObject /\ Gone \in ServiceObject
    BY DEF Absent, Gone, ServiceObject
  <1>3. UNION {Forms[s] : s \in Service} \subseteq ServiceObject
    OBVIOUS
  <1>4. svc \in [Service -> ServiceObject]
    BY <1>2, <1>3 DEF Init
  <1>5. 0 \in 0 .. MaxId /\ 0 \in 0 .. MaxChanges
    OBVIOUS
  <1>6. lb \in [Name -> LbObject]
    BY <1>5 DEF Init, LbObject
  <1>7. TypeOK
    BY <1>1, <1>4, <1>5, <1>6 DEF Init, TypeOK, MonitorType
  <1>8. WellListed
    BY <1>1 DEF Init, WellListed
  <1>9. ActiveReported
    BY DEF Init, ActiveReported
  <1> QED
    BY <1>1, <1>7, <1>8, <1>9 DEF MonitorInv

\* The services are listed.
LEMMA ListKeeps ==
    ASSUME MonitorInv, ListServices
    PROVE  MonitorInv'
  <1>1. TypeOK /\ ActiveReported /\ UNCHANGED <<svc, lb, status, last, changes>>
    BY DEF MonitorInv, ListServices
  <1>2. well' \subseteq Service /\ \A s \in well' : lb'[LbName(s)'].status = Active
    BY <1>1 DEF ListServices, LbName
  <1>3. ActiveReported'
    BY <1>1 DEF ActiveReported
  <1> DEFINE listed == {s \in Service : Monitored(s)}
  <1>4. CASE listed = {}
    <2>1. mon' = Idle
      BY <1>4 DEF ListServices
    <2>2. MonitorType' /\ MonitorRecord' /\ StaleListed' /\ mon'.pc = "idle"
      BY <2>1, IdleKeeps
    <2> QED
      BY <1>1, <1>2, <1>3, <2>2 DEF MonitorInv, TypeOK, MonitorType, WellListed
  <1>5. CASE listed # {}
    <2>1. mon' = [Idle EXCEPT !.pc = "gather", !.all = svc, !.list = [s \in listed |-> svc[s]]]
      BY <1>5 DEF ListServices
    <2>2. /\ mon'.pc = "gather" /\ mon'.all = svc /\ mon'.list = [s \in listed |-> svc[s]]
          /\ mon'.vpc = Idle.vpc /\ mon'.stale = {}
          /\ mon' = [pc |-> mon'.pc, all |-> mon'.all, list |-> mon'.list, vpc |-> mon'.vpc,
                     stale |-> mon'.stale]
      BY <2>1 DEF Idle
    <2>3. MonitorType'
      <3>1. DOMAIN svc = Service /\ svc \in [Service -> ServiceObject]
        BY <1>1 DEF TypeOK
      <3>2. Idle.vpc \in [DOMAIN Idle.vpc -> LbObject] /\ DOMAIN Idle.vpc = {}
        BY DEF Idle, Empty
      <3> QED
        BY <2>2, <3>1, <3>2 DEF MonitorType
    <2>4. MonitorRecord' /\ StaleListed'
      BY <2>2 DEF MonitorRecord, StaleListed, Monitored
    <2>5. WellListed'
      BY <1>1, <1>2, <2>2 DEF WellListed
    <2> QED
      BY <1>1, <1>2, <1>3, <2>3, <2>4, <2>5 DEF MonitorInv, TypeOK, MonitorType
  <1> QED
    BY <1>4, <1>5

\* A run that fails, or a restart.
LEMMA StopKeeps ==
    ASSUME MonitorInv, ListFails \/ Restart
    PROVE  MonitorInv'
  <1>1. TypeOK /\ WellListed /\ ActiveReported /\ UNCHANGED <<svc, lb, last, well>>
    BY DEF MonitorInv, ListFails, Restart
  <1>2. mon' = Idle
    BY DEF ListFails, Restart
  <1>3. MonitorType' /\ MonitorRecord' /\ StaleListed' /\ mon'.pc = "idle"
    BY <1>2, IdleKeeps
  <1>4. /\ status' \in [Service -> Failing \cup {Active, NotFound, NoLb}]
        /\ \A s \in Service : status'[s] = Active => status[s] = Active
    BY <1>1 DEF ListFails, Restart, TypeOK, Active, NoLb
  <1>5. changes' \in 0 .. MaxChanges
    BY <1>1 DEF ListFails, Restart, Change, TypeOK
  <1>6. TypeOK'
    BY <1>1, <1>3, <1>4, <1>5 DEF TypeOK, MonitorType
  <1>7. WellListed'
    BY <1>1, <1>3 DEF WellListed, LbName
  <1>8. ActiveReported'
    BY <1>1, <1>4 DEF ActiveReported
  <1> QED
    BY <1>3, <1>6, <1>7, <1>8 DEF MonitorInv

\* The load balancers are listed.
LEMMA GatherKeeps ==
    ASSUME MonitorInv, GatherLoadBalancers
    PROVE  MonitorInv'
  <1>1. /\ TypeOK /\ MonitorRecord /\ StaleListed /\ WellListed /\ ActiveReported
        /\ UNCHANGED <<svc, lb, status, last, well, changes>>
    BY DEF MonitorInv, GatherLoadBalancers
  <1> DEFINE own == {n \in OwnName : lb[n].status # NoLb}
             vpc == [n \in own |-> lb[n]]
  <1>2. /\ mon'.pc = "clean" /\ mon'.all = mon.all /\ mon'.list = mon.list
        /\ mon'.vpc = vpc /\ mon'.stale = {n \in own : Stale(n, mon.list, vpc)}
        /\ mon' = [pc |-> mon'.pc, all |-> mon'.all, list |-> mon'.list, vpc |-> mon'.vpc,
                   stale |-> mon'.stale]
    BY <1>1 DEF GatherLoadBalancers, MonitorRecord
  <1>3. DOMAIN vpc = own /\ vpc \in [own -> LbObject] /\ own \subseteq OwnName
    BY <1>1 DEF TypeOK
  <1>4. TypeOK'
    BY <1>1, <1>2, <1>3 DEF TypeOK
  <1>5. MonitorRecord'
    BY <1>2 DEF MonitorRecord
  <1>6. StaleListed'
    BY <1>1, <1>2 DEF StaleListed, Stale
  <1>7. WellListed'
    <2>1. \A s \in well : lb[LbName(s)].status = Active /\ Active # NoLb
      BY <1>1 DEF WellListed, Active, NoLb
    <2>2. \A s \in well : LbName(s) \in OwnName => LbName(s) \in own
      BY <2>1
    <2>3. mon.pc # "idle"
      BY DEF GatherLoadBalancers
    <2> QED
      BY <1>1, <1>2, <1>3, <2>1, <2>2, <2>3 DEF WellListed, LbName
  <1>8. ActiveReported'
    BY <1>1 DEF ActiveReported
  <1> QED
    BY <1>4, <1>5, <1>6, <1>7, <1>8 DEF MonitorInv

\* The load balancers change, and the services that are well with them.
LEMMA LbKeeps ==
    ASSUME MonitorInv, lb' \in [Name -> LbObject], changes' \in 0 .. MaxChanges,
           well' \subseteq well, \A s \in well' : lb'[LbName(s)].status = Active,
           UNCHANGED <<svc, status, last>>,
           NEW n, mon' = mon \/ mon' = [mon EXCEPT !.stale = mon.stale \ {n}]
    PROVE  MonitorInv'
  <1>1. TypeOK /\ MonitorRecord /\ StaleListed /\ WellListed /\ ActiveReported
    BY DEF MonitorInv
  <1>2. /\ mon'.pc = mon.pc /\ mon'.all = mon.all /\ mon'.list = mon.list
        /\ mon'.vpc = mon.vpc /\ mon'.stale \subseteq mon.stale
        /\ mon' = [pc |-> mon'.pc, all |-> mon'.all, list |-> mon'.list, vpc |-> mon'.vpc,
                   stale |-> mon'.stale]
    BY <1>1 DEF MonitorRecord
  <1>3. TypeOK'
    BY <1>1, <1>2 DEF TypeOK
  <1>4. MonitorRecord'
    <2>1. mon.pc = "idle" => mon'.stale = {}
      BY <1>1, <1>2, IdleType DEF MonitorRecord
    <2> QED
      BY <1>1, <1>2, <2>1, IdleType DEF MonitorRecord
  <1>5. StaleListed'
    BY <1>1, <1>2 DEF StaleListed
  <1>6. WellListed'
    BY <1>1, <1>2 DEF WellListed, LbName
  <1>7. ActiveReported'
    BY <1>1 DEF ActiveReported
  <1> QED
    BY <1>3, <1>4, <1>5, <1>6, <1>7 DEF MonitorInv

\* A stale load balancer is deleted, or that fails.
LEMMA DeleteStaleKeeps ==
    ASSUME MonitorInv, NEW n \in Name, DeleteStale(n)
    PROVE  MonitorInv'
  <1>1. TypeOK
    BY DEF MonitorInv
  <1>2. lb' \in [Name -> LbObject]
    <2>1. lb' = lb \/ lb' = [lb EXCEPT ![n].status = "offline/delete_pending"]
      BY DEF DeleteStale
    <2> QED
      BY <1>1, <2>1 DEF TypeOK, LbObject, Failing
  <1>3. changes' \in 0 .. MaxChanges
    <2>1. changes' = changes \/ (changes < MaxChanges /\ changes' = changes + 1)
      BY DEF DeleteStale
    <2> QED
      BY <1>1, <2>1 DEF TypeOK
  <1>4. /\ well' \subseteq well /\ \A s \in well' : lb'[LbName(s)].status = Active
        /\ mon' = [mon EXCEPT !.stale = mon.stale \ {n}] /\ UNCHANGED <<svc, status, last>>
    BY DEF DeleteStale, StopBeingWell
  <1> QED
    BY <1>2, <1>3, <1>4, LbKeeps

\* The controller and the VPC change a load balancer.
LEMMA SurroundingsKeep ==
    ASSUME MonitorInv,
           \/ \E n \in Name : VpcStatus(n)
           \/ \E s \in Service : CreateLb(s) \/ DeleteLb(s)
    PROVE  MonitorInv'
  <1>1. TypeOK /\ WellListed
    BY DEF MonitorInv
  <1>2. CASE \E n \in Name : VpcStatus(n)
    <2>1. PICK n \in Name : VpcStatus(n)
      BY <1>2
    <2>2. PICK st \in Failing \cup {Active, NoLb} : lb' = [lb EXCEPT ![n].status = st]
      BY <2>1 DEF VpcStatus
    <2>3. lb' \in [Name -> LbObject]
      BY <1>1, <2>2 DEF TypeOK, LbObject
    <2>4. changes' \in 0 .. MaxChanges
      <3>1. changes' = changes \/ (changes < MaxChanges /\ changes' = changes + 1)
        BY <2>1 DEF VpcStatus, Change
      <3> QED
        BY <1>1, <3>1 DEF TypeOK
    <2>5. /\ well' \subseteq well /\ \A s \in well' : lb'[LbName(s)].status = Active
          /\ UNCHANGED <<svc, mon, status, last>>
      BY <2>1 DEF VpcStatus, StopBeingWell
    <2> QED
      BY <2>3, <2>4, <2>5, LbKeeps
  <1>3. CASE \E s \in Service : CreateLb(s)
    <2>1. PICK s \in Service : CreateLb(s)
      BY <1>3
    <2>2. PICK n \in Name : n = LbName(s)
      BY <1>1, LbNameType
    <2>3. PICK o \in LbObject : o = lb[n] /\ o.status = NoLb /\ o.id < MaxId
      BY <1>1, <2>1, <2>2 DEF TypeOK, CreateLb
    <2>4. lb' = [lb EXCEPT ![n] = [id |-> o.id + 1, status |-> "offline/create_pending"]]
      BY <2>1, <2>2, <2>3 DEF CreateLb
    <2>5. o.id + 1 \in 0 .. MaxId
      BY <2>3 DEF LbObject
    <2>6. [id |-> o.id + 1, status |-> "offline/create_pending"] \in LbObject
      BY <2>5 DEF LbObject, Failing
    <2>7. lb' \in [Name -> LbObject] /\ \A m \in Name \ {n} : lb'[m] = lb[m]
      BY <1>1, <2>4, <2>6 DEF TypeOK
    <2>8. UNCHANGED <<svc, mon, status, last, well, changes>>
      BY <2>1 DEF CreateLb
    <2>9. \A t \in well : lb'[LbName(t)].status = Active
      <3> SUFFICES ASSUME NEW t \in well
                   PROVE  lb'[LbName(t)].status = Active
        OBVIOUS
      <3>1. lb[LbName(t)].status = Active /\ Active # NoLb
        BY <1>1 DEF WellListed, Active, NoLb
      <3>2. LbName(t) \in Name \ {n}
        BY <1>1, <2>3, <3>1, LbNameType DEF TypeOK
      <3> QED
        BY <2>7, <3>1, <3>2
    <2>10. changes' \in 0 .. MaxChanges
      BY <1>1, <2>8 DEF TypeOK
    <2> QED
      BY <2>7, <2>8, <2>9, <2>10, LbKeeps
  <1>4. CASE \E s \in Service : DeleteLb(s)
    <2>1. PICK s \in Service : DeleteLb(s)
      BY <1>4
    <2>2. PICK n \in Name : n = LbName(s)
      BY <1>1, LbNameType
    <2>3. lb' = [lb EXCEPT ![n].status = "offline/delete_pending"]
      BY <2>1, <2>2 DEF DeleteLb
    <2>4. lb' \in [Name -> LbObject]
      BY <1>1, <2>3 DEF TypeOK, LbObject, Failing
    <2>5. /\ well' \subseteq well /\ \A t \in well' : lb'[LbName(t)].status = Active
          /\ UNCHANGED <<svc, mon, status, last>> /\ changes' \in 0 .. MaxChanges
      BY <1>1, <2>1 DEF DeleteLb, StopBeingWell, TypeOK
    <2> QED
      BY <2>4, <2>5, LbKeeps
  <1> QED
    BY <1>2, <1>3, <1>4

\* A service is edited, and no longer counts as well.
LEMMA EditKeeps ==
    ASSUME MonitorInv, NEW s \in Service, EditService(s)
    PROVE  MonitorInv'
  <1>1. /\ TypeOK /\ MonitorRecord /\ StaleListed /\ WellListed /\ ActiveReported
        /\ UNCHANGED <<lb, mon, status, last>> /\ well' = well \ {s}
    BY DEF MonitorInv, EditService
  <1>2. changes' \in 0 .. MaxChanges
    BY <1>1 DEF EditService, Change, TypeOK
  <1>3. svc' \in [Service -> ServiceObject] /\ \A t \in Service \ {s} : svc'[t] = svc[t]
    <2>1. CASE \E object \in Forms[s] : svc' = [svc EXCEPT ![s] = object]
      BY <1>1, <2>1 DEF TypeOK
    <2>2. CASE svc' = [svc EXCEPT ![s].type = "gone"]
      <3>1. PICK o \in ServiceObject : o = svc[s]
        BY <1>1 DEF TypeOK
      <3>2. [o EXCEPT !.type = "gone"] \in ServiceObject
        BY DEF ServiceObject
      <3>3. svc' = [svc EXCEPT ![s] = [o EXCEPT !.type = "gone"]]
        BY <1>1, <2>2, <3>1 DEF TypeOK
      <3> QED
        BY <1>1, <3>2, <3>3 DEF TypeOK
    <2> QED
      BY <2>1, <2>2 DEF EditService
  <1>4. TypeOK'
    BY <1>1, <1>2, <1>3 DEF TypeOK
  <1>5. \A t \in well' : t \in well /\ t \in Service \ {s} /\ svc'[t] = svc[t] /\ LbName(t)' = LbName(t)
    BY <1>1, <1>3 DEF TypeOK, LbName
  <1>6. WellListed'
    BY <1>1, <1>5 DEF WellListed
  <1>7. MonitorRecord' /\ StaleListed' /\ ActiveReported'
    BY <1>1 DEF MonitorRecord, StaleListed, ActiveReported
  <1> QED
    BY <1>4, <1>6, <1>7 DEF MonitorInv

\* The statuses and events of a run.
LEMMA ReportKeeps ==
    ASSUME MonitorInv, Report
    PROVE  MonitorInv'
  <1>1. TypeOK /\ WellListed /\ ActiveReported /\ UNCHANGED <<svc, lb, well, changes>>
    BY DEF MonitorInv, Report
  <1>2. mon' = Idle
    BY DEF Report
  <1>3. MonitorType' /\ MonitorRecord' /\ StaleListed' /\ mon'.pc = "idle"
    BY <1>2, IdleKeeps
  <1>4. \A n : NewStatus(n) \in Failing \cup {Active, NotFound, NoLb}
    BY <1>1 DEF NewStatus, TypeOK, LbObject
  <1>5. \A old, new : Event(old, new) \in {"none", "Normal", "Warning"}
    BY DEF Event
  <1>6. status' \in [Service -> Failing \cup {Active, NotFound, NoLb}]
    BY <1>1, <1>4 DEF Report, Kept, TypeOK
  <1>7. last' \in [Service -> {"none", "Normal", "Warning"}]
    BY <1>1, <1>5 DEF Report, TypeOK
  <1>8. TypeOK'
    BY <1>1, <1>3, <1>6, <1>7 DEF TypeOK, MonitorType
  <1>9. WellListed'
    BY <1>1, <1>3 DEF WellListed, LbName
  <1>10. ActiveReported'
    <2> SUFFICES ASSUME NEW s \in Service, status'[s] = Active
                 PROVE  last'[s] # "Warning"
      BY DEF ActiveReported
    <2>1. \/ status'[s] = status[s] /\ last'[s] = last[s]
          \/ \E new : /\ status'[s] = new
                      /\ last'[s] = IF Event(status[s], new) = "none" THEN last[s]
                                    ELSE Event(status[s], new)
      BY DEF Report, Kept
    <2> QED
      BY <1>1, <2>1 DEF ActiveReported, Event
  <1> QED
    BY <1>3, <1>8, <1>9, <1>10 DEF MonitorInv

\* Every step preserves the invariant.
LEMMA MonitorStep == MonitorInv /\ [Next]_vars => MonitorInv'
  <1> SUFFICES ASSUME MonitorInv, [Next]_vars
               PROVE  MonitorInv'
    OBVIOUS
  <1>1. CASE UNCHANGED vars
    BY <1>1 DEF MonitorInv, TypeOK, MonitorRecord, StaleListed, WellListed, ActiveReported,
          LbName, vars
  <1> QED
    BY <1>1, ListKeeps, StopKeeps, GatherKeeps, DeleteStaleKeeps, SurroundingsKeep,
       EditKeeps, ReportKeeps DEF Next

\* The invariant holds in every reachable state.
LEMMA MonitorInvariant == Spec => []MonitorInv
  BY MonitorInit, MonitorStep, PTL DEF Spec

-----------------------------------------------------------------------------

\* Type correctness: the monitor lists, keeps and reports on what there is.
THEOREM MonitorTypeCorrect == Spec => []TypeOK
  <1>1. MonitorInv => TypeOK
    BY DEF MonitorInv
  <1> QED
    BY <1>1, MonitorInvariant, PTL

\* No load balancer is deleted that a service on the monitor's list stands
\* for, unless the service was edited since.
THEOREM ServedKept == Spec => KeepsServed
  <1> DEFINE A == \A n \in OwnName, s \in DOMAIN mon.list :
                      MonitorDeletes(n) => svc[s] # mon.list[s] \/ LbName(s) # n
  <1>1. MonitorInv => A
    <2> SUFFICES ASSUME MonitorInv, NEW n \in OwnName, NEW s \in DOMAIN mon.list,
                        MonitorDeletes(n), svc[s] = mon.list[s]
                 PROVE  LbName(s) # n
      OBVIOUS
    <2>1. NoService(mon.list, n) /\ mon.list[s].type = "LoadBalancer"
      BY DEF MonitorInv, StaleListed, MonitorDeletes
    <2>2. GenerateLoadBalancerName(s, mon.list[s]) # n
      BY <2>1 DEF NoService, NamesOf
    <2> QED
      BY <2>2 DEF GenerateLoadBalancerName, LbName
  <1>2. []MonitorInv => [][A]_vars
    BY <1>1, PTL
  <1> QED
    BY <1>2, MonitorInvariant, PTL DEF KeepsServed

\* The deletions are of what was listed: the identifier tells a load balancer
\* from one made since under its name, and both are active.
THEOREM ListedDeleted == Spec => DeletesWhatItListed
  <1> DEFINE A == \A n \in OwnName : MonitorDeletes(n) => lb[n] = mon.vpc[n]
  <1>1. MonitorInv /\ [Next]_vars => A
    <2> SUFFICES ASSUME MonitorInv, [Next]_vars, NEW n \in OwnName, MonitorDeletes(n)
                 PROVE  lb[n] = mon.vpc[n]
      OBVIOUS
    <2>1. TypeOK /\ MonitorRecord /\ StaleListed
      BY DEF MonitorInv
    <2>2. mon' # mon /\ mon.pc = "clean" /\ mon'.pc = "clean"
      BY DEF MonitorDeletes
    <2>3. mon' # Idle
      BY <2>2, IdleType
    <2>4. PICK m \in Name : DeleteStale(m)
      BY <2>2, <2>3 DEF Next, vars, ListServices, ListFails, GatherLoadBalancers, Report,
            Restart, VpcStatus, EditService, CreateLb, DeleteLb
    <2>5. mon'.stale = mon.stale \ {m}
      BY <2>1, <2>4 DEF DeleteStale, MonitorRecord
    <2>6. m = n
      BY <2>5 DEF MonitorDeletes
    <2>7. Deletes(n)
      BY <2>4, <2>6 DEF DeleteStale, MonitorDeletes
    <2>8. mon.vpc[n].status = Active /\ mon.vpc[n] \in LbObject /\ lb[n] \in LbObject
      BY <2>1 DEF StaleListed, TypeOK, MonitorDeletes
    <2> QED
      BY <2>7, <2>8 DEF Deletes, LbObject
  <1>2. []MonitorInv /\ [][Next]_vars => [][A]_vars
    BY <1>1, PTL
  <1> QED
    BY <1>2, MonitorInvariant, PTL DEF Spec, DeletesWhatItListed

\* When no two services of the list give one name, lbMap has them all.
LEMMA AllReported ==
    ASSUME NEW D \in SUBSET Service, NEW list \in [D -> ServiceObject],
           \A s \in D : list[s].type = "LoadBalancer",
           Cardinality(DOMAIN lbMap(list)) = Cardinality(DOMAIN list),
           NEW s \in D
    PROVE  /\ GenerateLoadBalancerName(s, list[s]) \in DOMAIN lbMap(list)
           /\ lbMap(list)[GenerateLoadBalancerName(s, list[s])] = s
  <1> DEFINE name == [t \in D |-> GenerateLoadBalancerName(t, list[t])]
             names == NamesOf(list, "LoadBalancer")
             n == GenerateLoadBalancerName(s, list[s])
  <1>1. DOMAIN list = D /\ DOMAIN lbMap(list) = names
    BY DEF lbMap
  <1>2. \A t \in D : name[t] \in names
    BY <1>1 DEF NamesOf
  <1>3. \A m \in names : \E t \in D : name[t] = m
    BY <1>1 DEF NamesOf
  <1>4. name \in [D -> names]
    BY <1>2
  <1>5. name \in Surjection(D, names)
    BY <1>3, <1>4 DEF Surjection
  <1>6. IsFiniteSet(Service)
    BY FS_Interval DEF Service
  <1>7. IsFiniteSet(D)
    BY <1>6, FS_Subset
  <1>8. name \in Injection(D, names)
    <2> HIDE DEF name, names
    <2> QED
      BY <1>1, <1>5, <1>7, FS_SurjSameCardinalityImpliesInj
  <1>9. \A t \in D : name[t] = name[s] => t = s
    BY <1>8 DEF Injection, IsInjective
  <1>10. {t \in DOMAIN list : /\ list[t].type = "LoadBalancer"
                              /\ GenerateLoadBalancerName(t, list[t]) = n} = {s}
    BY <1>1, <1>9
  <1>11. Max({s}) = s
    BY DEF Max, Service
  <1>12. n \in names
    BY <1>2
  <1>13. lbMap(list)[n] = Max({s})
    BY <1>10, <1>12 DEF lbMap
  <1> QED
    BY <1>1, <1>11, <1>12, <1>13

\* The report of a service whose load balancer is well since the run began
\* and has a name with the cluster's prefix.
LEMMA WellReported ==
    ASSUME MonitorInv, [Next]_vars, NEW s \in DOMAIN mon.list \cap well,
           LbName(s) \in OwnName
    PROVE  NotAlarmed(s)
  <1> SUFFICES ASSUME Reports, status'[s] # NoLb,
                      Cardinality(DOMAIN lbMap(mon.list)) = Cardinality(DOMAIN mon.list)
               PROVE  last'[s] # "Warning"
    BY DEF NotAlarmed
  <1>1. TypeOK /\ StaleListed /\ WellListed /\ ActiveReported
    BY DEF MonitorInv
  <1>2. s \in Service /\ mon.pc = "clean" /\ mon' # mon /\ mon'.pc = "idle"
    BY <1>1 DEF TypeOK, Reports
  <1>3. CASE Restart
    BY <1>2, <1>3 DEF Restart
  <1>4. CASE Report
    <2>1. svc[s] = mon.list[s]
      BY <1>1, <1>2 DEF WellListed
    <2>2. PICK n \in OwnName : n = GenerateLoadBalancerName(s, mon.list[s]) /\ n = LbName(s)
      BY <2>1 DEF GenerateLoadBalancerName, LbName
    <2>3. NewStatus(n) = Active
      BY <1>1, <1>2, <2>2 DEF WellListed, NewStatus
    <2>4. n \in DOMAIN lbMap(mon.list) /\ lbMap(mon.list)[n] = s
      <3>1. PICK D \in SUBSET Service : D = DOMAIN mon.list /\ s \in D
        BY <1>1 DEF TypeOK
      <3>2. PICK list \in [D -> ServiceObject] : list = mon.list
        BY <1>1, <3>1 DEF TypeOK
      <3>3. /\ \A t \in D : list[t].type = "LoadBalancer"
            /\ Cardinality(DOMAIN lbMap(list)) = Cardinality(DOMAIN list)
        BY <1>1, <3>1, <3>2 DEF StaleListed
      <3>4. /\ GenerateLoadBalancerName(s, list[s]) \in DOMAIN lbMap(list)
            /\ lbMap(list)[GenerateLoadBalancerName(s, list[s])] = s
        BY <3>1, <3>3, AllReported
      <3> QED
        BY <2>2, <3>2, <3>4
    <2>5. last'[s] = IF Event(status[s], Active) = "none" THEN last[s]
                     ELSE Event(status[s], Active)
      BY <1>2, <1>4, <2>2, <2>3, <2>4 DEF Report
    <2> QED
      BY <1>1, <1>2, <2>5 DEF ActiveReported, Event
  <1>5. Report \/ Restart
    <2>1. ~GatherLoadBalancers
      BY <1>2 DEF GatherLoadBalancers
    <2>2. ~ListServices /\ ~ListFails
      BY <1>2 DEF ListServices, ListFails
    <2>3. \A n \in Name : ~DeleteStale(n)
      BY <1>2 DEF DeleteStale, MonitorInv, MonitorRecord
    <2> QED
      BY <1>2, <2>1, <2>2, <2>3 DEF Next, vars, VpcStatus, EditService, CreateLb, DeleteLb
  <1> QED
    BY <1>3, <1>4, <1>5

\* A service whose load balancer is active since the run began is not warned
\* about when the load balancer's name has the cluster's prefix.
THEOREM OwnNotAlarmed ==
    Spec => [][\A s \in DOMAIN mon.list \cap well :
                  LbName(s) \in OwnName => NotAlarmed(s)]_vars
  <1> DEFINE A == \A s \in DOMAIN mon.list \cap well : LbName(s) \in OwnName => NotAlarmed(s)
  <1>1. MonitorInv /\ [Next]_vars => A
    BY WellReported
  <1>2. []MonitorInv /\ [][Next]_vars => [][A]_vars
    BY <1>1, PTL
  <1> QED
    BY <1>2, MonitorInvariant, PTL DEF Spec

\* There are no false alarms when every name in an annotation has the prefix
\* (LbForeignName.cfg shows one where a name has not).
THEOREM NoAlarm ==
    ASSUME \A s \in Service : CustomName[s] \in OwnName
    PROVE  Spec => NoFalseAlarm
  <1> DEFINE A == \A s \in DOMAIN mon.list \cap well : NotAlarmed(s)
  <1>1. MonitorInv /\ [Next]_vars => A
    <2> SUFFICES ASSUME MonitorInv, [Next]_vars, NEW s \in DOMAIN mon.list \cap well
                 PROVE  NotAlarmed(s)
      OBVIOUS
    <2>1. LbName(s) \in OwnName
      BY DEF MonitorInv, TypeOK, LbName
    <2> QED
      BY <2>1, WellReported
  <1>2. []MonitorInv /\ [][Next]_vars => [][A]_vars
    BY <1>1, PTL
  <1> QED
    BY <1>2, MonitorInvariant, PTL DEF Spec, NoFalseAlarm

=============================================================================
