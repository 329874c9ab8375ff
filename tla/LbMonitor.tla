------------------------------ MODULE LbMonitor ------------------------------
(***************************************************************************)
(* The load balancer monitor: the task that runs every five minutes, lists *)
(* the cluster's services and the VPC's load balancers, deletes the ready  *)
(* load balancers of this cluster that have no service, and reports the    *)
(* status of the others as events (MonitorLoadBalancers and                *)
(* GatherLoadBalancers).  Between its two lists and its deletions the      *)
(* services are edited, the service controller creates and deletes load    *)
(* balancers, the VPC changes their status, and requests fail.             *)
(*                                                                         *)
(* A service is its UID, numbered in the order of the service list; a UID  *)
(* is never used again.                                                    *)
(***************************************************************************)
EXTENDS Naturals, FiniteSets, FiniteSetsExt

CONSTANTS
    NumServices,
    Name,         \* names of VPC load balancers
    OwnName,      \* those with the prefix kube-<cluster>-
    UidName,      \* the name GenerateLoadBalancerName makes of each UID
    CustomName,   \* the name in the vpc-lb-name annotation, where it is set
    Classed,      \* services with a loadBalancerClass
    Forms,        \* the objects users make of each service
    Trouble,      \* statuses that befall an existing load balancer
    MaxChanges,   \* bound: edits, status changes, failed requests, restarts
    MaxId         \* bound: load balancers ever created under one name

Service == 1 .. NumServices

ServiceObject == [type: {"absent", "LoadBalancer", "NodePort", "gone"},
                  custom: BOOLEAN,      \* the annotation names the LB
                  supported: BOOLEAN]   \* ports TCP or UDP, node ports allocated

Active == "online/active"
NotFound == "offline/not_found"
NoLb == "none"          \* no load balancer; also: no status recorded yet
Failing == {"offline/create_pending", "offline/failed",
            "offline/maintenance_pending", "offline/delete_pending"}

ASSUME MonitorAssumption ==
    /\ NumServices \in Nat /\ MaxChanges \in Nat /\ MaxId \in Nat
    /\ OwnName \subseteq Name
    /\ UidName \in [Service -> OwnName]
    /\ CustomName \in [Service -> Name]
    /\ Classed \subseteq Service
    /\ Forms \in [Service -> SUBSET ServiceObject]
    /\ Trouble \subseteq Failing
    /\ \A s, t \in Service : UidName[s] = UidName[t] => s = t

LbObject == [id: 0 .. MaxId, status: Failing \cup {Active, NoLb}]

VARIABLES
    svc,      \* the Service objects in the API server
    lb,       \* the VPC's load balancers; the id tells those of one name apart
    mon,      \* the running monitor: pc, all the services it listed and those
              \* it kept, its map of VPC load balancers, and the ones of these
              \* that it is still to delete
    status,   \* the status map kept between runs, by UID
    last,     \* history: the kind of the last event of each service
    well,     \* history: services whose LB is active since the run began
    changes   \* changes so far

vars == <<svc, lb, mon, status, last, well, changes>>

\* Type correctness.
TypeOK ==
    /\ svc \in [Service -> ServiceObject]
    /\ lb \in [Name -> LbObject]
    /\ mon.pc \in {"idle", "gather", "clean"}
    /\ mon.all \in [DOMAIN mon.all -> ServiceObject]
    /\ DOMAIN mon.list \subseteq DOMAIN mon.all /\ DOMAIN mon.all \subseteq Service
    /\ mon.list \in [DOMAIN mon.list -> ServiceObject]
    /\ mon.stale \subseteq DOMAIN mon.vpc /\ DOMAIN mon.vpc \subseteq OwnName
    /\ mon.vpc \in [DOMAIN mon.vpc -> LbObject]
    /\ status \in [Service -> Failing \cup {Active, NotFound, NoLb}]
    /\ last \in [Service -> {"none", "Normal", "Warning"}]
    /\ well \subseteq Service
    /\ changes \in 0 .. MaxChanges

Empty == [x \in {} |-> x]
Idle == [pc |-> "idle", all |-> Empty, list |-> Empty, vpc |-> Empty, stale |-> {}]

LbName(s) == IF svc[s].custom THEN CustomName[s] ELSE UidName[s]

\* filterLoadBalancersFromServiceList keeps these.
Monitored(s) ==
    /\ svc[s].type = "LoadBalancer"
    /\ s \notin Classed
    /\ svc[s].supported

Absent == [type |-> "absent", custom |-> FALSE, supported |-> TRUE]

Gone == [Absent EXCEPT !.type = "gone"]

\* The controller manager starts over whatever services and load balancers
\* an earlier one left.
Init ==
    /\ svc \in [Service -> {Absent, Gone} \cup UNION {Forms[s] : s \in Service}]
    /\ \A s \in Service : svc[s] \in Forms[s] \cup {Absent, Gone}
    /\ lb \in [Name -> {[id |-> 0, status |-> NoLb], [id |-> 0, status |-> Active]}]
    /\ \A s \in Service : svc[s] = Absent => lb[UidName[s]].status = NoLb
    /\ mon = Idle
    /\ status = [s \in Service |-> NoLb]
    /\ last = [s \in Service |-> "none"]
    /\ well = {} /\ changes = 0

-----------------------------------------------------------------------------
(* The names and the lists *)

\* Mutant: the annotation is not looked at.
NameFromUid(s, object) == UidName[s]

\* The annotation's name, or one made of the cluster and the UID.
GenerateLoadBalancerName(s, object) ==
    IF object.custom THEN CustomName[s] ELSE UidName[s]

NamesOf(list, type) ==
    {GenerateLoadBalancerName(s, list[s]) :
        s \in {t \in DOMAIN list : list[t].type = type}}

\* lbMap: under each name the last service of the list that has it.
lbMap(list) ==
    [n \in NamesOf(list, "LoadBalancer") |->
        Max({s \in DOMAIN list : /\ list[s].type = "LoadBalancer"
                                 /\ GenerateLoadBalancerName(s, list[s]) = n})]

\* lbMap and npMap hold no service for the name.
NoService(list, n) ==
    n \notin NamesOf(list, "LoadBalancer") \cup NamesOf(list, "NodePort")

-----------------------------------------------------------------------------
(* The monitor *)

\* MonitorLoadBalancers lists and filters; nothing to monitor ends the run.
ListServices ==
    LET listed == {s \in Service : Monitored(s)} IN
    /\ mon.pc = "idle"
    /\ mon' = IF listed = {} THEN Idle
              ELSE [Idle EXCEPT !.pc = "gather", !.all = svc,
                                !.list = [s \in listed |-> svc[s]]]
    /\ well' = {s \in Service : lb[LbName(s)].status = Active}
    /\ UNCHANGED <<svc, lb, status, last, changes>>

\* A failed request (either list, or InitCloudVpc) ends the run.
ListFails ==
    /\ mon.pc \in {"idle", "gather"} /\ changes < MaxChanges
    /\ mon' = Idle
    /\ changes' = changes + 1
    /\ UNCHANGED <<svc, lb, status, last, well>>

\* Mutant: only load balancers that are not ready are cleaned up.
StaleUnready(n, list, vpc) == vpc[n].status # Active /\ NoService(list, n)

Stale(n, list, vpc) == vpc[n].status = Active /\ NoService(list, n)

\* GatherLoadBalancers lists the load balancers and keeps this cluster's.
GatherLoadBalancers ==
    LET own == {n \in OwnName : lb[n].status # NoLb}
        vpc == [n \in own |-> lb[n]]
    IN
    /\ mon.pc = "gather"
    /\ mon' = [mon EXCEPT !.pc = "clean", !.vpc = vpc,
                          !.stale = {n \in own : Stale(n, mon.list, vpc)}]
    /\ UNCHANGED <<svc, lb, status, last, well, changes>>

\* Mutant: the load balancer is deleted by its name.
DeletedByName(n) == lb[n].status = Active

\* The VPC deletes an active load balancer, by its id, and refuses others.
Deletes(n) == lb[n].id = mon.vpc[n].id /\ lb[n].status = Active

StopBeingWell == well' = {s \in well : lb'[LbName(s)].status = Active}

\* One stale load balancer after the other, in any order; an error is logged.
DeleteStale(n) ==
    /\ mon.pc = "clean" /\ n \in mon.stale
    /\ \/ /\ Deletes(n)
          /\ lb' = [lb EXCEPT ![n].status = "offline/delete_pending"]
          /\ changes' = changes
       \/ /\ Deletes(n) => changes < MaxChanges
          /\ changes' = IF Deletes(n) THEN changes + 1 ELSE changes
          /\ lb' = lb
    /\ mon' = [mon EXCEPT !.stale = @ \ {n}]
    /\ StopBeingWell
    /\ UNCHANGED <<svc, status, last>>

\* Mutant: a status that is not one of operating/provisioning.
BareStatus(n) == IF n \in DOMAIN mon.vpc THEN mon.vpc[n].status ELSE "not_found"

\* The status when listed; without a load balancer, the one made up for that.
NewStatus(n) == IF n \in DOMAIN mon.vpc THEN mon.vpc[n].status ELSE NotFound

\* Mutant: a status that is not active is not kept.
KeepActive(old, new) == IF new = Active THEN new ELSE old

\* The status the next run compares with.
Kept(old, new) == new

\* Mutant: the old status decides about the warning.
EventOfOld(old, new) ==
    IF old # Active /\ old # NoLb THEN "Warning"
    ELSE IF new = Active THEN "Normal" ELSE "none"

\* Normal when the load balancer has become active, a warning when it is in
\* the same other status as in the last run that reported on the service.
Event(old, new) ==
    IF new = Active THEN IF old # Active THEN "Normal" ELSE "none"
    ELSE IF old = new THEN "Warning" ELSE "none"

\* MonitorLoadBalancers goes through lbMap, on what was listed.
Report ==
    LET map == lbMap(mon.list)
        reported == {map[n] : n \in DOMAIN map}
        new(s) == NewStatus(GenerateLoadBalancerName(s, mon.list[s]))
        event(s) == IF s \in reported THEN Event(status[s], new(s)) ELSE "none"
    IN
    /\ mon.pc = "clean" /\ mon.stale = {}
    /\ status' = [s \in Service |-> IF s \in reported THEN Kept(status[s], new(s))
                                    ELSE status[s]]
    /\ last' = [s \in Service |-> IF event(s) = "none" THEN last[s] ELSE event(s)]
    /\ mon' = Idle
    /\ UNCHANGED <<svc, lb, well, changes>>

-----------------------------------------------------------------------------
(* The surroundings *)

Change == changes < MaxChanges /\ changes' = changes + 1

\* A user creates, edits or deletes a service, or vpcctl tests with a node
\* port service.
EditService(s) ==
    /\ Change
    /\ svc[s].type # "gone"
    /\ \/ \E object \in Forms[s] \ {svc[s]} : svc' = [svc EXCEPT ![s] = object]
       \/ svc[s].type # "absent" /\ svc' = [svc EXCEPT ![s].type = "gone"]
    /\ well' = well \ {s}
    /\ UNCHANGED <<lb, mon, status, last>>

\* EnsureLoadBalancer, or vpcctl, makes the load balancer of the service.
CreateLb(s) ==
    /\ \/ Monitored(s)
       \/ svc[s].type = "NodePort"
    /\ lb[LbName(s)].status = NoLb /\ lb[LbName(s)].id < MaxId
    /\ lb' = [lb EXCEPT ![LbName(s)] =
                 [id |-> @.id + 1, status |-> "offline/create_pending"]]
    /\ UNCHANGED <<svc, mon, status, last, well, changes>>

\* EnsureLoadBalancerDeleted, for a service that is no load balancer any more.
DeleteLb(s) ==
    /\ svc[s].type \in {"gone", "NodePort"}
    /\ lb[LbName(s)].status \notin {NoLb, "offline/delete_pending"}
    /\ lb' = [lb EXCEPT ![LbName(s)].status = "offline/delete_pending"]
    /\ StopBeingWell
    /\ UNCHANGED <<svc, mon, status, last, changes>>

\* The VPC finishes what is pending, or a load balancer fails, recovers, is
\* under maintenance or deleted by hand.
VpcStatus(n) ==
    /\ \/ /\ lb[n].status = "offline/create_pending"
          /\ lb' = [lb EXCEPT ![n].status = Active]
          /\ changes' = changes
       \/ /\ lb[n].status = "offline/delete_pending"
          /\ lb' = [lb EXCEPT ![n].status = NoLb]
          /\ changes' = changes
       \/ /\ Change
          /\ lb[n].status \notin {NoLb, "offline/delete_pending"}
          /\ \E st \in ({Active} \cup Trouble) \ {lb[n].status} :
                lb' = [lb EXCEPT ![n].status = st]
    /\ StopBeingWell
    /\ UNCHANGED <<svc, mon, status, last>>

\* The controller manager restarts: the status map is lost.
Restart ==
    /\ Change
    /\ mon' = Idle
    /\ status' = [s \in Service |-> NoLb]
    /\ UNCHANGED <<svc, lb, last, well>>

Next ==
    \/ ListServices \/ ListFails \/ GatherLoadBalancers \/ Report \/ Restart
    \/ \E n \in Name : DeleteStale(n) \/ VpcStatus(n)
    \/ \E s \in Service : EditService(s) \/ CreateLb(s) \/ DeleteLb(s)

Spec == Init /\ [][Next]_vars

\* The task is called at every tick and runs to its end.  Nothing is assumed
\* of users, controller and VPC, except that changes come to an end.
Fairness ==
    /\ WF_vars(ListServices) /\ WF_vars(GatherLoadBalancers) /\ WF_vars(Report)
    /\ \A n \in Name : WF_vars(DeleteStale(n))

FairSpec == Spec /\ Fairness

-----------------------------------------------------------------------------
(* Properties *)

MonitorDeletes(n) ==
    /\ mon.pc = "clean" /\ mon'.pc = "clean"
    /\ n \in mon.stale /\ n \notin mon'.stale
    /\ lb'[n] # lb[n]

\* The monitor never deletes the load balancer of a service that it lists and
\* that has not been edited since, whatever name the service gives it.
KeepsServed ==
    [][\A n \in OwnName, s \in DOMAIN mon.list :
          MonitorDeletes(n) => svc[s] # mon.list[s] \/ LbName(s) # n]_vars

\* A load balancer the monitor deletes is the one it found orphaned: not one
\* created since under the same name, while the stale one was being removed
\* by somebody else.
DeletesWhatItListed ==
    [][\A n \in OwnName : MonitorDeletes(n) => lb[n] = mon.vpc[n]]_vars

Reports == mon.pc = "clean" /\ mon'.pc = "idle"

\* (Of two services that give one name only the later one is reported.)
NotAlarmed(s) ==
    /\ Reports /\ status'[s] # NoLb
    /\ Cardinality(DOMAIN lbMap(mon.list)) = Cardinality(DOMAIN mon.list)
    => last'[s] # "Warning"

\* At the end of a run the last event of a service whose load balancer has
\* been active since before the run listed anything is not a warning,
\* whatever the status map remembers of earlier runs.
NoFalseAlarm == [][\A s \in DOMAIN mon.list \cap well : NotAlarmed(s)]_vars

\* The events tell the lasting truth: when a monitored service's load
\* balancer stays active the last event says so, when it stays in one failing
\* state the last event is a warning; over restarts, failed runs and edits.
EventsSettle ==
    \A s \in Service :
        LET alone == \A t \in Service \ {s} : Monitored(t) => LbName(t) # LbName(s)
        IN
        /\ <>[](Monitored(s) /\ alone /\ lb[LbName(s)].status = Active)
              => <>[](last[s] = "Normal")
        /\ <>[](Monitored(s) /\ alone /\ lb[LbName(s)].status = "offline/failed")
              => <>[](last[s] = "Warning")

\* A ready load balancer of this cluster that no service stands for does not
\* stay, as long as some service is monitored (with none, VpcMonitorLoadBalancers
\* returns before it lists the load balancers).
OrphansRemoved ==
    \A n \in OwnName :
        ~<>[](/\ lb[n].status = Active
              /\ \A s \in Service : svc[s].type \in {"LoadBalancer", "NodePort"}
                                      => LbName(s) # n
              /\ \E s \in Service : Monitored(s))

NotDeletedFor(s, type) ==
    \A n \in OwnName :
        /\ MonitorDeletes(n)
        /\ LbName(s) = n /\ svc[s] = mon.all[s]
        => svc[s].type # type

\* The comment in GatherLoadBalancers: a load balancer is deleted only if no
\* node port service is associated with it.
NodePortKept == [][\A s \in DOMAIN mon.all : NotDeletedFor(s, "NodePort")]_vars

\* The same comment for load balancer services, whether or not the provider
\* still supports what the service asks for.
LoadBalancerServiceKept ==
    [][\A s \in DOMAIN mon.all : NotDeletedFor(s, "LoadBalancer")]_vars

Bad == {"offline/failed", "offline/maintenance_pending"}

\* The comment in MonitorLoadBalancers: a service that fails two consecutive
\* monitors gets a warning event.
TwoFailuresWarn ==
    [][\A s \in DOMAIN mon.list :
          Reports /\ status[s] \in Bad /\ status'[s] \in Bad
              => last'[s] = "Warning"]_vars

=============================================================================
