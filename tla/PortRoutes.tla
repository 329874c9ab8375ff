----------------------------- MODULE PortRoutes -----------------------------
(***************************************************************************)
(* What the reconciliation promises about the traffic of a service: a      *)
(* table of routes from external ports to targets.  A target serves one    *)
(* port for as long as it exists.  A port is opened only towards an        *)
(* existing target of its own and is closed before that target goes; it is *)
(* never redirected (rule 8 of UpdateLoadBalancer: "The listener is never  *)
(* updated").  The first table is made in one step.                        *)
(***************************************************************************)
CONSTANTS Port, Target

VARIABLES
    targets,  \* pairs <<target, the port it serves>>
    routes    \* pairs <<port, target>>

vars == <<targets, routes>>

Init == targets = {} /\ routes = {}

\* The table is made, with one target per port.
Provision ==
    /\ targets = {} /\ routes = {}
    /\ targets' \subseteq Target \X Port
    /\ \A s, t \in targets' : (s[1] = t[1] \/ s[2] = t[2]) => s = t
    /\ routes' = {<<t[2], t[1]>> : t \in targets'}

AddTarget ==
    /\ \E t \in Target, p \in Port :
          /\ \A s \in targets : s[1] # t
          /\ targets' = targets \cup {<<t, p>>}
    /\ UNCHANGED routes

RemoveTarget ==
    /\ \E t \in targets :
          /\ \A r \in routes : r[2] # t[1]
          /\ targets' = targets \ {t}
    /\ UNCHANGED routes

Open ==
    /\ \E t \in targets :
          /\ \A r \in routes : r[1] # t[2]
          /\ routes' = routes \cup {<<t[2], t[1]>>}
    /\ UNCHANGED targets

Close ==
    /\ \E r \in routes : routes' = routes \ {r}
    /\ UNCHANGED targets

\* The load balancer is deleted.
Clear == targets' = {} /\ routes' = {}

Next ==
    Provision \/ AddTarget \/ RemoveTarget \/ Open \/ Close \/ Clear

Spec == Init /\ [][Next]_vars

=============================================================================
