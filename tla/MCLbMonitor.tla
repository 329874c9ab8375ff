---------------------------- MODULE MCLbMonitor ----------------------------
(* Two services with load balancers a and b.  An annotation can make the   *)
(* first one take over b, or the second one ask for the name web, which    *)
(* has not this cluster's prefix.                                          *)
EXTENDS LbMonitor

CONSTANTS a, b, web

MCUidName == <<a, b>>
Takeover == <<b, b>>
Foreign == <<a, web>>

LbForm == [type |-> "LoadBalancer", custom |-> FALSE, supported |-> TRUE]
NamedForm == [LbForm EXCEPT !.custom = TRUE]
SctpForm == [LbForm EXCEPT !.supported = FALSE]
NodePortForm == [LbForm EXCEPT !.type = "NodePort"]

AllForms == <<{LbForm, NamedForm}, {LbForm, NodePortForm}>>
ForeignForms == <<{LbForm}, {NamedForm}>>
LbForms == <<{LbForm}, {LbForm}>>
NodePortForms == <<{LbForm}, {NodePortForm}>>
SctpForms == <<{LbForm}, {LbForm, SctpForm}>>

FailsOrDeleted == {"offline/failed", "offline/delete_pending"}
FailsOrMaintained == {"offline/failed", "offline/maintenance_pending"}
=============================================================================
