\* A port of a load balancer service is changed to SCTP.
CONSTANTS
    a = a
    b = b
    web = web
    NumServices = 2
    Name = {a, b}
    OwnName = {a, b}
    UidName <- MCUidName
    CustomName <- Takeover
    Classed = {}
    Forms <- SctpForms
    Trouble <- FailsOrMaintained
    MaxChanges = 1
    MaxId = 1
SPECIFICATION Spec
PROPERTIES LoadBalancerServiceKept
