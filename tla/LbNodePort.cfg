\* A node port service with a load balancer made by vpcctl.
CONSTANTS
    a = a
    b = b
    web = web
    NumServices = 2
    Name = {a, b}
    OwnName = {a, b}
    UidName <- MCUidName
    CustomName <- Takeover
    Classed = {}
    Forms <- NodePortForms
    Trouble <- FailsOrMaintained
    MaxChanges = 1
    MaxId = 1
SPECIFICATION Spec
PROPERTIES NodePortKept
