\* A load balancer fails and is then under maintenance.
CONSTANTS
    a = a
    b = b
    web = web
    NumServices = 2
    Name = {a, b}
    OwnName = {a, b}
    UidName <- MCUidName
    CustomName <- Takeover
    Classed = {}
    Forms <- LbForms
    Trouble <- FailsOrMaintained
    MaxChanges = 2
    MaxId = 1
SPECIFICATION Spec
PROPERTIES TwoFailuresWarn
