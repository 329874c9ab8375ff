\* An annotation gives a name without this cluster's prefix.
CONSTANTS
    a = a
    b = b
    web = web
    NumServices = 2
    Name = {a, b, web}
    OwnName = {a, b}
    UidName <- MCUidName
    CustomName <- Foreign
    Classed = {}
    Forms <- ForeignForms
    Trouble <- FailsOrMaintained
    MaxChanges = 0
    MaxId = 1
SPECIFICATION Spec
PROPERTIES NoFalseAlarm
