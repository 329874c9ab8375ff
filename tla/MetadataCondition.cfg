\* A node is initialised.
CONSTANTS
    n1 = n1
    c1 = c1
    c2 = c2
    Name = {n1}
    Caller = {c1}
    TTL = 2
    MaxFill = 1
    MaxInc = 1
    MaxLost = 0
SPECIFICATION Spec
PROPERTIES InitialisedWithCondition
