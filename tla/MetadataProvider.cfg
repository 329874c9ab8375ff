\* A node is registered again with another provider id.
CONSTANTS
    n1 = n1
    c1 = c1
    c2 = c2
    Name = {n1}
    Caller = {c1}
    TTL = 2
    MaxFill = 1
    MaxInc = 2
    MaxLost = 0
SPECIFICATION Spec
INVARIANTS ProviderIDMatches
