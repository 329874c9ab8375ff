\* Calls for a node that is deleted and registered again.
CONSTANTS
    n1 = n1
    c1 = c1
    c2 = c2
    Name = {n1}
    Caller = {c1, c2}
    TTL = 1
    MaxFill = 1
    MaxInc = 2
    MaxLost = 1
SPECIFICATION FairSpec
INVARIANTS TypeOK CurrentUnlessRaced StalenessBounded
PROPERTIES CacheRecovers
