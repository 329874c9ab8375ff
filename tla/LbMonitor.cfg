\* Deletions and events over edits, load balancers that fail or are removed by
\* hand, failed requests and restarts.
CONSTANTS
    a = a
    b = b
    web = web
    NumServices = 2
    Name = {a, b}
    OwnName = {a, b}
    UidName <- MCUidName
    CustomName <- Takeover
    Classed = {}
    Forms <- AllForms
    Trouble <- FailsOrDeleted
    MaxChanges = 2
    MaxId = 1
SPECIFICATION FairSpec
INVARIANTS TypeOK
PROPERTIES KeepsServed DeletesWhatItListed NoFalseAlarm EventsSettle OrphansRemoved
