\* The file is replaced once.
CONSTANTS
    c1 = c1
    c2 = c2
    r1 = r1
    r2 = r2
    None = None
    Caller = {c1}
    Reader = {}
    MayReplace = TRUE
    EndpointOverride = TRUE
    MaxWrites = 1
    MaxFailures = 0
SPECIFICATION FairSpec
PROPERTIES ReplacedTakesEffect
