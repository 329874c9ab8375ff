\* Writes and replacements of the file while calls initialise the objects.
CONSTANTS
    c1 = c1
    c2 = c2
    r1 = r1
    r2 = r2
    None = None
    Caller = {c1, c2}
    Reader = {r1}
    MayReplace = TRUE
    EndpointOverride = TRUE
    MaxWrites = 2
    MaxFailures = 1
SPECIFICATION FairSpec
INVARIANTS TypeOK OnlyKeysUsed CurrentUnlessRaced
PROPERTIES CredentialTakesEffect
