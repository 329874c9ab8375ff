\* The file is written between NewCloud and SetInformers.
CONSTANTS
    c1 = c1
    c2 = c2
    r1 = r1
    r2 = r2
    None = None
    Caller = {c1}
    Reader = {}
    MayReplace = FALSE
    EndpointOverride = TRUE
    MaxWrites = 1
    MaxFailures = 0
SPECIFICATION Spec
INVARIANTS NoMissedChange
