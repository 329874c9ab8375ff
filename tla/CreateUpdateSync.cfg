\* The wake up of waiting creates; no thread blocks for ever.
CONSTANTS
    e1 = e1
    e2 = e2
    u1 = u1
    u2 = u2
    u3 = u3
    NoOne = NoOne
    Ensurer <- MCEnsurer
    Updater <- MCUpdater
    MaxWait = 3
SPECIFICATION FairSpec
INVARIANTS TypeOK ClosedOnce NilMeansClosed NoLateWait
PROPERTIES CallsReturn
