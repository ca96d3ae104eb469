SPECIFICATION FairSpec
CONSTANTS
    t1 = t1
    t2 = t2
    w1 = w1
    w2 = w2
    None = None
    Tasks = {t1, t2}
    Workers = {w1, w2}
    kind <- MCKind
    Consumes <- MCConsumes
    MaxCrashes = 2
    MaxCancels = 1
INVARIANTS
    TypeOK
    OneProcess
    NothingVanishes
    CancelledStops
    UnreadyExplained
PROPERTIES
    Settles
    Delivers
