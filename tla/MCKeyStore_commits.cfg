SPECIFICATION Spec
CONSTANTS
    Clients = {c1, c2}
    LockKeys = {k1}
    None = None
    Ids <- MCIds
    Values = {v}
    Missing = Missing
    NotCached = NotCached
    a = a
    p = p
    v = v
    k1 = k1
    PreKeys = {p}
    GuardKey <- MCGuardKey
    ReadSets <- MCReadSets
    PlainSets <- MCPlainSets
    MayClear = TRUE
    MaxCalls = 1
    MaxAttempts = 2
    MaxQueue = 1
    MaxFaults = 1
SYMMETRY ClientSymmetry
INVARIANTS
    CacheIsCommitted
    BackendIsCommitted
    ReadsStillHold
    NoLostCall
PROPERTIES
    ImplementsSerial
