SPECIFICATION FairSpec
CONSTANTS
    Clients = {c1, c2}
    LockKeys = {k1}
    None = None
    Ids = {a}
    Values = {v}
    Missing = Missing
    NotCached = NotCached
    a = a
    p = p
    v = v
    k1 = k1
    PreKeys = {}
    GuardKey <- MCGuardKeyA
    ReadSets = {{a}}
    PlainSets = {}
    MayClear = FALSE
    MaxCalls = 2
    MaxAttempts = 2
    MaxQueue = 2
    MaxFaults = 2
INVARIANTS
    MutualExclusion
    CommitHoldsLock
    NoLeakedLock
PROPERTIES
    EveryCallAnswered
