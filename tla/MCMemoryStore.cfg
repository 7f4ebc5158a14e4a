SPECIFICATION Spec
CONSTANTS
    Clients = {c1, c2, c3}
    LockKeys = {k1}
    None = None
    Ids <- MCIds
    Values = {v}
    Missing = Missing
    NotCached = NotCached
    a = a
    b = b
    p = p
    v = v
    k1 = k1
    k2 = k2
    GuardKey <- MCGuardKey
    ReadSets <- MCReadSets
    PlainSets <- MCPlainSets
    MayClear = TRUE
    MaxCalls = 1
SYMMETRY ClientSymmetry
PROPERTIES
    ImplementsSerial
