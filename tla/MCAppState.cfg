SPECIFICATION Spec
CONSTANTS
    None = None
    c1 = c1
    c2 = c2
    k1 = k1
    k2 = k2
    i1 = i1
    i2 = i2
    Macs <- MCMacs
    Lanes <- MCMacs
    Modulus = 4
    Expand <- MCExpand
    Collections = {c1}
    Indexes = {i1, i2}
    Keys = {k1, k2}
    OwnOperations = {"set", "remove"}
    MayFail = TRUE
    Validate = TRUE
    PageSize = 1
    MaxAttempts = 2
    MaxBroken = 1
SYMMETRY Symmetry
CONSTRAINT OneHardship
INVARIANTS
    HashIsMap
    StoredIsServer
    OthersAccept
    EventsForward
PROPERTIES
    ResyncEnds
CHECK_DEADLOCK FALSE
