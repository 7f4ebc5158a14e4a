SPECIFICATION Spec
CONSTANTS
    None = None
    c1 = c1
    c2 = c2
    k1 = k1
    k2 = k2
    i1 = i1
    i2 = i2
    Macs <- MCMacs
    Lanes <- MCMacs
    Modulus = 4
    Expand <- MCExpand
    Collections = {c1}
    Indexes = {i1, i2}
    Keys = {k1, k2}
    OwnOperations = {"set"}
    MayFail = FALSE
    Validate = FALSE
    PageSize = 1
    MaxAttempts = 2
    MaxBroken = 0
SYMMETRY Symmetry
INVARIANTS
    StoredIsShown
CHECK_DEADLOCK FALSE
