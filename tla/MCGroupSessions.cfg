SPECIFICATION Spec
CONSTANTS
    d1 = d1
    d2 = d2
    Devices = {d1, d2}
    MaxStates = 2
    MaxKept = 2
    MaxFuture = 3
    MaxSent = 3
    MaxInstallations = 2
    MaxRedistributed = 1
SYMMETRY Symmetry
INVARIANTS
    KeysUsedOnce
    MemoryIsDistributed
    NoHistory
    ReadOnce
    Readable
PROPERTIES
    KeptForUnread
CHECK_DEADLOCK FALSE
