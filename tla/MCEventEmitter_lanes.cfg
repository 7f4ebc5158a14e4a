SPECIFICATION FairSpec
CONSTANTS
    Subs = {s1, s2}
    InitialSubs = {s1, s2}
    Taps = {t1}
    Kinds = {"direct"}
    MaxQueue = 2
    MaxEmits = 3
    MaxBuffers = 0
    MaxFaults = 1
INVARIANTS
    Bounded
    Reservations
PROPERTIES
    DeliversInLanes
