SPECIFICATION Spec
CONSTANTS
    Subs = {s1}
    InitialSubs = {}
    Taps = {t1}
    Kinds = {"notify", "append", "held", "plain", "direct"}
    MaxQueue = 1
    MaxEmits = 2
    MaxBuffers = 1
    MaxFaults = 0
INVARIANTS
    TapsFirst
    RefusedIsForgotten
    AcceptedAreKept
