SPECIFICATION FairSpec
CONSTANTS
    Subs = {s1}
    InitialSubs = {s1}
    Taps = {}
    Kinds = {"notify", "append"}
    MaxQueue = 3
    MaxEmits = 2
    MaxBuffers = 1
    MaxFaults = 0
PROPERTIES
    BufferingEnds
