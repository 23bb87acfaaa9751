SPECIFICATION Spec
CONSTANTS
    Slots = 2
    SeqMod = 65536
    MaxRequests = 3
    MaxCrashes = 0
    ListAnytime = FALSE
INVARIANT DoneMeansDurable
CHECK_DEADLOCK FALSE
