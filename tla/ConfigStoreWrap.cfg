SPECIFICATION Spec
CONSTANTS
    Slots = 2
    SeqMod = 4
    MaxRequests = 4
    MaxCrashes = 0
    ListAnytime = FALSE
INVARIANT FindsLastSave
CHECK_DEADLOCK FALSE
