SPECIFICATION DeviceFairSpec
CONSTANTS
    Slots = 2
    SeqMod = 65536
    MaxRequests = 3
    MaxCrashes = 2
    ListAnytime = FALSE
    Tries = 2
INVARIANTS DeviceTypeOK FindsLastSave RequestNotForgotten
PROPERTIES KeepsPromise EventuallyDurable ResetKeeps EventuallyResets
CHECK_DEADLOCK FALSE
