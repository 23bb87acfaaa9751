SPECIFICATION FairSpec
CONSTANTS
    PACKETS = 3
    MaxPackets = 6
    Retunes = 1
INVARIANTS MainTypeOK CountMatches DmaClear QueuedIntact HeldIntact
PROPERTIES IsQueue EventuallyPrinted
CHECK_DEADLOCK FALSE
