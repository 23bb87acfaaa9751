SPECIFICATION MCSpec
CONSTANTS
    Updates <- ToTheEnd
    Original <- MCOriginal
    PageChunks = 1
    StoreStart = 3
    MapEnd = 3
    FlashTop = 6
    Erased = "erased"
    Torn = "torn"
    Garbled = "garbled"
    MaxRecords = 4
    MaxCopies = 1
    MaxCrashes = 0
PROPERTY InstallsWhole
CHECK_DEADLOCK FALSE
