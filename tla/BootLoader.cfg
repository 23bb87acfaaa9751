SPECIFICATION MCSpec
CONSTANTS
    Updates <- OnePage
    Original <- MCOriginal
    PageChunks = 1
    StoreStart = 3
    MapEnd = 3
    FlashTop = 6
    Erased = "erased"
    Torn = "torn"
    Garbled = "garbled"
    MaxRecords = 4
    MaxCopies = 2
    MaxCrashes = 1
INVARIANTS LoaderTypeOK CleanProgramming
PROPERTIES InstallsWhole ErasesWhatDiffers InstalledInTheEnd
CHECK_DEADLOCK FALSE
