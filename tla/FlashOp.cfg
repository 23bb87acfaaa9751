SPECIFICATION FairSpec
CONSTANTS
    PageCount = 2
    PageWords = 2
    Word <- MCWord
    Erased = "erased"
    Garbled = "garbled"
    FlashTries = 2
    Bursts <- MCBursts
INVARIANTS TypeOK NeverOrphaned CompleteIsWhole
PROPERTIES ImplementsService EventuallyComplete
CHECK_DEADLOCK TRUE
