SPECIFICATION Spec
CONSTANTS
    PageCount = 3
    PageWords = 4
    RecWords <- MCRecWords
    BufWords = 5
    Priority <- MCPriority
    MaxRecords = 6
    MaxCrashes = 0
    ListAnytime = TRUE
INVARIANT StagingExclusive
CHECK_DEADLOCK FALSE
