SPECIFICATION FairSpec
CONSTANTS
    PageCount = 3
    PageWords = 4
    RecWords <- MCRecWords
    BufWords = 5
    Priority <- MCPriority
    MaxRecords = 7
    MaxCrashes = 2
    ListAnytime = FALSE
INVARIANTS TypeOK RecoversNewest LastRecordSurvives RestartAgrees NeverGarbles
PROPERTIES LosesOnlyOldest EventuallyWritten
CHECK_DEADLOCK FALSE
