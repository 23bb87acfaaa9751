SPECIFICATION Spec
CONSTANTS
    Callout = {c1, c2, c3}
    Nobody = Nobody
    Delays = {0, 1, 3}
    MaxTod = 3
    TICK_UNIT = 8
    TICK_MAX = 24
    Fractions = 4
    Incr = 4
    Late = 6
    MaxTicks = 60
    MapStart = 4
    MapEnd = 20
    ChunkSize = 2
    BitsPerByte = 3
    FirstBits = 1
    WordBits = 2
    Widths = {1, 3}
    BufWords = 8
    MaxFields = 3
    RAND_BUF_SIZE = 8
    MaxPool = 5
    MaxDraws = 20
    Letters = {"a", "b"}
    LineSize = 6
    ArgSize = 3
INVARIANTS
    PartsTypeOK
    ClockIsRight
    ReadsARealTime
    TracksSlots
    ReadsWhatWasWritten
    GivesEachByteOnce
PROPERTIES
    IsCalloutService
    EventuallyRun
    RunsTheLine
CHECK_DEADLOCK FALSE
