SPECIFICATION Spec
CONSTANTS
    PACKETS = 3
    MaxPackets = 6
    Retunes = 0
INVARIANT PrintsWhatItTook
CHECK_DEADLOCK FALSE
