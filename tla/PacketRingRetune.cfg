SPECIFICATION Spec
CONSTANTS
    PACKETS = 3
    MaxPackets = 6
    Retunes = 1
INVARIANT DmaAlwaysClear
CHECK_DEADLOCK FALSE
