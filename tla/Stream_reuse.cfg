SPECIFICATION Spec
CONSTANTS
    Lengths = {0, 3, 7}
    FrameSize = 2
    RawSize = 2
    Proposed = 4
    MaxWindow = 3
    MAX_SEND_STREAM_ID = 1
    MAX_FRAMES_IN_FLIGHT = 4
    PoolSize = 2
    MaxReads = 3
    MaxLost = 2
INVARIANTS AvailableForReuse
CHECK_DEADLOCK FALSE
