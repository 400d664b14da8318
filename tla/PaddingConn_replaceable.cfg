SPECIFICATION Spec
CONSTANTS
    paddingCount = 2
    maxPaddingChunkSize = 2
    PaddingSizes = {0, 2}
    MaxSent = 5
    MaxWrite = 3
    MaxRead = 3
    TimeoutIn <- NoTimeouts
    Bypass = "atOnce"
INVARIANT StreamIntact
CHECK_DEADLOCK FALSE
