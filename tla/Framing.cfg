\* Two padded frames; a chunk holds two bytes, so a Write may span the end of
\* padding.  A copier waits until the last frame is spent.  gRPC: three bytes in
\* messages of up to two, under headers of two bytes.
SPECIFICATION SumSpec
CONSTANTS
    paddingCount = 2
    maxPaddingChunkSize = 2
    PaddingSizes = {0, 1, 2}
    MaxSent = 6
    MaxWrite = 5
    MaxRead = 4
    TimeoutIn <- SafeTimeouts
    Bypass = "whenSpent"
    HeaderSize = 2
    MaxMessage = 4
    MaxStream = 3
    MaxPiece = 2
    MaxRoom = 3
INVARIANTS
    TypesOK
    FramesLoseNothing
PROPERTIES
    FramedPipes
    AllDelivered
CHECK_DEADLOCK FALSE
