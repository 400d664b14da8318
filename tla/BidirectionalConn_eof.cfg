\* A write is outstanding when the response ends.
SPECIFICATION Spec
CONSTANTS
    Readers = {r1}
    Writers = {w1}
    None = None
    ReadWaitHeaders = TRUE
    WriteWaitHeaders = FALSE
INVARIANT WriteBufferOwned
