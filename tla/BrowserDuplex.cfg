\* One reader, two calls of close, chunks of one or two bytes, with and without
\* gRPC framing.
SPECIFICATION FairSpec
CONSTANTS
    Readers = {r1}
    Closers = {c1, c2}
    None = None
    MaxChunk = 2
INVARIANTS
    TypeOK
    BuffersExclusive
    ReadFlow
PROPERTIES
    Contract
    CallsReturn
CHECK_DEADLOCK FALSE
