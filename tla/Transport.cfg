\* The executor: three goroutines submit eight functions.  The request: one
\* reader, with a buffer as large as a chunk or smaller, two calls of close, an
\* upload.  The provider: a body of four bytes, sent as three or as far as it
\* goes, two rewinds, two stops.
SPECIFICATION SumSpec
CONSTANTS
    Submitters = {s1, s2, s3}
    MaxSubmitted = 8
    Readers = {r1}
    Closers = {c1, c2}
    MaxChunk = 2
    HasUpload = TRUE
    Stoppers = {p1, p2}
    BodySize = 4
    room = 2
    MaxAttempts = 2
    MaxBodies = 3
INVARIANTS
    TypesOK
    RunningMeansLoop
    ReadFlow
    OneBody
PROPERTIES
    SerialSpec
    Contract
    AllReturn
CHECK_DEADLOCK FALSE
