\* Two calls of Start and of Close, a dial, CloseAllConnections, two engines;
\* every dialer on every platform; every DNS configuration.
SPECIFICATION SumSpec
CONSTANTS
    Starters = {s1, s2}
    Dialers = {d1}
    Closers = {c1, c2}
    Kickers = {k1}
    EngineCount = 2
    MaxWorkers = 1
    Platforms = {"unix", "darwin", "windows", "oldWindows"}
    NoMessage = NoMessage
INVARIANTS
    TypesOK
    EngineAlive
    CloseMeansGone
    NothingLeaks
    Hijacked
PROPERTIES
    NoLateAdd
    AllReturn
