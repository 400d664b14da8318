\* Two goroutines use the library; two register handlers under two addresses
\* that are used again; two make requests with one RoundTripper.
SPECIFICATION SumSpec
CONSTANTS
    Goroutines = {g1, g2}
    Users = {u1, u2}
    Addresses = {a1, a2}
    Handlers = {h1, h2, h3, h4}
    NoHandler = NoHandler
    Kinds <- AllRegistries
    Callers = {t1, t2}
INVARIANTS
    TypesOK
    NoNilCall
    Found
    NothingRetained
    Outlives
    Settled
CHECK_DEADLOCK FALSE
