\* The status listeners of the cgo build: two goroutines, one address.
SPECIFICATION Spec
CONSTANTS
    Users = {u1, u2}
    Addresses = {a1}
    Handlers = {h1, h2}
    Kinds = {"StatusCgo"}
    NoHandler = NoHandler
INVARIANT HandlersFound
CHECK_DEADLOCK FALSE
