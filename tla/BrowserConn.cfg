\* All modes, one or two actors at a time; a batch of one byte, one packet in
\* flight.
SPECIFICATION FairSpec
CONSTANTS
    Scenarios <- Groups
    Max = 1
    Limit = 1
    MaxWrite = 2
    MaxBytes = 2
    MaxBuffered = 1
INVARIANTS
    TypeOK
    CloseLeavesNothing
    NoGap
    ErrorsTellWhy
PROPERTY CallsReturn
CHECK_DEADLOCK FALSE
