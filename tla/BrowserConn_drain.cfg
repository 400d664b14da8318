\* A failed upload ends the connection while bytes of the response wait.
SPECIFICATION Spec
CONSTANTS
    Scenarios <- Groups
    Max = 1
    Limit = 1
    MaxWrite = 1
    MaxBytes = 1
    MaxBuffered = 1
PROPERTY DrainedFirst
CHECK_DEADLOCK FALSE
