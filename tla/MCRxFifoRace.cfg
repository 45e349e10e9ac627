CONSTANTS
    Size = 3
    MaxBytes = 4
    MaxChunk = 2
SPECIFICATION Spec
INVARIANTS
    InBounds
CHECK_DEADLOCK FALSE
