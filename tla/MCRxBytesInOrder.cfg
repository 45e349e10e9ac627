CONSTANTS
    Size = 2
    MaxBytes = 3
    MaxChunk = 2
SPECIFICATION Spec
INVARIANTS BytesInOrder
CHECK_DEADLOCK FALSE
