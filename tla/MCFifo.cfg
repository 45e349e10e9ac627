CONSTANTS
    Size = 4
    Byte = {b1, b2}
    MaxWrite = 5
SPECIFICATION Spec
INVARIANTS TypeOK
PROPERTIES IsQueue
