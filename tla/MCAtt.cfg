SPECIFICATION FairSpec
CONSTANTS
    READ = READ
    Opcodes <- MCOpcodes
    MaxOps = 3
    MaxRogue = 1
    MaxIn = 1
    MaxSec = 2
INVARIANTS
    EndsOnce
    AnswerIsOwn
PROPERTIES
    RequestsInOrder
    EveryOpEnds
CHECK_DEADLOCK FALSE
