SPECIFICATION FairSpec
CONSTANTS
    NChunks = 2
    Blob = 2
    ValueLens = {2, 5}
    MaxValueLen = 4
    MaxCalls = 3
INVARIANTS
    ToldMeansEnabled
    OneCccWrite
    LongWhole
PROPERTIES
    CallsEnd
CHECK_DEADLOCK FALSE
