CONSTANTS
    SeqMod = 4
    NChunks = 3
    Retry = 1
    Modes = {"A_GET", "A_DIR"}
    PeerCancels = TRUE
SPECIFICATION FairSpec
INVARIANTS
    TypeOK
    FileIsPrefix
    SuccessIsWhole
    NoStaleAck
    WindowFull
    NoConfusion
    EotIsAcked
PROPERTIES
    Termination
CHECK_DEADLOCK FALSE
