CONSTANTS
    SeqMod = 4
    NChunks = 4
    Retry = 1
    Modes = {"A_GET", "A_DIR"}
    PeerCancels = TRUE
    MaxGot = 5
SPECIFICATION AnyServerSpec
INVARIANTS
    WrittenInOrder
    NothingLeftBehind
    WindowHoldsLatest
CHECK_DEADLOCK FALSE
