CONSTANTS
    SeqMod = 4
    NChunks = 1
    Retry = 1
    Modes = {"A_DIR"}
    PeerCancels = FALSE
SPECIFICATION Spec
INVARIANT ListingDelivered
CHECK_DEADLOCK FALSE
