CONSTANTS
    SeqMod = 4
    NChunks = 2
    Retry = 1
SPECIFICATION AnyPeerSpec
INVARIANTS AnyPeerTypeOK ErrorIsFinal OutstandingPacket FileClosed OneNumberAwaited
CHECK_DEADLOCK FALSE
