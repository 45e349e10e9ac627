SPECIFICATION FairSpec
CONSTANTS
    UINT16_MAX = 16
    Remotes <- MCRemotes
    First <- MCFirst
    MaxChanges = 2
INVARIANTS
    Mirror
    PendingExist
PROPERTIES
    EndsReady
    ChangesHandled
CHECK_DEADLOCK FALSE
