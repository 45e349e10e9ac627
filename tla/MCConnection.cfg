CONSTANTS
    RxRoom = 2
    MaxSig = 2
SPECIFICATION FairSpec
INVARIANTS
    SendNeverRefused
    CleanRescan
PROPERTIES
    Rescan
CHECK_DEADLOCK FALSE
