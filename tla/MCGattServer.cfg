SPECIFICATION FairSpec
CONSTANTS
    Attr <- MCAttr
    Requests <- MCRequests
    ServerMtu = 27
    DEFAULT_LE_MTU = 23
    MaxPrepQueueLen = 2
    Security = 1
    MaxReqs = 4
INVARIANTS
    AnsweredOnce
    ValueIsFresh
    PreparedWhole
    NothingSkipped
    FitsMtu
PROPERTIES
    EveryRequestAnswered
CHECK_DEADLOCK FALSE
