SPECIFICATION FairSpec
CONSTANTS
    NLogs = 2
    BlockOf <- OneAndThree
    MaxHeight = 4
    Confirmations = 1
    Lookback = 1
    Rollback = 2
    SemCap = 1
    MaxApplied = 1
    ReorgDepth = 2
    Env <- ShutdownForKill
INVARIANTS
    TypeOK
    CursorIsConfirmed
    ActsOnlyOnConfirmed
PROPERTIES
    HandlersReturn
CHECK_DEADLOCK FALSE
