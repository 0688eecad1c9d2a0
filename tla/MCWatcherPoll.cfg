SPECIFICATION Spec
CONSTANTS
    NLogs = 4
    BlockOf <- SharedThenTwo
    MaxHeight = 5
    Confirmations = 1
    Lookback = 2
    Rollback = 1
    SemCap = 1
    MaxApplied = 2
    ReorgDepth = 1
    Env <- PollStopReorg
INVARIANTS
    PassesNoBlockOver
    RecordedIsOnChain
PROPERTY
    ImplementsLedger
