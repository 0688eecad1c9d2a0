SPECIFICATION FairSystem
CONSTANTS
    o1 = o1
    o2 = o2
    o3 = o3
    m1 = m1
    m2 = m2
    s1 = s1
    s2 = s2
    c1 = c1
    c2 = c2
    Hash <- MCHash
    Maker <- MCMaker
    Salt <- MCSalt
    Collection <- MCCollection
    Order <- MCOrder
    Histories <- MCHistories
    MaxTime = 1
    MaxCounter = 1
    NLogs = 3
    BlockOf <- SharedAndNext
    MaxHeight = 3
    Confirmations = 1
    Lookback = 1
    Rollback = 1
    SemCap = 0
    MaxApplied = 1
    ReorgDepth = 1
    Env <- PollAndReorg
INVARIANTS
    ClosedByTheChain
PROPERTIES
    ChainClosesOrder
    EveryLogApplied
    ImplementsReplay
