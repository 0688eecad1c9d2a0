CONSTANTS
    t1 = t1
    t2 = t2
    w1 = w1
    w2 = w2
    Token <- MCToken
    Worker <- MCWorker
    Breakable <- MCBreakable
    QueueCap = 2
    RefreshLimit = 2
    MaxAttempts = 2
    MaxVersion = 2
    MaxSubmits = 3
    MaxFaults = 1

SPECIFICATION FairSpec

INVARIANT
    TypeOK
PROPERTIES
    QueuedIsFetched
    
    
