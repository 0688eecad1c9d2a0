SPECIFICATION FairSpec
CONSTANTS
    k1 = k1
    k2 = k2
    t1 = t1
    t2 = t2
    b1 = b1
    b2 = b2
    Client <- MCClient
    Topic <- MCTopic
    Subscribes <- MCSubscribes
    Broadcaster = {b1}
    BufCap = 1
INVARIANTS
    TypeOK
    IndexMatchesClients
    ClosedOnce
PROPERTIES
    GoneIsReleased
    SlowIsDisconnected
CHECK_DEADLOCK FALSE
