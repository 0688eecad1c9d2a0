SPECIFICATION Spec
CONSTANTS
    o1 = o1
    o2 = o2
    o3 = o3
    m1 = m1
    m2 = m2
    s1 = s1
    s2 = s2
    c1 = c1
    c2 = c2
    w1 = w1
    w2 = w2
    Hash <- TwoMakers
    Maker <- MCMaker
    Salt <- MCSalt
    Collection <- MCCollection
    Order <- MCOrder
    Spelled <- MCSpelled
    MaxTime = 1
    MaxCounter = 1
    Worker = {w1}
    Event <- EveryKind
    Hardship <- FaultsAndCrashes
INVARIANTS
    StatusHasCause
