SPECIFICATION FairListing
CONSTANTS
    o1 = o1
    o2 = o2
    o3 = o3
    m1 = m1
    m2 = m2
    s1 = s1
    s2 = s2
    c1 = c1
    c2 = c2
    Hash <- MCHash
    Maker <- MCMaker
    Salt <- MCSalt
    Collection <- MCCollection
    Order <- MCOrder
    Side <- MCSide
    Terms <- MCTerms
    Queries <- MCQueries
    DefaultSize = 2
    LargestSize = 2
    MaxPage = 5
    Wrap = 32
    MaxTime = 3
    MaxCounter = 1
INVARIANTS
    OneActivePerSlot
    WalkIsComplete
    BestWasBest
PROPERTIES
    TerminalIsFinal
    DeadlineClosesOrder
    ImplementsSlots
