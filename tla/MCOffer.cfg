SPECIFICATION Spec
CONSTANTS
    Wrap = 32
    Requests <- MCRequests
    Past = 1
    Ahead = 3
    FirstTime = 4
    MaxTime = 11
CHECK_DEADLOCK FALSE
INVARIANTS
    AcceptedIsOpen
    QuoteIsOnTheLine
    NewAuctionIsFresh
PROPERTIES
    PriceOnlyFalls
