CONSTANTS
    Urls <- MCUrls
    Lists <- MCLists
    Refreshes = {k1, k2, k3}
    Failing = TRUE
    CounterEnd = 5
    MaxRequests = 3
SPECIFICATION Spec
SYMMETRY Calls
INVARIANTS
    TypeOK
    NothingLeaks
    PoolIsOpen
    MapMatchesPool
    Balanced
PROPERTY StaysConnected
CHECK_DEADLOCK FALSE
