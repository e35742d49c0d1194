CONSTANTS
    a1 = a1
    EventId = {1, 2, 3}
    Asset = {a1}
    ScopeInput <- BothScopes
    PageLimit = 2
    MaxTime = 1
    None = None
SPECIFICATION FairSpec
INVARIANTS
    NoOtherGaps
    InOrderOnce
PROPERTIES
    EventuallyReceived
CHECK_DEADLOCK FALSE
