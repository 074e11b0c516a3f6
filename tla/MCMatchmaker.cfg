SPECIFICATION FairQueueSpec
CONSTANTS
    a1 = a1
    a2 = a2
    a3 = a3
    m1 = m1
    m2 = m2
    Agents = {a1, a2, a3}
    Matchers = {m1, m2}
    Bids = {1, 2}
    Owner <- MCOwner
    Near <- MCNear
    Markets <- MCMarkets
    MaxTables = 2
    MaxMishaps = 1
INVARIANTS
    QueueTypeOK
    OneTablePerRequest
    ServedAsAsked
PROPERTIES
    NobodyStarves
CHECK_DEADLOCK FALSE
