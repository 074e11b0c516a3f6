SPECIFICATION FairSpec
CONSTANTS
    r = r
    a = a
    b = b
    j = j
    w = w
    v = v
    h = h
    Requester = r
    Approvers = {a, b}
    Rejecters = {j}
    Watchers = {w, v}
    Hooks = {h}
    Worlds <- MCWorlds
INVARIANTS
    TypeOK
    NeverPaidAndReturned
    PaidIsBurnedIsSent
    EscrowSettled
PROPERTIES
    EventuallyResolved
CHECK_DEADLOCK FALSE
