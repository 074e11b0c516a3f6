SPECIFICATION FairSpec
CONSTANTS
    A = A
    B = B
    r = r
    t = t
    w = w
    v = v
    d = d
    e = e
    Seats <- MCSeats
    Requests <- MCRequests
    Sweepers <- MCSweepers
    Disputes <- MCDisputes
    Worlds <- MCWorlds
    MaxLog = 2
INVARIANTS
    TypeOK
    EscrowPaidOnce
    PaidAsRecorded
PROPERTIES
    HeldIsNotPaid
    EventuallyFinished
CHECK_DEADLOCK FALSE
