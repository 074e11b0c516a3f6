SPECIFICATION FairSpec
CONSTANTS
    M = M
    D = D
    V = V
    r = r
    t = t
    w = w
    v = v
    a = a
    Seats <- MCSeats
    Role <- MCRole
    Requests <- MCRequests
    Sweepers <- MCSweepers
    Admins <- MCAdmins
    Worlds <- MCWorlds
INVARIANTS
    TypeOK
    PaidTheSurvivors
PROPERTIES
    SubmissionsStand
    AbandonedTablesEnd
CHECK_DEADLOCK FALSE
