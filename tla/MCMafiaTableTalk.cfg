SPECIFICATION FairSpec
CONSTANTS
    M = M
    D = D
    V = V
    r = r
    t = t
    w = w
    v = v
    a = a
    Seats <- MCSeats
    Role <- MCRole
    Requests <- MCRequests
    Sweepers <- MCSweepers
    Admins <- MCAdmins
    Worlds <- MCTalkWorlds
PROPERTIES
    TalkDoesNotStall
CHECK_DEADLOCK FALSE
