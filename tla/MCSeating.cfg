SPECIFICATION Spec
CONSTANTS
    a1 = a1
    a2 = a2
    a3 = a3
    a4 = a4
    h1 = h1
    d1 = d1
    d2 = d2
    t1 = t1
    r1 = r1
    r2 = r2
    Nobody = Nobody
    Agents = {a1, a2, a3, a4, h1}
    House = {h1}
    Owner <- MCOwner
    Duels = {d1, d2}
    Mafia = {t1}
    Host <- MCHost
    Roster = 3
    Bid = 1
    Requests = {r1, r2}
    Situations <- MCSituations
    MaxFaults = 2
SYMMETRY Slots
INVARIANTS
    TypeOK
    EscrowIsTheSeats
    OwnersDistinct
    JoinsWithinLimit
PROPERTIES
    ImplementsTableEscrow
CHECK_DEADLOCK FALSE
