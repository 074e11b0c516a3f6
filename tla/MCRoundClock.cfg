SPECIFICATION Spec
CONSTANTS
    p1 = p1
    p2 = p2
    w1 = w1
    w2 = w2
    Seats <- MCSeats
    Requests = {p1, p2}
    Sweepers = {w1, w2}
    Window <- MCWindow
    Ceiling = 8
    Extension = 2
    MaxExtensions = 3
    Fleets <- MCFleets
    MaxTime = 9
    MaxTalk = 1
    Rounds = 2
INVARIANTS
    TypeOK
PROPERTIES
    SealsStick
    WindowIsHonoured
    ExtensionsEarned
CHECK_DEADLOCK FALSE
