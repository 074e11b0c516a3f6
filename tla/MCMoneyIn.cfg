SPECIFICATION FairSpec
CONSTANTS
    s1 = s1
    x1 = x1
    x2 = x2
    x3 = x3
    p1 = p1
    w1 = w1
    w2 = w2
    Sessions = {s1}
    Transfers = {x1, x2, x3}
    ForSession <- MCForSession
    Short = {x1}
    Purchases = {p1}
    Coins = 2
    Workers = {w1, w2}
    Situations <- MCSituations
    MaxFaults = 1
INVARIANTS
    TypeOK
    CreditedOnce
    ClawedAsRefunded
PROPERTIES
    PaidIsCredited
CHECK_DEADLOCK FALSE
