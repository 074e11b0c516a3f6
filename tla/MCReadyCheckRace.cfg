SPECIFICATION Spec
CONSTANTS
    s1 = s1
    s2 = s2
    Sweepers = {s1, s2}
    Seats = {1, 2}
    Deployments <- MCTwoSweepers
    MaxAsks = 2
    MinReady = 2
    MaxFaults = 0
INVARIANTS
    ActiveIsFunded
CHECK_DEADLOCK FALSE
