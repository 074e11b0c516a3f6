SPECIFICATION FairSpec
CONSTANTS
    s1 = s1
    s2 = s2
    Sweepers = {s1, s2}
    Seats = {1, 2}
    Deployments <- MCDeployments
    MaxAsks = 2
    MinReady = 2
    MaxFaults = 2
INVARIANTS
    TypeOK
    NoBorrowedEscrow
    ConsentBeforeStake
    FundedThroughCrashes
PROPERTIES
    EventuallyDecided
CHECK_DEADLOCK FALSE
