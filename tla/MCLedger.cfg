SPECIFICATION FairSpec
CONSTANTS
    Wallets <- MCWallets
    Kind <- MCKind
    Posters = {p1, p2}
    Calls <- MCCalls
    NoCall = NoCall
INVARIANTS
    TypeOK
    Reconciled
PROPERTIES
    ImplementsAtomicLedger
    EveryPostReturns
