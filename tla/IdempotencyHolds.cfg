SPECIFICATION PostFairSpec
CONSTANTS
    k1 = k1
    k2 = k2
    p1 = p1
    Attempts <- Requests
    Keys = {k1, k2, p1}
    RegisterKeys = {k1, k2}
    Plans <- KeyPlans
    Address = Address
    LockTtl = 2
    ResultTtl = 3
    MaxInFlight = 1
    RedisFails = TRUE
    Sentinel = Sentinel
    None = None
CHECK_DEADLOCK FALSE
INVARIANTS
    Exclusive
    RepeatedOnlyAfterExpiry
    ReplayFaithful
    AnsweredWithTheAccount
PROPERTIES
    KeepsPromise
    KeyFreed
    OwnConflictExplained
