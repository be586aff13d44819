SPECIFICATION FairSpec
CONSTANTS
    Jobs = {j1, j2}
    WelcomeJobs = {j1}
    Workers = {w1, w2, w3}
    MaxAttempts = 3
    MaxTries = 3
    MaxStalled = 1
    None = None
CHECK_DEADLOCK FALSE
INVARIANTS
    CallsBounded
    FailedMeansTried
    AckedOnce
PROPERTIES
    KeepsDelivery
    Settles
