SPECIFICATION Spec
CONSTANTS
    MaxRequests = 5
    Clients = {c1, c2}
    Routes = {"login"}
    HandlerErrors = {500}
    DefaultLimit = 2
    AuthLimit = 1
    Ttl = 2
    MaxTime = 4
    None = None
SYMMETRY ClientSymmetry
CHECK_DEADLOCK FALSE
INVARIANTS
    WindowHolds
    RefusalEarned
