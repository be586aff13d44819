SPECIFICATION Spec
CONSTANTS
    MaxRequests = 3
    Clients = {c1}
    Routes = {"probe", "scrape", "login", "api"}
    HandlerErrors = {500}
    DefaultLimit = 2
    AuthLimit = 1
    Ttl = 2
    MaxTime = 4
    None = None
CHECK_DEADLOCK FALSE
INVARIANTS
    CountedAsAnswered
