SPECIFICATION SeedFairSpec
CONSTANTS
    Attempts = {a1, a2}
    SeedRuns = {s1, s2, s3}
    AdminEmail = admin
    AliceEmail = alice
    BobEmail = bob
    Emails = {admin, alice, bob}
    DbFails = TRUE
    None = None
CHECK_DEADLOCK FALSE
INVARIANTS
    UniqueEmail
    ConflictJustified
    WelcomeOnlyCommitted
    WelcomeBegun
PROPERTIES
    RegisterIsAtomic
    SeedIdempotent
    AbandonedStays
    NobodyWaitsForever
