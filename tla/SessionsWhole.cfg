SPECIFICATION Spec
CONSTANTS
    Requests = {r1, r2}
    Users = {u1, u2}
    ActiveUsers = {u1}
    Names = {a}
    MaxTime = 1
    AccessTtl = 2
    RefreshTtl = 2
    BcryptBytes = 128
    TokenDiffersAt = 106
    None = None
SYMMETRY SlotSymmetry
CHECK_DEADLOCK FALSE
INVARIANTS
    HashProvenance
