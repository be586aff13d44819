SPECIFICATION Spec
CONSTANTS
    Requests = {r1, r2}
    Users = {u1}
    ActiveUsers = {u1}
    Names = {a, b}
    MaxTime = 3
    AccessTtl = 2
    RefreshTtl = 2
    BcryptBytes = 72
    TokenDiffersAt = 106
    None = None
SYMMETRY SlotSymmetry
CHECK_DEADLOCK FALSE
INVARIANTS
    SupersededNeverAccepted
