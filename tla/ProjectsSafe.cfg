SPECIFICATION Spec
CONSTANTS
    Requests = {r1, r2, r3}
    Users = {u1, u2}
    Ids = {p1}
    Values = {v1, v2}
    None = None
SYMMETRY ProjectSymmetry
CHECK_DEADLOCK FALSE
INVARIANTS
    DeleteHolds
PROPERTIES
    OwnerWrites
    CleanPatchIsPartial
