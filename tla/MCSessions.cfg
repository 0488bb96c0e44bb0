SPECIFICATION Spec
CONSTANTS
    None = None
    seed = seed
    Requests = {r1, r2, r3}
    Identities <- MCIdentities
    Seeded <- MCSeeded
    Allowed = {"e1"}
    Kids = {k1, k2}
    MaxUsers = 2
    Idle = 2
    Max = 3
    MaxAge = 2
    MinRefetch = 1
    LastTick = 3
INVARIANTS SessionsEnd SignInsExplained
SYMMETRY MCSymmetry
CHECK_DEADLOCK FALSE
