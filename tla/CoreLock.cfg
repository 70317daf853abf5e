SPECIFICATION Spec
CONSTANTS
    Users = {u1, u2}
    Types = {0, 3, 4}
    None = None
    Uses <- OnDemand
INVARIANTS CoreLockReleased
CHECK_DEADLOCK FALSE
