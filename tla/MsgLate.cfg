SPECIFICATION Spec
CONSTANTS
    Senders = {"s1", "s2", "s3"}
    Ops = {"o1", "o2"}
    None = "none"
    Uses <- Late
INVARIANTS OwnResult
CHECK_DEADLOCK FALSE
