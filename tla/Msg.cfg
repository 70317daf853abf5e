SPECIFICATION FairSpec
CONSTANTS
    Senders = {"s1", "s2", "s3"}
    Ops = {"o1", "o2"}
    None = "none"
    Uses <- Regular
INVARIANTS ResultReady QueuedOnce PoolRefilled HandledInOrder
PROPERTIES EventuallyHandled SendReturns
CHECK_DEADLOCK FALSE
