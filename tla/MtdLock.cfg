SPECIFICATION FairSpec
CONSTANTS
    Callers = {t1, t2, t3}
    None = None
    MaxCalls = 2
INVARIANTS Exclusive NoLostWakeup
PROPERTIES ShutdownIsFinal Serialises CallsReturn ShutdownReturns
CHECK_DEADLOCK FALSE
