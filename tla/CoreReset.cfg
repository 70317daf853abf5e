SPECIFICATION FairSpec
CONSTANTS
    Users = {u1, u2}
    Types = {0, 3, 4}
    None = None
    Uses <- Regular
INVARIANTS OneReset TriggerIntact DoneCountedOnce QuietDuringReset PowerRestored ChipFollowsRadios
PROPERTIES ResetEnds RequestsServed
CHECK_DEADLOCK FALSE
