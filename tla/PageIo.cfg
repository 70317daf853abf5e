SPECIFICATION Spec
CONSTANTS
    WriteSize = 2
    OobAvail = 2
    Pages = 3
    Flips = {0, 1, 3}
INVARIANTS ReadDelivers ReadReportsWorst WritePlaces
CHECK_DEADLOCK FALSE
