SPECIFICATION Spec
CONSTANTS
  N = 5
  Thresh = 2
  Budget = 1
  MacCount = 2
  Uses <- Faulty
INVARIANTS LastUser
CHECK_DEADLOCK FALSE
