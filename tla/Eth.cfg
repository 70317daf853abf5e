SPECIFICATION FairSpec
CONSTANTS
  N = 5
  Thresh = 2
  Budget = 1
  MacCount = 2
  Uses <- Regular
INVARIANTS RingExact RingAlive
PROPERTIES Reclaimed QueueWoken
CHECK_DEADLOCK FALSE
