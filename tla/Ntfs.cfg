SPECIFICATION Spec
CONSTANTS
  MaxVcn = 3
  Lcns <- Starts
  FirstSlots = 1
  HalfMax = 3
  Nbits = 6000
  Attrs <- Few
  BufSizes = {6, 9, 10, 64}
INVARIANTS LookupFinds PackRoundTrips Implements
CHECK_DEADLOCK FALSE
