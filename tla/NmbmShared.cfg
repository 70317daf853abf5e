SPECIFICATION Spec
CONSTANTS
  BlockCount = 11
  MgmtStart = 2
  Weak = {0, 1, 9}
  FactoryBads = {{8}}
  Vals = {"v"}
  MaxOps = 4
  MaxCrashes = 0
INVARIANTS
  MapsToUnusedBlock
CHECK_DEADLOCK FALSE
