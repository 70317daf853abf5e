SPECIFICATION FairSpec
CONSTANTS
  BlockCount = 9
  MgmtStart = 2
  Weak = {0, 1, 2, 3, 4, 5, 6, 7, 8}
  FactoryBads = {{}, {0, 8}, {0, 1, 8}}
  Vals = {"v"}
  MaxOps = 2
  MaxCrashes = 0
INVARIANTS
  TypeOK
  TableWritesConfined
  RegionsInOrder
  MappingInjective
  SpareHoldsNoData
PROPERTIES
  OperationsEnd
CHECK_DEADLOCK FALSE
