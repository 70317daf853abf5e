SPECIFICATION Spec
CONSTANTS
  BlockCount = 10
  MgmtStart = 2
  Weak = {0, 2, 5}
  FactoryBads = {{}}
  Vals = {"v"}
  MaxOps = 2
  MaxCrashes = 2
INVARIANTS
  TableSurvives
  DataSurvives
  Recoverable
  MappingRecorded
CHECK_DEADLOCK FALSE
