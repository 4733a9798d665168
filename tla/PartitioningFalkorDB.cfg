SPECIFICATION Spec
CONSTANTS
  QueryLimit = 5
  DBConnectionRetries = 1
  SuppressBugreport = FALSE
  Driver = "falkordb"
  Errors <- SomeErrors
  CanCrash = TRUE
  ResetCanFail = TRUE
  MaxStatements = 3
  MaxOrphans = 1
INVARIANTS
  ComparedWithOriginal
  NoFalseAlarm
  ReportReplaysFailure
  PartitioningEndsQuery
PROPERTIES
  ImplementsOracle
CHECK_DEADLOCK FALSE
