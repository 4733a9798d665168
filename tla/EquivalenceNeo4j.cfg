SPECIFICATION Spec
CONSTANTS
  QueryLimit <- NoLimit
  DBConnectionRetries = 1
  SuppressBugreport = FALSE
  Driver = "neo4j"
  Errors <- SomeErrors
  CanCrash = TRUE
  ResetCanFail = TRUE
  MaxStatements = 3
  MaxOrphans = 1
INVARIANTS
  TypeOK
  ComparedWithOriginal
  NoFalseAlarm
  ReportReplaysFailure
  ReportEndsQuery
PROPERTIES
  ImplementsOracle
CHECK_DEADLOCK FALSE
