SPECIFICATION FairSpec
CONSTANTS
  QueryLimit = 4
  DBConnectionRetries = 1
  SuppressBugreport = FALSE
  Driver = "neo4j"
  Errors <- SomeErrors
  CanCrash = TRUE
  ResetCanFail = TRUE
  MaxStatements = 3
  MaxOrphans = 4
INVARIANTS
  ReportReplaysFailure
  ReportEndsQuery
PROPERTY RunEnds
CHECK_DEADLOCK FALSE
