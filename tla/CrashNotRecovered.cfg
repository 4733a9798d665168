SPECIFICATION Spec
CONSTANTS
  QueryLimit = 2
  DBConnectionRetries = 1
  SuppressBugreport = FALSE
  Driver = "falkordb"
  Errors <- SomeErrors
  CanCrash = TRUE
  ResetCanFail = TRUE
  MaxStatements = 3
  MaxOrphans = 4
INVARIANT CrashIsRecovered
CHECK_DEADLOCK FALSE
