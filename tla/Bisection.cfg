SPECIFICATION FairSpec
CONSTANTS
  Targets <- SomeTargets
  Reports <- SomeReports
  Target <- TargetOf
  Strategy <- StrategyOf
  Behaviours = {"fine", "error"}
  BadCommit <- LastCommits
  MaxConcurrency = 1
INVARIANTS
  TypeOK
  OffendingIsBoundary
  FinishedMeansBisected
  ShutdownStopsJobs
PROPERTY ProgramEnds
CHECK_DEADLOCK FALSE
