SPECIFICATION Spec
CONSTANTS
  Targets <- OneTarget
  Reports <- OneReport
  Target <- OneTargetOf
  Strategy <- OneStrategyOf
  Behaviours = {"fine", "early error", "rows"}
  BadCommit <- OneLastCommit
  MaxConcurrency = 0
INVARIANT OffendingIsBoundary
CHECK_DEADLOCK FALSE
