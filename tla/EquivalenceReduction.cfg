SPECIFICATION FairSpec
CONSTANTS
  Shapes <- SomeShapes
  MaxTrigger = 2
  MaxNodes = 4
  MaxIndex = 5
  Bugs <- Differences
INVARIANTS
  HalvesStayParallel
  FullReductionIsComplete
  EquivalenceTraversalsAgree
PROPERTIES
  ValidationIsExact
  ReductionEnds
CHECK_DEADLOCK FALSE
