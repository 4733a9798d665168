SPECIFICATION NoneFairSpec
CONSTANTS
  Shapes <- SomeShapes
  MaxTrigger = 2
  MaxNodes = 4
  MaxIndex = 5
INVARIANTS
  NoneTypeOK
  ReducedShowsBug
  NothingLeftOver
  NoneTraversalsAgree
PROPERTY ReductionEnds
CHECK_DEADLOCK FALSE
