SPECIFICATION Spec
CONSTANTS
  Bytes = {0, 1}
  MaxASTNodes = 10
  MaxProposals = 2
  MaxImports = 1
  GivenStrings <- FewStrings
INVARIANTS
  CapturedIsKept
  LimitIsExact
  ReportRegenerates
CHECK_DEADLOCK FALSE
