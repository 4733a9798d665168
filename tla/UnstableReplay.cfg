SPECIFICATION Spec
CONSTANTS
  Bytes = {0, 1}
  MaxASTNodes = 10
  MaxProposals = 0
  MaxImports = 2
  GivenStrings <- FewStrings
INVARIANT ReportRegenerates
CHECK_DEADLOCK FALSE
