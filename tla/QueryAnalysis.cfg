SPECIFICATION Spec
CONSTANTS
  Variables <- MCVariables
  Labels <- MCLabels
  Keys <- MCKeys
  Functions <- MCFunctions
  Folders <- MCFolders
INVARIANTS
  OpenCypherIsParsed
  OneReading
  RowIsOfItsQuery
  RowAsRecorded
CHECK_DEADLOCK FALSE
