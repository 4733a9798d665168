SPECIFICATION Spec
CONSTANTS
  MaxNames = 4
  MaxClauses = 12
  MaxScopes = 3
  AllowReturnAll = TRUE
INVARIANTS
  NamesInScope
  UsedNamesPersist
  UnionPartsAgree
CHECK_DEADLOCK FALSE
