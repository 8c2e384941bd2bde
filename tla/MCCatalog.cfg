SPECIFICATION Spec
CONSTANTS
  Calls = {c1, c2}
  Callers <- MCCallers
  Requests <- MCRequests
  Tables <- MCTables
  InitialRows <- MCInitialRows
  PageSize = 1
  MaxRows = 4
  MaxTables = 1
  MaxRestarts = 1
  Null = Null
  Missing = Missing
  Legacy = Legacy
INVARIANTS
  CatalogTypeOK
  UpdatesSurvive
  AuditExplainsStatus
  RacesForKeysSettle
  AnswersStayInTenant
  ListingsAddUp
  NestedKeysUnique
SYMMETRY CallSymmetry
CHECK_DEADLOCK FALSE
