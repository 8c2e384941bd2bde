\* One call of prepareCommand in each of many catalogs; some are edited meanwhile.
SPECIFICATION FairSpec
CONSTANTS
  t1 = t1
  t2 = t2
  q1 = q1
  q2 = q2
  s1 = s1
  s2 = s2
  b1 = b1
  r1 = r1
  k1 = k1
  k2 = k2
  c1 = c1
  c2 = c2
  Tenant = t1
  Others = {t2}
  QueryIds = {q1, q2}
  DatasetIds = {s1, s2}
  DashboardIds = {b1}
  ReportIds = {r1}
  ConnectionIds = {c1, c2}
  MappingIds = {1, 2, 3}
  MappingPage = 2
  Keys = {k1, k2}
  Widgets <- AllWidgets
  Blocks <- AllBlocks
  Catalogs <- AllCatalogs
  MaxEdits <- EditsFrom
  Edits <- SomeEdits
  None = None
INVARIANTS
  BridgeTypeOK
  WalkMatchesCatalog
  GrowthDoesNotMislead
  ResolutionMatchesCatalog
  CommandStaysInTenant
  PartsBelongTogether
  ReadyStaysReady
PROPERTIES
  KeepsContract
  BridgeEnds
CHECK_DEADLOCK FALSE
