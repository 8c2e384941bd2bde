\* Three concurrent calls of one tenant, any of which may be cut short.
SPECIFICATION Spec
CONSTANTS
  Calls = {c1, c2, c3}
  Tenants = {t1}
  EventInputs <- MCEventInputs
  ActorShapes = {"other"}
  Abortable = {c1, c2, c3}
  None = None
SYMMETRY AllSymmetry
INVARIANTS
  TypeOK
  EventsReportHeldStatuses
  PreviousStatusTruthful
  StatusExplained
  OrderlyTimeline
  AuditFollowsEvent
  SuccessLeavesTrail
PROPERTIES
  ImplementsLedger
CHECK_DEADLOCK FALSE
