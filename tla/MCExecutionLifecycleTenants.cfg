\* Two calls of two tenants, both shapes of actor identifier, none cut short.
SPECIFICATION FairSpec
CONSTANTS
  Calls = {c1, c2}
  Tenants = {t1, t2}
  EventInputs <- MCEventInputs
  ActorShapes = {"object_id", "other"}
  Abortable = {}
  None = None
INVARIANTS
  TenantIsolation
PROPERTIES
  EveryCallEnds
CHECK_DEADLOCK FALSE
