\* Interleaved events of one tenant.
SPECIFICATION Spec
CONSTANTS
  Calls = {c1, c2, c3}
  Tenants = {t1}
  EventInputs <- MCTransition
  ActorShapes = {"other"}
  Abortable = {}
  None = None
SYMMETRY AllSymmetry
INVARIANT NewestEventDefinesStatus
CHECK_DEADLOCK FALSE
