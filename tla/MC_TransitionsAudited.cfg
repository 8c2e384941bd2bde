\* An actor identifier of 24 hexadecimal digits.
SPECIFICATION Spec
CONSTANTS
  Calls = {c1, c2}
  Tenants = {t1}
  EventInputs <- MCTransition
  ActorShapes = {"object_id", "other"}
  Abortable = {}
  None = None
SYMMETRY AllSymmetry
INVARIANT TransitionsAudited
CHECK_DEADLOCK FALSE
