\* A preparation of a request that was reported as failed.
SPECIFICATION PreparationSpec
CONSTANTS
  c1 = c1
  c2 = c2
  c3 = c3
  c4 = c4
  c5 = c5
  c6 = c6
  p1 = p1
  p2 = p2
  Calls = {c1, c2, c3, c4}
  Preparations = {p1}
  OutcomeRecording <- OutcomeOfOne
  DispatchRecording <- DispatchOfOne
  Tenants = {t1}
  EventInputs <- FailureInput
  ActorShapes = {"other"}
  Abortable = {}
  Reports = {"completed"}
  None = None
INVARIANTS
  EndedRequestNotDispatched
CHECK_DEADLOCK FALSE
