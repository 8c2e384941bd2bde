\* Two preparations on the request of one of two tenants, at the same time.
SPECIFICATION FairPreparationSpec
CONSTANTS
  c1 = c1
  c2 = c2
  c3 = c3
  c4 = c4
  c5 = c5
  c6 = c6
  p1 = p1
  p2 = p2
  Calls = {c1, c3, c4, c5, c6}
  Preparations = {p1, p2}
  OutcomeRecording <- OutcomeOfTwo
  DispatchRecording <- DispatchOfTwo
  Tenants = {t1, t2}
  EventInputs <- FailureInput
  ActorShapes = {"other"}
  Abortable = {c4}
  Reports = {"completed", "failed"}
  None = None
INVARIANTS
  PreparationTypeOK
  DispatchFollowsAcceptance
  AnswerOnTimeline
  PreparationStaysInTenant
PROPERTIES
  PreparationEnds
CHECK_DEADLOCK FALSE
