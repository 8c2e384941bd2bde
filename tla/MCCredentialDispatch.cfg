\* Three writing calls on one credential around one dispatch, one retry.
SPECIFICATION FairSpec
CONSTANTS
  w1 = w1
  w2 = w2
  w3 = w3
  t1 = t1
  t2 = t2
  s1 = s1
  s2 = s2
  Writers = {w1, w2, w3}
  Tenants = {t1, t2}
  Secrets = {s1, s2}
  WriteInputs <- WritesOfOne
  Dispatches = {d1}
  MaxRetries = 1
  None = None
INVARIANTS
  TypeOK
  OnlyLiveSecretsSent
  ResultMatchesAttempts
  CredentialAuditTruthful
  RowsAccountedFor
PROPERTIES
  DispatchesSettle
CHECK_DEADLOCK FALSE
