---------------------- MODULE CredentialDispatch_proofs ----------------------
(***************************************************************************)
(* Theorems of CredentialDispatch, for any writers, dispatches, tenants    *)
(* and number of retries.                                                  *)
(***************************************************************************)
EXTENDS CredentialDispatch, TLAPS

(* What a writing call knows at each of its statements.                    *)
WriteControl ==
  \A w \in Writers :
    /\ wpc[w] # "idle" =>
         /\ write[w] \in Write
         /\ write[w].op # "revoke" => write[w].secret \in Secrets
    /\ wpc[w] = "audit" =>
         /\ returned[w] \in CredentialRow
         /\ returned[w].status = "revoked" <=> write[w].op = "revoke"

StoreInv ==
  /\ StoreTypeOK
  /\ WriteControl
  /\ CredentialAuditTruthful
  /\ RowsAccountedFor

----------------------------------------------------------------------------
(* The store.                                                              *)

LEMMA FoundRow ==
  ASSUME StoreTypeOK, NEW w \in Writers, write[w] \in Write,
         NEW row \in Found(w)
  PROVE  row \in CredentialRow /\ row.tenant = write[w].tenant
  BY DEF Found, FindCredential, StoreTypeOK, Write

LEMMA StoreInvInit == StoreInit => StoreInv
  BY DEF StoreInit, StoreInv, StoreTypeOK, WriteControl,
         CredentialAuditTruthful, RowsAccountedFor

(* Storing a row of the caller's tenant that is as the operation leaves it. *)
LEMMA StoreInvStore ==
  ASSUME StoreInv, NEW w \in Writers, wpc[w] = "statement",
         NEW row \in CredentialRow, Store(w, row),
         row.tenant = write[w].tenant,
         row.status = "revoked" <=> write[w].op = "revoke",
         row.status = "active" => row.secret = write[w].secret,
         row.revoked => write[w].op # "create"
  PROVE  StoreInv'
  <1> USE DEF StoreInv, Store
  <1>1. write[w].credential \in Credentials
    BY DEF WriteControl, Write
  <1>2. StoreTypeOK'
    BY <1>1 DEF StoreTypeOK
  <1>3. WriteControl'
    BY DEF WriteControl, StoreTypeOK
  <1>4. CredentialAuditTruthful'
    BY DEF CredentialAuditTruthful, StoreTypeOK
  <1>5. RowsAccountedFor'
    <2> SUFFICES ASSUME NEW k \in Credentials, NEW r \in credentials'[k]
                 PROVE  \E x \in Writers :
                          /\ wpc'[x] \in {"audit", "ok", "error"}
                          /\ returned'[x] = r
                          /\ write'[x].credential = k /\ write'[x].tenant = r.tenant
                          /\ r.status = "revoked" <=> write'[x].op = "revoke"
                          /\ r.status = "active" => r.secret = write'[x].secret
                          /\ r.revoked => write'[x].op # "create"
                          /\ wpc'[x] = "ok" =>
                               \E a \in audit' : a.by = x /\ a.status = r.status
      BY DEF RowsAccountedFor
    <2>1. UNCHANGED <<write, audit>>
      OBVIOUS
    <2>2. CASE k = write[w].credential
      <3>1. r = row
        BY <1>1, <2>2 DEF StoreTypeOK
      <3>2. wpc'[w] = "audit" /\ returned'[w] = row
        BY DEF StoreTypeOK
      <3>3. QED
        BY <2>1, <2>2, <3>1, <3>2
    <2>3. CASE k # write[w].credential
      <3>1. r \in credentials[k]
        BY <1>1, <2>3 DEF StoreTypeOK
      <3>2. PICK x \in Writers :
              /\ wpc[x] \in {"audit", "ok", "error"}
              /\ returned[x] = r
              /\ write[x].credential = k /\ write[x].tenant = r.tenant
              /\ r.status = "revoked" <=> write[x].op = "revoke"
              /\ r.status = "active" => r.secret = write[x].secret
              /\ r.revoked => write[x].op # "create"
              /\ wpc[x] = "ok" => \E a \in audit : a.by = x /\ a.status = r.status
        BY <3>1 DEF RowsAccountedFor
      <3>3. wpc'[x] = wpc[x] /\ returned'[x] = returned[x]
        BY <3>2 DEF StoreTypeOK
      <3>4. QED
        BY <2>1, <3>2, <3>3
    <2>4. QED
      BY <2>2, <2>3
  <1>6. QED
    BY <1>2, <1>3, <1>4, <1>5

LEMMA StoreInvUpdate ==
  ASSUME StoreInv, NEW w \in Writers, Update(w)
  PROVE  StoreInv'
  <1>1. CASE Create(w)
    <2>1. write[w].tenant \in Tenants /\ write[w].secret \in Secrets
      BY <1>1 DEF Create, StoreInv, WriteControl, Write
    <2> DEFINE row == [tenant |-> write[w].tenant, status |-> "active",
                       secret |-> write[w].secret, rotated |-> FALSE,
                       revoked |-> FALSE]
    <2>2. row \in CredentialRow
      BY <2>1 DEF CredentialRow
    <2>3. QED
      BY <1>1, <2>2, StoreInvStore DEF Create
  <1>2. CASE Rotate(w)
    <2>1. PICK row \in Found(w) : Store(w, Rotated(row, write[w].secret))
      BY <1>2 DEF Rotate
    <2>2. row \in CredentialRow /\ row.tenant = write[w].tenant
      BY <1>2, <2>1, FoundRow DEF Rotate, StoreInv, WriteControl
    <2>3. write[w].secret \in Secrets
      BY <1>2 DEF Rotate, StoreInv, WriteControl
    <2>4. /\ Rotated(row, write[w].secret) \in CredentialRow
          /\ Rotated(row, write[w].secret).status = "active"
          /\ Rotated(row, write[w].secret).secret = write[w].secret
          /\ Rotated(row, write[w].secret).tenant = write[w].tenant
      BY <2>2, <2>3 DEF Rotated, CredentialRow
    <2>5. QED
      BY <1>2, <2>1, <2>4, StoreInvStore DEF Rotate
  <1>3. CASE Revoke(w)
    <2>1. PICK row \in Found(w) :
            Store(w, [row EXCEPT !.status = "revoked", !.revoked = TRUE])
      BY <1>3 DEF Revoke
    <2> DEFINE new == [row EXCEPT !.status = "revoked", !.revoked = TRUE]
    <2>2. row \in CredentialRow /\ row.tenant = write[w].tenant
      BY <1>3, <2>1, FoundRow DEF Revoke, StoreInv, WriteControl
    <2>3. /\ new \in CredentialRow
          /\ new.status = "revoked"
          /\ new.tenant = write[w].tenant
      BY <2>2 DEF CredentialRow
    <2>4. QED
      BY <1>3, <2>1, <2>3, StoreInvStore DEF Revoke
  <1>4. QED
    BY <1>1, <1>2, <1>3 DEF Update

(* The steps that leave the rows alone.                                    *)
LEMMA StoreInvBookkeep ==
  ASSUME StoreInv, NEW w \in Writers, Bookkeep(w)
  PROVE  StoreInv' /\ UNCHANGED credentials
  <1> USE DEF StoreInv
  <1>1. CASE ReceiveWrite(w)
    <2>1. PICK input \in WriteInputs :
            /\ wpc[w] = "idle"
            /\ write' = [write EXCEPT ![w] = input]
            /\ wpc' = [wpc EXCEPT ![w] = "statement"]
            /\ UNCHANGED <<credentials, audit, returned>>
      BY <1>1 DEF ReceiveWrite
    <2>2. input \in Write /\ (input.op # "revoke" => input.secret \in Secrets)
      BY <2>1, WriteInputsAssumption
    <2>3. StoreTypeOK' /\ WriteControl' /\ CredentialAuditTruthful'
      BY <2>1, <2>2 DEF StoreTypeOK, WriteControl, CredentialAuditTruthful
    <2>4. RowsAccountedFor'
      <3>1. \A x \in Writers : wpc[x] \in {"audit", "ok", "error"} =>
              wpc'[x] = wpc[x] /\ write'[x] = write[x]
        BY <2>1 DEF StoreTypeOK
      <3>2. QED
        BY <2>1, <3>1 DEF RowsAccountedFor
    <2>5. QED
      BY <2>1, <2>3, <2>4
  <1>2. CASE RejectWrite(w)
    <2>1. StoreTypeOK' /\ WriteControl' /\ CredentialAuditTruthful'
      BY <1>2 DEF RejectWrite, StoreTypeOK, WriteControl, CredentialAuditTruthful
    <2>2. RowsAccountedFor'
      <3>1. \A x \in Writers : wpc[x] \in {"audit", "ok", "error"} => wpc'[x] = wpc[x]
        BY <1>2 DEF RejectWrite, StoreTypeOK
      <3>2. QED
        BY <1>2, <3>1 DEF RejectWrite, RowsAccountedFor
    <2>3. QED
      BY <1>2, <2>1, <2>2 DEF RejectWrite
  <1>3. CASE RecordCredentialAudit(w)
    <2> DEFINE entry == [by |-> w, credential |-> write[w].credential,
                         op |-> write[w].op, status |-> AuditedStatus(w)]
    <2>1. entry \in AuditRow /\ (entry.status = "revoked" <=> entry.op = "revoke")
      BY <1>3 DEF RecordCredentialAudit, AuditRow, AuditedStatus, Write,
         CredentialRow, StoreTypeOK, WriteControl
    <2>2. /\ audit' = audit \union {entry} /\ entry.by = w
          /\ entry.status = returned[w].status
      BY <1>3 DEF RecordCredentialAudit, AuditedStatus
    <2>3. StoreTypeOK' /\ WriteControl' /\ CredentialAuditTruthful'
      BY <1>3, <2>1, <2>2
      DEF RecordCredentialAudit, StoreTypeOK, WriteControl, CredentialAuditTruthful
    <2>4. RowsAccountedFor'
      <3> HIDE DEF entry
      <3>1. /\ \A x \in Writers \ {w} : wpc'[x] = wpc[x]
            /\ wpc[w] = "audit" /\ wpc'[w] = "ok"
            /\ UNCHANGED <<credentials, write, returned>>
        BY <1>3 DEF RecordCredentialAudit, StoreTypeOK
      <3>2. QED
        BY <2>2, <3>1 DEF RowsAccountedFor
    <2>5. QED
      BY <1>3, <2>3, <2>4 DEF RecordCredentialAudit
  <1>4. CASE FailWrite(w)
    <2>1. StoreTypeOK' /\ WriteControl' /\ CredentialAuditTruthful'
      BY <1>4 DEF FailWrite, StoreTypeOK, WriteControl, CredentialAuditTruthful
    <2>2. RowsAccountedFor'
      <3>1. \A x \in Writers : wpc[x] \in {"audit", "ok", "error"} =>
              wpc'[x] = wpc[x] \/ wpc'[x] = "error"
        BY <1>4 DEF FailWrite, StoreTypeOK
      <3>2. QED
        BY <1>4, <3>1 DEF FailWrite, RowsAccountedFor
    <2>3. QED
      BY <1>4, <2>1, <2>2 DEF FailWrite
  <1>5. QED
    BY <1>1, <1>2, <1>3, <1>4 DEF Bookkeep
----------------------------------------------------------------------------
(* The dispatches.                                                         *)

(* What a dispatch knows at each of its steps.                             *)
DispatchControl ==
  \A d \in Dispatches :
    /\ dpc[d] = "idle" => body[d] = None /\ wire[d] = {} /\ answers[d] = <<>>
    /\ dpc[d] = "resolve" =>
         /\ command[d] \in [tenant : Tenants, credential : Credentials]
         /\ ActiveSecrets(command[d]) \subseteq live[d]
    /\ dpc[d] \in {"idle", "resolve", "post", "waiting", "backoff"} =>
         Len(answers[d]) <= MaxRetries

(* What is in a body, and so what may be sent, was active in this dispatch. *)
BodiesLive ==
  \A d \in Dispatches : body[d] \in live[d] \union {None}

DispatchInv ==
  /\ StoreInv
  /\ TypeOK
  /\ DispatchControl
  /\ BodiesLive
  /\ OnlyLiveSecretsSent

LEMMA DispatchInvInit == Init => DispatchInv
  BY StoreInvInit, MaxRetriesAssumption
  DEF Init, DispatchInv, StoreInv, TypeOK, DispatchControl, BodiesLive,
      OnlyLiveSecretsSent

LEMMA ActiveSecretsTyped ==
  ASSUME StoreTypeOK, NEW c \in [tenant : Tenants,
                                 credential : Credentials \union {None}]
  PROVE  ActiveSecrets(c) \subseteq Secrets
  BY DEF ActiveSecrets, StoreTypeOK, CredentialRow

(* No step of a dispatch touches the store.                                *)
LEMMA StoreInvStutter ==
  ASSUME StoreInv, UNCHANGED storeVars
  PROVE  StoreInv' /\ StoreTypeOK'
  BY DEF StoreInv, StoreTypeOK, WriteControl, CredentialAuditTruthful,
         RowsAccountedFor, storeVars

LEMMA ActiveSecretsStutter ==
  ASSUME UNCHANGED credentials, NEW d \in Dispatches
  PROVE  ActiveSecrets(command[d])' = ActiveSecrets(command'[d])
  BY DEF ActiveSecrets

(* Whatever code a dispatch returns with, the result is well typed.        *)
LEMMA ReturnTyped ==
  ASSUME TypeOK, NEW d \in Dispatches, Return(d, "disabled")
         \/ Return(d, "secret_unavailable") \/ Return(d, "dispatched")
         \/ Return(d, "http_error") \/ Return(d, "failed")
  PROVE  /\ result' \in [Dispatches -> Results \union {None}]
         /\ dpc' = [dpc EXCEPT ![d] = "returned"]
  <1>1. PICK code \in {"disabled", "secret_unavailable", "dispatched",
                       "http_error", "failed"} : Return(d, code)
    OBVIOUS
  <1>2. (code = "dispatched") \in BOOLEAN
    OBVIOUS
  <1>3. [dispatched |-> code = "dispatched", code |-> code] \in Results
    BY <1>2, Zenon DEF Results
  <1>4. QED
    BY <1>1, <1>3 DEF Return, Become, TypeOK

LEMMA DispatchInvReceive ==
  ASSUME DispatchInv, NEW d \in Dispatches, ReceiveDispatch(d)
  PROVE  DispatchInv'
  <1>1. PICK t \in Tenants, k \in Credentials \union {None} :
          LET c == [tenant |-> t, credential |-> k]
          IN /\ dpc[d] = "idle"
             /\ command' = [command EXCEPT ![d] = c]
             /\ \/ ~enabled /\ Return(d, "disabled") /\ UNCHANGED live
                \/ /\ enabled
                   /\ Become(d, IF k = None THEN "post" ELSE "resolve")
                   /\ live' = [live EXCEPT ![d] = ActiveSecrets(c)]
                   /\ UNCHANGED result
             /\ UNCHANGED <<storeVars, enabled, body, answers, wire>>
    BY DEF ReceiveDispatch
  <1> DEFINE c == [tenant |-> t, credential |-> k]
  <1>2. StoreInv' /\ StoreTypeOK'
    BY <1>1, StoreInvStutter DEF DispatchInv
  <1>3. ActiveSecrets(c) \subseteq Secrets
    BY ActiveSecretsTyped DEF DispatchInv, StoreInv
  <1>4. \A e \in Dispatches : ActiveSecrets(command[e])' = ActiveSecrets(command'[e])
    BY <1>1, ActiveSecretsStutter DEF storeVars
  <1>5. /\ c \in [tenant : Tenants, credential : Credentials \union {None}]
        /\ k # None => c \in [tenant : Tenants, credential : Credentials]
    OBVIOUS
  <1>6. /\ dpc[d] = "idle"
        /\ command' = [command EXCEPT ![d] = c]
        /\ \/ ~enabled /\ Return(d, "disabled") /\ UNCHANGED live
           \/ /\ enabled
              /\ Become(d, IF k = None THEN "post" ELSE "resolve")
              /\ live' = [live EXCEPT ![d] = ActiveSecrets(c)]
              /\ UNCHANGED result
        /\ UNCHANGED <<storeVars, enabled, body, answers, wire>>
    BY <1>1
  <1> HIDE DEF c
  <1>7. TypeOK'
    <2>1. CASE ~enabled
      BY <1>2, <1>5, <1>6, <2>1, ReturnTyped DEF DispatchInv, TypeOK
    <2>2. CASE enabled
      <3>1. PICK step \in {"post", "resolve"} : dpc' = [dpc EXCEPT ![d] = step]
        BY <1>6, <2>2 DEF Become
      <3>2. live' = [live EXCEPT ![d] = ActiveSecrets(c)] /\ UNCHANGED result
        BY <1>6, <2>2
      <3>3. QED
        BY <1>2, <1>3, <1>5, <1>6, <3>1, <3>2 DEF DispatchInv, TypeOK
    <2>3. QED
      BY <2>1, <2>2
  <1>8. DispatchControl'
    BY <1>4, <1>5, <1>6 DEF DispatchInv, TypeOK, DispatchControl, Return, Become
  <1>9. BodiesLive' /\ OnlyLiveSecretsSent'
    BY <1>6
    DEF DispatchInv, TypeOK, DispatchControl, BodiesLive, OnlyLiveSecretsSent
  <1>10. QED
    BY <1>2, <1>7, <1>8, <1>9 DEF DispatchInv

(* The secret that the broker reveals is one that a lookup finds active.   *)
LEMMA RevealsActive ==
  ASSUME NEW d \in Dispatches, NEW row \in Revealable(d),
         command[d] \in [tenant : Tenants, credential : Credentials]
  PROVE  row.secret \in ActiveSecrets(command[d])
  BY NoneNotWriter DEF Revealable, FindCredential, ActiveSecrets, Credentials

LEMMA DispatchInvResolve ==
  ASSUME DispatchInv, NEW d \in Dispatches, Resolve(d)
  PROVE  DispatchInv'
  <1>1. PICK row \in Revealable(d) : body' = [body EXCEPT ![d] = row.secret]
    BY DEF Resolve
  <1>2. row.secret \in live[d] /\ live[d] \subseteq Secrets
    BY <1>1, RevealsActive DEF Resolve, DispatchInv, DispatchControl, TypeOK
  <1>3. StoreInv' /\ StoreTypeOK'
    BY StoreInvStutter DEF DispatchInv, Resolve
  <1>4. \A e \in Dispatches : ActiveSecrets(command[e])' = ActiveSecrets(command'[e])
    BY ActiveSecretsStutter DEF Resolve, storeVars
  <1>5. TypeOK'
    BY <1>1, <1>2, <1>3 DEF DispatchInv, TypeOK, Resolve, Become
  <1>6. DispatchControl'
    BY <1>1, <1>4 DEF DispatchInv, TypeOK, DispatchControl, Resolve, Become
  <1>7. BodiesLive' /\ OnlyLiveSecretsSent'
    BY <1>1, <1>2 DEF DispatchInv, TypeOK, BodiesLive, OnlyLiveSecretsSent, Resolve
  <1>8. QED
    BY <1>3, <1>5, <1>6, <1>7 DEF DispatchInv

(* A step that neither reads nor sends a secret.                           *)
LEMMA DispatchInvMove ==
  ASSUME DispatchInv, NEW d \in Dispatches, NEW step,
         step \in {"post", "waiting", "backoff", "unsettled", "returned"},
         Become(d, step), TypeOK',
         step \in {"post", "waiting", "backoff"} => Len(answers'[d]) <= MaxRetries,
         \A e \in Dispatches \ {d} : answers'[e] = answers[e],
         dpc[d] # "idle",
         UNCHANGED <<storeVars, enabled, command, body, live, wire>>
  PROVE  DispatchInv'
  <1>1. StoreInv'
    BY StoreInvStutter DEF DispatchInv
  <1>2. \A e \in Dispatches : ActiveSecrets(command[e])' = ActiveSecrets(command[e])
    BY ActiveSecretsStutter DEF storeVars
  <1>3. DispatchControl'
    BY <1>2 DEF DispatchInv, TypeOK, DispatchControl, Become
  <1>4. BodiesLive' /\ OnlyLiveSecretsSent'
    BY DEF DispatchInv, BodiesLive, OnlyLiveSecretsSent
  <1>5. QED
    BY <1>1, <1>3, <1>4 DEF DispatchInv

LEMMA DispatchInvFail ==
  ASSUME DispatchInv, NEW d \in Dispatches, FailToResolve(d)
  PROVE  DispatchInv'
  <1>1. TypeOK'
    BY ReturnTyped, StoreInvStutter DEF FailToResolve, DispatchInv, TypeOK
  <1>2. QED
    BY <1>1, DispatchInvMove DEF FailToResolve, Return, DispatchInv

LEMMA DispatchInvPost ==
  ASSUME DispatchInv, NEW d \in Dispatches, Post(d)
  PROVE  DispatchInv'
  <1>1. StoreInv' /\ StoreTypeOK'
    BY StoreInvStutter DEF DispatchInv, Post
  <1>2. \A e \in Dispatches : ActiveSecrets(command[e])' = ActiveSecrets(command[e])
    BY ActiveSecretsStutter DEF Post, storeVars
  <1>3. TypeOK'
    BY <1>1 DEF DispatchInv, TypeOK, Post, Become
  <1>4. DispatchControl'
    BY <1>2 DEF DispatchInv, TypeOK, DispatchControl, Post, Become
  <1>5. BodiesLive' /\ OnlyLiveSecretsSent'
    BY DEF DispatchInv, TypeOK, BodiesLive, OnlyLiveSecretsSent, Post
  <1>6. QED
    BY <1>1, <1>3, <1>4, <1>5 DEF DispatchInv

LEMMA DispatchInvEndAttempt ==
  ASSUME DispatchInv, NEW d \in Dispatches, EndAttempt(d)
  PROVE  DispatchInv'
  <1>1. PICK outcome \in Outcomes :
          LET ended == Append(answers[d], outcome)
          IN /\ dpc[d] = "waiting"
             /\ answers' = [answers EXCEPT ![d] = ended]
             /\ IF Retryable(outcome) /\ AttemptsLeft(ended)
                THEN Become(d, "backoff") /\ UNCHANGED result
                ELSE Return(d, Code(ended))
             /\ UNCHANGED <<storeVars, enabled, command, body, live, wire>>
    BY DEF EndAttempt
  <1> DEFINE ended == Append(answers[d], outcome)
  <1>2. /\ ended \in Seq(Outcomes)
        /\ Len(ended) <= MaxRetries + 1
        /\ Len(ended) = Len(answers[d]) + 1
        /\ Len(answers[d]) \in Nat
    BY <1>1, MaxRetriesAssumption DEF DispatchInv, TypeOK, DispatchControl
  <1>3. StoreTypeOK'
    BY <1>1, StoreInvStutter DEF DispatchInv
  <1>4. answers' = [answers EXCEPT ![d] = ended]
    BY <1>1
  <1>5. CASE Retryable(outcome) /\ AttemptsLeft(ended)
    <2>1. Become(d, "backoff") /\ UNCHANGED result /\ Len(ended) <= MaxRetries
      BY <1>1, <1>5 DEF AttemptsLeft
    <2> HIDE DEF ended
    <2>2. TypeOK'
      BY <1>1, <1>2, <1>3, <1>4, <2>1 DEF DispatchInv, TypeOK, Become
    <2>3. QED
      BY <1>1, <1>4, <2>1, <2>2, DispatchInvMove DEF DispatchInv, TypeOK
  <1>6. CASE ~(Retryable(outcome) /\ AttemptsLeft(ended))
    <2>1. Return(d, Code(ended))
      BY <1>1, <1>6
    <2>2. Code(ended) \in {"dispatched", "failed", "http_error"}
      BY DEF Code
    <2> HIDE DEF ended
    <2>3. /\ result' \in [Dispatches -> Results \union {None}]
          /\ dpc' = [dpc EXCEPT ![d] = "returned"]
      BY <2>1, <2>2, ReturnTyped DEF DispatchInv
    <2>4. TypeOK'
      BY <1>1, <1>2, <1>3, <1>4, <2>3 DEF DispatchInv, TypeOK
    <2>5. QED
      BY <1>1, <1>4, <2>1, <2>4, DispatchInvMove DEF DispatchInv, TypeOK, Return
  <1>7. QED
    BY <1>5, <1>6

LEMMA DispatchInvClose ==
  ASSUME DispatchInv, NEW d \in Dispatches, CloseInsideResponse(d)
  PROVE  DispatchInv'
  <1>1. TypeOK'
    BY StoreInvStutter DEF CloseInsideResponse, Become, DispatchInv, TypeOK
  <1>2. QED
    BY <1>1, DispatchInvMove DEF CloseInsideResponse

LEMMA DispatchInvWake ==
  ASSUME DispatchInv, NEW d \in Dispatches, Wake(d)
  PROVE  DispatchInv'
  <1>1. Len(answers[d]) <= MaxRetries
    BY DEF Wake, DispatchInv, DispatchControl
  <1>2. TypeOK'
    BY StoreInvStutter DEF Wake, Become, DispatchInv, TypeOK
  <1>3. QED
    BY <1>1, <1>2, DispatchInvMove DEF Wake

----------------------------------------------------------------------------
(* The store's statements, as the dispatches see them.                     *)

LEMMA DispatchInvStoreUpdate ==
  ASSUME DispatchInv, NEW w \in Writers, StoreUpdate(w)
  PROVE  DispatchInv'
  <1>1. StoreInv' /\ StoreTypeOK'
    BY StoreInvUpdate DEF DispatchInv, StoreUpdate, StoreInv
  <1>2. UNCHANGED <<enabled, dpc, command, body, answers, result, wire>>
    BY DEF StoreUpdate
  <1>3. \A d \in Dispatches :
          live'[d] = IF dpc[d] = "resolve"
                     THEN live[d] \union ActiveSecrets(command[d])'
                     ELSE live[d]
    BY DEF StoreUpdate
  <1>4. \A d \in Dispatches :
          dpc[d] = "resolve" => ActiveSecrets(command[d])' \subseteq Secrets
    <2>1. SUFFICES ASSUME NEW d \in Dispatches, dpc[d] = "resolve"
                   PROVE  ActiveSecrets(command[d])' \subseteq Secrets
      OBVIOUS
    <2>2. /\ command'[d].credential \in Credentials
          /\ credentials' \in [Credentials -> SUBSET CredentialRow]
      BY <1>1, <1>2, <2>1 DEF DispatchInv, DispatchControl, StoreTypeOK
    <2>3. QED
      BY <2>2 DEF ActiveSecrets, CredentialRow
  <1>5. live' \in [Dispatches -> SUBSET Secrets]
    BY <1>4 DEF StoreUpdate, DispatchInv, TypeOK
  <1>6. TypeOK'
    BY <1>1, <1>2, <1>5 DEF DispatchInv, TypeOK
  <1>7. DispatchControl'
    BY <1>2, <1>3 DEF DispatchInv, DispatchControl
  <1>8. BodiesLive' /\ OnlyLiveSecretsSent'
    BY <1>2, <1>3 DEF DispatchInv, BodiesLive, OnlyLiveSecretsSent
  <1>9. QED
    BY <1>1, <1>6, <1>7, <1>8 DEF DispatchInv

LEMMA DispatchInvStoreBookkeep ==
  ASSUME DispatchInv, NEW w \in Writers, StoreBookkeep(w)
  PROVE  DispatchInv'
  <1>1. StoreInv' /\ StoreTypeOK' /\ UNCHANGED credentials
    BY StoreInvBookkeep DEF DispatchInv, StoreBookkeep, StoreInv
  <1>2. UNCHANGED <<enabled, dpc, command, body, answers, result, live, wire>>
    BY DEF StoreBookkeep, dispatchVars
  <1>3. \A d \in Dispatches : ActiveSecrets(command[d])' = ActiveSecrets(command[d])
    BY <1>1, <1>2, ActiveSecretsStutter
  <1>4. QED
    BY <1>1, <1>2, <1>3
    DEF DispatchInv, TypeOK, DispatchControl, BodiesLive, OnlyLiveSecretsSent

LEMMA DispatchInvStutter ==
  ASSUME DispatchInv, UNCHANGED vars
  PROVE  DispatchInv'
  <1>1. StoreInv' /\ StoreTypeOK'
    BY StoreInvStutter DEF DispatchInv, vars
  <1>2. \A d \in Dispatches : ActiveSecrets(command[d])' = ActiveSecrets(command[d])
    BY ActiveSecretsStutter DEF vars, storeVars, dispatchVars
  <1>3. QED
    BY <1>1, <1>2
    DEF DispatchInv, TypeOK, DispatchControl, BodiesLive, OnlyLiveSecretsSent,
        vars, dispatchVars

LEMMA DispatchInvStep == DispatchInv /\ [Next]_vars => DispatchInv'
  <1> SUFFICES ASSUME DispatchInv, [Next]_vars
               PROVE  DispatchInv'
    OBVIOUS
  <1>1. ASSUME NEW w \in Writers, StoreUpdate(w) \/ StoreBookkeep(w)
        PROVE  DispatchInv'
    BY <1>1, DispatchInvStoreUpdate, DispatchInvStoreBookkeep
  <1>2. ASSUME NEW d \in Dispatches,
               ReceiveDispatch(d) \/ Progress(d) \/ CloseInsideResponse(d)
        PROVE  DispatchInv'
    BY <1>2, DispatchInvReceive, DispatchInvResolve, DispatchInvFail,
       DispatchInvPost, DispatchInvEndAttempt, DispatchInvWake, DispatchInvClose
    DEF Progress
  <1>3. QED
    BY <1>1, <1>2, DispatchInvStutter DEF Next

(* The invariant from which everything below follows: what each writing    *)
(* call and each dispatch knows at its step, the secrets that rows, bodies *)
(* and the wire may hold, and the types.                                   *)
THEOREM Invariance == Spec => []DispatchInv
  <1>1. QED
    BY DispatchInvInit, DispatchInvStep, PTL DEF Spec

----------------------------------------------------------------------------
(* The store and the dispatches keep their types, whatever the number of   *)
(* writers and dispatches and however the attempts end; no dispatch ever   *)
(* makes more than MaxRetries + 1 attempts.                                *)
THEOREM TypeCorrect == Spec => []TypeOK
  <1>1. DispatchInv => TypeOK
    BY DEF DispatchInv
  <1>2. QED
    BY <1>1, Invariance, PTL

(* A secret that HttpConnectorDispatchAdapter sends was, at some moment of *)
(* that dispatch and before the broker returned it, the active value of    *)
(* the credential the command names, in the command's tenant.              *)
THEOREM SentSecretsWereLive == Spec => []OnlyLiveSecretsSent
  <1>1. DispatchInv => OnlyLiveSecretsSent
    BY DEF DispatchInv
  <1>2. QED
    BY <1>1, Invariance, PTL

(* The entries that CredentialsService writes to the audit log tell the    *)
(* status each operation left, and success means that the entry is there.  *)
THEOREM AuditIsTruthful == Spec => []CredentialAuditTruthful
  <1>1. DispatchInv => CredentialAuditTruthful
    BY DEF DispatchInv, StoreInv
  <1>2. QED
    BY <1>1, Invariance, PTL

(* Every row of the table credentials is as the last call to write it left *)
(* it, whichever creations, rotations and revocations meet, and that call  *)
(* has its audit entry unless CredentialsService did not answer "ok".      *)
THEOREM RowsHaveTheirCall == Spec => []RowsAccountedFor
  <1>1. DispatchInv => RowsAccountedFor
    BY DEF DispatchInv, StoreInv
  <1>2. QED
    BY <1>1, Invariance, PTL

----------------------------------------------------------------------------
(* What an attempt's end, in order, says of the dispatch.                  *)

(* The ends that send goes on after: it is called again for nothing else.  *)
AttemptsOK(d) ==
  /\ dpc[d] # "returned" =>
       /\ result[d] = None
       /\ \A i \in 1 .. Len(answers[d]) : Retryable(answers[d][i])
  /\ dpc[d] \in {"idle", "resolve"} => answers[d] = <<>> /\ wire[d] = {}
  /\ dpc[d] \in {"resolve", "post", "waiting", "backoff"} => enabled

(* What ResultMatchesAttempts says of one dispatch.                        *)
ResultOK(d) ==
  result[d] # None =>
    LET n == Len(answers[d])
        final(i) == answers[d][i] \in {"success", "client_error"}
        responded == {i \in 1..n : answers[d][i] # "transport_error"}
    IN /\ result[d].dispatched <=> n > 0 /\ answers[d][n] = "success"
       /\ \A i \in 1..(n - 1) : ~final(i)
       /\ n > 0 /\ ~final(n) => n = MaxRetries + 1
       /\ result[d].code = "failed" => n > 0 /\ responded = {}
       /\ result[d].code = "http_error" => responded # {}
       /\ result[d].code = "disabled" <=> ~enabled
       /\ result[d].code \in {"disabled", "secret_unavailable"} =>
            n = 0 /\ wire[d] = {}

Answered == \A d \in Dispatches : AttemptsOK(d) /\ ResultOK(d)

LEMMA AnsweredInit == Init => Answered
  BY DEF Init, Answered, AttemptsOK, ResultOK

(* A step that leaves what a dispatch went through alone.                  *)
LEMMA AnsweredElsewhere ==
  ASSUME NEW d \in Dispatches, AttemptsOK(d), ResultOK(d), UNCHANGED enabled,
         dpc'[d] = dpc[d], answers'[d] = answers[d], result'[d] = result[d],
         wire'[d] = wire[d]
  PROVE  AttemptsOK(d)' /\ ResultOK(d)'
  BY DEF AttemptsOK, ResultOK

LEMMA AnsweredReceive ==
  ASSUME TypeOK, Answered, NEW d \in Dispatches, ReceiveDispatch(d)
  PROVE  AttemptsOK(d)' /\ ResultOK(d)'
  <1>1. /\ dpc[d] = "idle" /\ result[d] = None /\ answers[d] = <<>> /\ wire[d] = {}
        /\ UNCHANGED <<enabled, answers, wire>>
    BY DEF ReceiveDispatch, Answered, AttemptsOK
  <1>2. \/ ~enabled /\ Return(d, "disabled")
        \/ enabled /\ (Become(d, "post") \/ Become(d, "resolve")) /\ UNCHANGED result
    BY DEF ReceiveDispatch
  <1>3. answers'[d] = <<>> /\ Len(answers'[d]) = 0 /\ wire'[d] = {}
    BY <1>1
  <1>4. CASE ~enabled /\ Return(d, "disabled")
    <2>1. /\ dpc'[d] = "returned"
          /\ result'[d] = [dispatched |-> FALSE, code |-> "disabled"]
      BY <1>4 DEF Return, Become, TypeOK
    <2>2. QED
      BY <1>1, <1>3, <1>4, <2>1 DEF AttemptsOK, ResultOK
  <1>5. CASE enabled /\ (Become(d, "post") \/ Become(d, "resolve")) /\ UNCHANGED result
    <2>1. dpc'[d] \in {"post", "resolve"} /\ result'[d] = None
      BY <1>1, <1>5 DEF Become, TypeOK
    <2>2. QED
      BY <1>1, <1>3, <1>5, <2>1 DEF AttemptsOK, ResultOK
  <1>6. QED
    BY <1>2, <1>4, <1>5

LEMMA AnsweredFail ==
  ASSUME TypeOK, Answered, NEW d \in Dispatches, FailToResolve(d)
  PROVE  AttemptsOK(d)' /\ ResultOK(d)'
  <1>1. /\ enabled /\ answers[d] = <<>> /\ wire[d] = {}
        /\ UNCHANGED <<enabled, answers, wire>>
    BY DEF FailToResolve, Answered, AttemptsOK
  <1>2. /\ dpc'[d] = "returned"
        /\ result'[d] = [dispatched |-> FALSE, code |-> "secret_unavailable"]
    BY DEF FailToResolve, Return, Become, TypeOK
  <1>3. answers'[d] = <<>> /\ Len(answers'[d]) = 0 /\ wire'[d] = {}
    BY <1>1
  <1>4. QED
    BY <1>1, <1>2, <1>3 DEF AttemptsOK, ResultOK

(* Steps between attempts: nothing ends, nothing is returned.              *)
LEMMA AnsweredMove ==
  ASSUME TypeOK, Answered, NEW d \in Dispatches,
         Resolve(d) \/ Post(d) \/ Wake(d) \/ CloseInsideResponse(d)
  PROVE  AttemptsOK(d)' /\ ResultOK(d)'
  <1>1. /\ dpc[d] \in {"resolve", "post", "waiting", "backoff"}
        /\ UNCHANGED <<enabled, answers, result>>
        /\ dpc'[d] \in {"post", "waiting", "unsettled"}
    BY DEF Resolve, Post, Wake, CloseInsideResponse, Become, TypeOK
  <1>2. result'[d] = None
        /\ \A i \in 1 .. Len(answers'[d]) : Retryable(answers'[d][i])
    BY <1>1 DEF Answered, AttemptsOK
  <1>3. QED
    BY <1>1, <1>2 DEF Answered, AttemptsOK, ResultOK

LEMMA AnsweredEndAttempt ==
  ASSUME DispatchInv, Answered, NEW d \in Dispatches, EndAttempt(d)
  PROVE  AttemptsOK(d)' /\ ResultOK(d)'
  <1>1. PICK outcome \in Outcomes :
          LET ended == Append(answers[d], outcome)
          IN /\ dpc[d] = "waiting"
             /\ answers' = [answers EXCEPT ![d] = ended]
             /\ IF Retryable(outcome) /\ AttemptsLeft(ended)
                THEN Become(d, "backoff") /\ UNCHANGED result
                ELSE Return(d, Code(ended))
             /\ UNCHANGED <<storeVars, enabled, command, body, live, wire>>
    BY DEF EndAttempt
  <1> DEFINE ended == Append(answers[d], outcome)
             n == Len(answers[d]) + 1
  <1>2. /\ answers[d] \in Seq(Outcomes) /\ Len(answers[d]) \in Nat
        /\ Len(answers[d]) <= MaxRetries
        /\ enabled /\ result[d] = None
        /\ \A i \in 1 .. Len(answers[d]) : Retryable(answers[d][i])
    BY <1>1 DEF DispatchInv, TypeOK, DispatchControl, Answered, AttemptsOK
  <1>3. /\ Len(ended) = n /\ n \in Nat /\ n > 0 /\ ended[n] = outcome
        /\ \A i \in 1 .. (n - 1) : ended[i] = answers[d][i]
        /\ DOMAIN ended = 1 .. n
    BY <1>2
  <1>4. answers'[d] = ended /\ UNCHANGED enabled
    BY <1>1 DEF DispatchInv, TypeOK
  <1>5. \A i \in 1 .. (n - 1) : Retryable(ended[i])
    BY <1>2, <1>3
  <1> HIDE DEF ended
  <1>6. CASE Retryable(outcome) /\ AttemptsLeft(ended)
    <2>1. dpc'[d] = "backoff" /\ result'[d] = None
      BY <1>1, <1>2, <1>6 DEF ended, Become, DispatchInv, TypeOK
    <2>2. \A i \in 1 .. n : Retryable(ended[i])
      BY <1>3, <1>5, <1>6
    <2>3. QED
      BY <1>2, <1>3, <1>4, <2>1, <2>2 DEF AttemptsOK, ResultOK
  <1>7. CASE ~(Retryable(outcome) /\ AttemptsLeft(ended))
    <2> DEFINE code == Code(ended)
    <2>1. /\ dpc'[d] = "returned"
          /\ result'[d] = [dispatched |-> code = "dispatched", code |-> code]
      BY <1>1, <1>7 DEF ended, Return, Become, DispatchInv, TypeOK
    <2>2. /\ code \in {"dispatched", "http_error", "failed"}
          /\ code = "dispatched" <=> outcome = "success"
          /\ code = "http_error" => \E i \in 1 .. n : ended[i] # "transport_error"
          /\ code = "failed" => \A i \in 1 .. n : ended[i] = "transport_error"
      BY <1>3 DEF Code
    <2>3. Retryable(outcome) => n = MaxRetries + 1
      BY <1>2, <1>3, <1>7, MaxRetriesAssumption DEF AttemptsLeft
    <2>4. \A x \in Outcomes : ~(x \in {"success", "client_error"}) <=> Retryable(x)
      BY DEF Outcomes, Retryable
    <2>5. \A i \in 1 .. (n - 1) : ~(ended[i] \in {"success", "client_error"})
      BY <1>5 DEF Retryable
    <2> HIDE DEF code, n
    <2>6. AttemptsOK(d)'
      BY <1>2, <1>4, <2>1 DEF AttemptsOK
    <2>7. ResultOK(d)'
      <3>1. /\ Len(answers'[d]) = n
            /\ result'[d].dispatched <=> code = "dispatched"
            /\ result'[d].code = code
        <4>1. [dispatched |-> code = "dispatched", code |-> code].dispatched
                <=> code = "dispatched"
          BY Zenon
        <4>2. QED
          BY <1>3, <1>4, <2>1, <4>1
      <3>2. result'[d].dispatched <=> n > 0 /\ answers'[d][n] = "success"
        BY <1>3, <1>4, <2>2, <3>1
      <3>3. \A i \in 1 .. (n - 1) : ~(answers'[d][i] \in {"success", "client_error"})
        BY <1>4, <2>5
      <3>4. ~(answers'[d][n] \in {"success", "client_error"}) => n = MaxRetries + 1
        BY <1>3, <1>4, <2>3, <2>4
      <3>5. /\ code = "failed" =>
                 {i \in 1 .. n : answers'[d][i] # "transport_error"} = {}
            /\ code = "http_error" =>
                 {i \in 1 .. n : answers'[d][i] # "transport_error"} # {}
        BY <1>4, <2>2
      <3>6. code \notin {"disabled", "secret_unavailable"} /\ enabled'
        BY <1>2, <1>4, <2>2
      <3>7. QED
        BY <1>3, <3>1, <3>2, <3>3, <3>4, <3>5, <3>6 DEF ResultOK
    <2>8. QED
      BY <2>6, <2>7
  <1>8. QED
    BY <1>6, <1>7

(* What a step of one dispatch leaves alone of another.                    *)
LEMMA DispatchesApart ==
  ASSUME TypeOK, NEW d \in Dispatches, NEW e \in Dispatches \ {d},
         ReceiveDispatch(d) \/ Progress(d) \/ CloseInsideResponse(d)
  PROVE  /\ UNCHANGED enabled
         /\ dpc'[e] = dpc[e] /\ answers'[e] = answers[e]
         /\ result'[e] = result[e] /\ wire'[e] = wire[e]
  BY DEF ReceiveDispatch, Progress, Resolve, FailToResolve, Post, EndAttempt,
         Wake, CloseInsideResponse, Return, Become, TypeOK

LEMMA AnsweredStep ==
  ASSUME DispatchInv, Answered, [Next]_vars
  PROVE  Answered'
  <1>1. ASSUME UNCHANGED <<enabled, dpc, answers, result, wire>>
        PROVE  Answered'
    BY <1>1, AnsweredElsewhere DEF Answered
  <1>2. ASSUME NEW w \in Writers, StoreUpdate(w) \/ StoreBookkeep(w)
        PROVE  Answered'
    BY <1>1, <1>2 DEF StoreUpdate, StoreBookkeep, dispatchVars
  <1>3. ASSUME NEW d \in Dispatches,
               ReceiveDispatch(d) \/ Progress(d) \/ CloseInsideResponse(d)
        PROVE  Answered'
    <2>1. TypeOK
      BY DEF DispatchInv
    <2>2. AttemptsOK(d)' /\ ResultOK(d)'
      BY <1>3, <2>1, AnsweredReceive, AnsweredFail, AnsweredMove,
         AnsweredEndAttempt
      DEF Progress
    <2>3. \A e \in Dispatches \ {d} : AttemptsOK(e)' /\ ResultOK(e)'
      BY <1>3, <2>1, DispatchesApart, AnsweredElsewhere DEF Answered
    <2>4. QED
      BY <2>2, <2>3 DEF Answered
  <1>4. CASE UNCHANGED vars
    BY <1>1, <1>4 DEF vars, dispatchVars
  <1>5. QED
    BY <1>2, <1>3, <1>4 DEF Next

(* What HttpConnectorDispatchAdapter.dispatch returns is what its attempts *)
(* say, for any number of retries and any order of their ends: success     *)
(* only if the last attempt had it, no attempt after a response below 500, *)
(* every retry spent before it gives up, a response preferred over an      *)
(* error, and nothing sent when it is disabled or without its secret.      *)
THEOREM ResultsAreEarned == Spec => []ResultMatchesAttempts
  <1>1. Init => DispatchInv /\ Answered
    BY DispatchInvInit, AnsweredInit
  <1>2. DispatchInv /\ Answered /\ [Next]_vars => (DispatchInv /\ Answered)'
    BY DispatchInvStep, AnsweredStep
  <1>3. Answered => ResultMatchesAttempts
    BY DEF Answered, ResultOK, ResultMatchesAttempts
  <1>4. QED
    BY <1>1, <1>2, <1>3, PTL DEF Spec
=============================================================================
