------------------------- MODULE CredentialDispatch -------------------------
(***************************************************************************)
(* Dispatch of a connector command over HTTP                               *)
(* (runtime/dispatch/http-connector-dispatch.adapter.ts) with the secret   *)
(* that the credential broker resolves, while other calls create, rotate   *)
(* and revoke credentials.                                                 *)
(*                                                                         *)
(* The broker reads the credential once per dispatch; the body that holds  *)
(* the plaintext is then sent once per attempt, with a timed back-off      *)
(* between attempts, so the credential may change after it was read.       *)
(***************************************************************************)
EXTENDS Credentials

CONSTANTS
  Dispatches,  \* calls of HttpConnectorDispatchAdapter.dispatch
  MaxRetries   \* CONNECTOR_DISPATCH_MAX_RETRIES

ASSUME MaxRetriesAssumption == MaxRetries \in Nat

VARIABLES
  enabled,  \* CONNECTOR_DISPATCH_ENABLED, fixed when the server starts
  dpc,      \* where each dispatch has come to
  command,  \* its command, as far as it matters here
  body,     \* the secret inside the request body, None for no secret
  answers,  \* how its attempts ended, in order
  result,   \* what it returned
  live,     \* history: the secrets a lookup would have found active since
            \* the dispatch was called and until its own lookup
  wire      \* history: the secrets each dispatch has sent

dispatchVars == <<enabled, dpc, command, body, answers, result, live, wire>>
vars == <<storeVars, dispatchVars>>

Outcomes == {"success", "client_error", "server_error", "transport_error"}

Results ==
  [dispatched : BOOLEAN,
   code : {"disabled", "secret_unavailable", "dispatched", "http_error", "failed"}]

Init ==
  /\ StoreInit
  /\ enabled \in BOOLEAN
  /\ dpc = [d \in Dispatches |-> "idle"]
  /\ command = [d \in Dispatches |-> None]
  /\ body = [d \in Dispatches |-> None]
  /\ answers = [d \in Dispatches |-> <<>>]
  /\ result = [d \in Dispatches |-> None]
  /\ live = [d \in Dispatches |-> {}]
  /\ wire = [d \in Dispatches |-> {}]

Become(d, step) == dpc' = [dpc EXCEPT ![d] = step]

Return(d, code) ==
  /\ Become(d, "returned")
  /\ result' = [result EXCEPT ![d] =
                  [dispatched |-> code = "dispatched", code |-> code]]

(* The active secret of the credential that a command names, in its tenant. *)
ActiveSecrets(c) ==
  IF c.credential = None THEN {}
  ELSE {row.secret : row \in {r \in credentials[c.credential] :
                                r.status = "active" /\ r.tenant = c.tenant}}

(* A credentialRef may be absent.                                          *)
ReceiveDispatch(d) ==
  \E t \in Tenants, k \in Credentials \union {None} :
    LET c == [tenant |-> t, credential |-> k]
    IN /\ dpc[d] = "idle"
       /\ command' = [command EXCEPT ![d] = c]
       /\ \/ ~enabled /\ Return(d, "disabled") /\ UNCHANGED live
          \/ /\ enabled
             /\ Become(d, IF k = None THEN "post" ELSE "resolve")
             /\ live' = [live EXCEPT ![d] = ActiveSecrets(c)]
             /\ UNCHANGED result
       /\ UNCHANGED <<storeVars, enabled, body, answers, wire>>

----------------------------------------------------------------------------
(* CredentialBrokerService.resolveSecret and the failure it turns into.    *)

(* Defect: the broker does not look at the status.                         *)
RevealableAnyStatus(d) ==
  FindCredential(command[d].tenant, command[d].credential)

Revealable(d) ==
  {row \in FindCredential(command[d].tenant, command[d].credential) :
     row.status = "active"}

Resolve(d) ==
  /\ dpc[d] = "resolve"
  /\ \E row \in Revealable(d) : body' = [body EXCEPT ![d] = row.secret]
  /\ Become(d, "post")
  /\ UNCHANGED <<storeVars, enabled, command, answers, result, live, wire>>

(* No such credential in the tenant, not active, or (whatever the row) a   *)
(* lookup or a decryption that fails.                                      *)
FailToResolve(d) ==
  /\ dpc[d] = "resolve"
  /\ Return(d, "secret_unavailable")
  /\ UNCHANGED <<storeVars, enabled, command, body, answers, live, wire>>

----------------------------------------------------------------------------
(* send: one attempt after another.                                        *)

Post(d) ==
  /\ dpc[d] = "post"
  /\ Become(d, "waiting")
  /\ wire' = [wire EXCEPT ![d] = @ \union ({body[d]} \ {None})]
  /\ UNCHANGED <<storeVars, enabled, command, body, answers, result, live>>

(* response.statusCode < 500 is returned at once.                          *)
Retryable(outcome) == outcome \in {"server_error", "transport_error"}

(* Defect: attempt < maxRetries + 1.                                       *)
AttemptsLeftOneMore(ended) == Len(ended) <= MaxRetries + 1

AttemptsLeft(ended) == Len(ended) <= MaxRetries

(* Defect: an error of the last attempt hides the responses before it.     *)
CodeFromLastAttempt(ended) ==
  IF ended[Len(ended)] = "success" THEN "dispatched"
  ELSE IF ended[Len(ended)] = "transport_error" THEN "failed" ELSE "http_error"

(* A response, if any attempt had one, is preferred over an error.         *)
Code(ended) ==
  IF ended[Len(ended)] = "success" THEN "dispatched"
  ELSE IF \E i \in DOMAIN ended : ended[i] # "transport_error"
       THEN "http_error" ELSE "failed"

(* Defect: only the first attempt has a time-out.                          *)
EndAttemptFirstOnly(d) ==
  \E outcome \in Outcomes :
    LET ended == Append(answers[d], outcome)
    IN /\ dpc[d] = "waiting" /\ answers[d] = <<>>
       /\ answers' = [answers EXCEPT ![d] = ended]
       /\ IF Retryable(outcome) /\ AttemptsLeft(ended)
          THEN Become(d, "backoff") /\ UNCHANGED result
          ELSE Return(d, Code(ended))
       /\ UNCHANGED <<storeVars, enabled, command, body, live, wire>>

(* An attempt ends with a complete response or with an error: refused,     *)
(* reset before the response, or the socket timeout.                       *)
EndAttempt(d) ==
  \E outcome \in Outcomes :
    LET ended == Append(answers[d], outcome)
    IN /\ dpc[d] = "waiting"
       /\ answers' = [answers EXCEPT ![d] = ended]
       /\ IF Retryable(outcome) /\ AttemptsLeft(ended)
          THEN Become(d, "backoff") /\ UNCHANGED result
          ELSE Return(d, Code(ended))
       /\ UNCHANGED <<storeVars, enabled, command, body, live, wire>>

(* The peer closes the connection when the response has begun and has not  *)
(* ended.  The transport listens for 'data' and 'end' of the response and  *)
(* for 'error' and 'timeout' of the request: none of them is emitted, and  *)
(* the promise of post never settles.                                      *)
CloseInsideResponse(d) ==
  /\ dpc[d] = "waiting"
  /\ Become(d, "unsettled")
  /\ UNCHANGED <<storeVars, enabled, command, body, answers, result, live, wire>>

Wake(d) ==
  /\ dpc[d] = "backoff"
  /\ Become(d, "post")
  /\ UNCHANGED <<storeVars, enabled, command, body, answers, result, live, wire>>

----------------------------------------------------------------------------
(* A statement of the store changes what the dispatches still to look up   *)
(* would find.                                                             *)
StoreUpdate(w) ==
  /\ Update(w)
  /\ UNCHANGED <<enabled, dpc, command, body, answers, result, wire>>
  /\ live' = [d \in Dispatches |->
                IF dpc[d] = "resolve"
                THEN live[d] \union ActiveSecrets(command[d])'
                ELSE live[d]]

StoreBookkeep(w) == Bookkeep(w) /\ UNCHANGED dispatchVars

Progress(d) ==
  Resolve(d) \/ FailToResolve(d) \/ Post(d) \/ EndAttempt(d) \/ Wake(d)

Next ==
  \/ \E w \in Writers : StoreUpdate(w) \/ StoreBookkeep(w)
  \/ \E d \in Dispatches :
       ReceiveDispatch(d) \/ Progress(d) \/ CloseInsideResponse(d)

Spec == Init /\ [][Next]_vars

(* The event loop runs what is ready; every statement is answered or       *)
(* fails, every timer fires, and the socket timeout ends an attempt that   *)
(* is not answered.  Nobody has to close a connection.                     *)
FairSpec == Spec /\ \A d \in Dispatches : WF_vars(Progress(d))
----------------------------------------------------------------------------
TypeOK ==
  /\ StoreTypeOK
  /\ enabled \in BOOLEAN
  /\ dpc \in [Dispatches -> {"idle", "resolve", "post", "waiting", "backoff",
                             "unsettled", "returned"}]
  /\ command \in [Dispatches ->
       [tenant : Tenants, credential : Credentials \union {None}] \union {None}]
  /\ body \in [Dispatches -> Secrets \union {None}]
  /\ answers \in [Dispatches -> Seq(Outcomes)]
  /\ \A d \in Dispatches : Len(answers[d]) <= MaxRetries + 1
  /\ result \in [Dispatches -> Results \union {None}]
  /\ live \in [Dispatches -> SUBSET Secrets]
  /\ wire \in [Dispatches -> SUBSET Secrets]

(* A secret is sent only if it was the active value of the credential the  *)
(* command names, in the command's tenant, at some moment of this dispatch *)
(* before it was sent: what was revoked or replaced when the dispatch was  *)
(* called never leaves the server, whatever the writers do meanwhile.      *)
OnlyLiveSecretsSent == \A d \in Dispatches : wire[d] \subseteq live[d]

(* What dispatch returns is what its attempts say: it succeeded only if    *)
(* the last attempt did, it stopped at the first response below 500, it    *)
(* spent every retry before it gave up, it prefers a response over an      *)
(* error, and when it reports that dispatch is disabled or the secret      *)
(* unavailable nothing was sent.                                           *)
ResultMatchesAttempts ==
  \A d \in Dispatches : result[d] # None =>
    LET n == Len(answers[d])
        final(i) == answers[d][i] \in {"success", "client_error"}
        responded == {i \in 1..n : answers[d][i] # "transport_error"}
    IN /\ result[d].dispatched <=> n > 0 /\ answers[d][n] = "success"
       /\ \A i \in 1..(n - 1) : ~final(i)
       /\ n > 0 /\ ~final(n) => n = MaxRetries + 1
       /\ result[d].code = "failed" => n > 0 /\ responded = {}
       /\ result[d].code = "http_error" => responded # {}
       /\ result[d].code = "disabled" <=> ~enabled
       /\ result[d].code \in {"disabled", "secret_unavailable"} =>
            n = 0 /\ wire[d] = {}

(* The audit log tells what each operation left behind: a revocation is    *)
(* logged as revoked, a creation or rotation as active, and a call is      *)
(* answered with success only when its entry is there.                     *)
CredentialAuditTruthful ==
  /\ \A a \in audit : a.status = "revoked" <=> a.op = "revoke"
  /\ \A w \in Writers : wpc[w] = "ok" => \E a \in audit : a.by = w

(* Every row is as the statement of one call left it, the last to write    *)
(* it: revoked by a revocation, active with the value that a creation or a *)
(* rotation provided; what was revoked before is active again only by a    *)
(* rotation.  That call has its entry in the audit log, or it has not been *)
(* answered with success: it is on its way to the entry or failed on it.   *)
RowsAccountedFor ==
  \A k \in Credentials : \A row \in credentials[k] :
    \E w \in Writers :
      /\ wpc[w] \in {"audit", "ok", "error"}
      /\ returned[w] = row
      /\ write[w].credential = k /\ write[w].tenant = row.tenant
      /\ row.status = "revoked" <=> write[w].op = "revoke"
      /\ row.status = "active" => row.secret = write[w].secret
      /\ row.revoked => write[w].op # "create"
      /\ wpc[w] = "ok" => \E a \in audit : a.by = w /\ a.status = row.status

(* A dispatch that was called returns, whatever fails and whatever the     *)
(* writers do, unless its peer closes a connection inside a response.      *)
DispatchesSettle ==
  \A d \in Dispatches : dpc[d] # "idle" ~> dpc[d] \in {"returned", "unsettled"}

----------------------------------------------------------------------------
(* What the documents say and the code does not do.                        *)

(* Every dispatch that was called returns.                                 *)
EveryDispatchReturns ==
  \A d \in Dispatches : dpc[d] # "idle" ~> dpc[d] = "returned"
=============================================================================
