---------------------------- MODULE Credentials -----------------------------
(***************************************************************************)
(* The credential store of modules/credentials: create, rotate and revoke, *)
(* each an autocommitted statement on the table credentials followed by an *)
(* awaited INSERT into audit_logs.                                         *)
(***************************************************************************)
EXTENDS Naturals, Sequences

CONSTANTS
  Writers,      \* calls of POST /credentials, PATCH /:id/rotate, /:id/revoke
  Tenants,
  Secrets,      \* the values that clients provide, the same one again if they like
  WriteInputs,  \* what the calls may be asked to do
  None

(* gen_random_uuid() gives each inserted credential an identifier of its   *)
(* own: it is named by the call that creates it.                           *)
Credentials == Writers

VARIABLES
  credentials,  \* identifier -> set of at most one row
  audit,        \* audit_logs, as far as credentials are concerned
  wpc,          \* the statement each writing call is about to issue
  write,        \* what each writing call was asked to do
  returned      \* the row that its statement returned

storeVars == <<credentials, audit, wpc, write, returned>>

Operations == {"create", "rotate", "revoke"}

(* rotated and revoked say whether rotated_at and revoked_at are set.      *)
CredentialRow ==
  [tenant : Tenants, status : {"active", "revoked"}, secret : Secrets,
   rotated : BOOLEAN, revoked : BOOLEAN]

Write ==
  [op : Operations, tenant : Tenants, credential : Credentials,
   secret : Secrets \union {None}]

ASSUME NoneNotWriter == None \notin Writers

(* CreateCredentialDto and RotateCredentialDto ask for a secret; neither   *)
(* asks whether it was used before.                                        *)
ASSUME WriteInputsAssumption ==
  WriteInputs \subseteq
    {input \in Write : input.op # "revoke" => input.secret \in Secrets}

AuditRow ==
  [by : Writers, credential : Credentials, op : Operations,
   status : {"active", "revoked"}]

StoreInit ==
  /\ credentials = [k \in Credentials |-> {}]
  /\ audit = {}
  /\ wpc = [w \in Writers |-> "idle"]
  /\ write = [w \in Writers |-> None]
  /\ returned = [w \in Writers |-> None]

(* WHERE id = ? AND tenant_id = ?; an identifier that is not a UUID finds  *)
(* nothing.                                                                *)
FindCredential(t, k) ==
  IF k \in Credentials THEN {row \in credentials[k] : row.tenant = t} ELSE {}

Found(w) == FindCredential(write[w].tenant, write[w].credential)

ReceiveWrite(w) ==
  \E input \in WriteInputs :
    /\ wpc[w] = "idle"
    /\ input.op = "create" => input.credential = w
    /\ write' = [write EXCEPT ![w] = input]
    /\ wpc' = [wpc EXCEPT ![w] = "statement"]
    /\ UNCHANGED <<credentials, audit, returned>>

(* The statement stores the row and returns it.                            *)
Store(w, row) ==
  /\ credentials' = [credentials EXCEPT ![write[w].credential] = {row}]
  /\ returned' = [returned EXCEPT ![w] = row]
  /\ wpc' = [wpc EXCEPT ![w] = "audit"]
  /\ UNCHANGED <<audit, write>>

Create(w) ==
  /\ wpc[w] = "statement"
  /\ write[w].op = "create"
  /\ Store(w, [tenant |-> write[w].tenant, status |-> "active",
               secret |-> write[w].secret, rotated |-> FALSE,
               revoked |-> FALSE])

(* Defect: rotation leaves the status as it finds it.                      *)
RotatedKeepingStatus(row, secret) ==
  [row EXCEPT !.secret = secret, !.rotated = TRUE]

(* Rotation reactivates whatever status it finds and leaves revoked_at.    *)
Rotated(row, secret) ==
  [row EXCEPT !.status = "active", !.secret = secret, !.rotated = TRUE]

Rotate(w) ==
  /\ wpc[w] = "statement"
  /\ write[w].op = "rotate"
  /\ \E row \in Found(w) : Store(w, Rotated(row, write[w].secret))

Revoke(w) ==
  /\ wpc[w] = "statement"
  /\ write[w].op = "revoke"
  /\ \E row \in Found(w) :
       Store(w, [row EXCEPT !.status = "revoked", !.revoked = TRUE])

RejectWrite(w) ==
  /\ wpc[w] = "statement"
  /\ write[w].op # "create"
  /\ Found(w) = {}
  /\ wpc' = [wpc EXCEPT ![w] = "rejected"]
  /\ UNCHANGED <<credentials, audit, write, returned>>

(* Defect: every entry says active.                                        *)
AuditedStatusActive(w) == "active"

AuditedStatus(w) == returned[w].status

RecordCredentialAudit(w) ==
  /\ wpc[w] = "audit"
  /\ audit' = audit \union
       {[by |-> w, credential |-> write[w].credential, op |-> write[w].op,
         status |-> AuditedStatus(w)]}
  /\ wpc' = [wpc EXCEPT ![w] = "ok"]
  /\ UNCHANGED <<credentials, write, returned>>

(* A statement raises or the server dies; what was committed stays.        *)
FailWrite(w) ==
  /\ wpc[w] \in {"statement", "audit"}
  /\ wpc' = [wpc EXCEPT ![w] = "error"]
  /\ UNCHANGED <<credentials, audit, write, returned>>

Update(w) == Create(w) \/ Rotate(w) \/ Revoke(w)

Bookkeep(w) ==
  ReceiveWrite(w) \/ RejectWrite(w) \/ RecordCredentialAudit(w) \/ FailWrite(w)

StoreTypeOK ==
  /\ credentials \in [Credentials -> SUBSET CredentialRow]
  /\ audit \subseteq AuditRow
  /\ wpc \in [Writers -> {"idle", "statement", "audit", "ok", "rejected", "error"}]
  /\ write \in [Writers -> Write \union {None}]
  /\ returned \in [Writers -> CredentialRow \union {None}]
=============================================================================
