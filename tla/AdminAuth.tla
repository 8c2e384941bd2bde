------------------------------ MODULE AdminAuth ------------------------------
(***************************************************************************)
(* The two guards every controller stands behind, and the headers they     *)
(* read.  A header value is abstracted to what the guards tell apart; an   *)
(* empty or blank header counts as absent.  The guards run before the      *)
(* body is validated.                                                      *)
(***************************************************************************)

AdminRoles == {"owner", "admin", "operator", "viewer"}

Headers == [
  key : {"right", "wrong", "absent"},
  tenant : {"id", "text", "absent"},  \* id: a UUID or 24 hexadecimal digits
  actor : {"text", "objectid", "unsafe", "absent"},
  role : AdminRoles \union {"unknown", "absent"}]

(* matchesAdminKey: the digests are compared, so only the right key passes. *)
MatchesAdminKey(caller) == caller.key = "right"

(* extract: a header may be absent but not malformed.                      *)
ContextExtracted(caller) ==
  /\ caller.tenant # "text"
  /\ caller.actor # "unsafe"
  /\ caller.role # "unknown"

(* AdminRolesGuard: a handler without roles admits every caller.           *)
RolePermitted(caller, roles) == roles = {} \/ caller.role \in roles

(* The answer to a caller at the guards of a handler with these roles;     *)
(* "admitted" when the handler is reached.                                 *)
Admission(caller, roles) ==
  IF ~MatchesAdminKey(caller) THEN "unauthorized"
  ELSE IF ~ContextExtracted(caller) THEN "bad_request"
  ELSE IF ~RolePermitted(caller, roles) THEN "forbidden"
  ELSE "admitted"

(* toAuditActorUserId passes only 24 hexadecimal digits on, which the uuid *)
(* column of the audit log refuses.                                        *)
ActorSpoilsAudit(caller) == caller.actor = "objectid"
===============================================================================
