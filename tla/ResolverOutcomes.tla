---------------------------- MODULE ResolverOutcomes ----------------------------
(***************************************************************************)
(* How a call of prepareCommand may end, part by part: the seam between    *)
(* the bridge resolver and the service that calls it.  ResolverContract    *)
(* makes a specification of these tables, which BridgeResolver implements; *)
(* the choices that CommandPreparation leaves open are these tables        *)
(* themselves, so it meets whatever the contract allows.                   *)
(***************************************************************************)

(* RuntimeConnectorBridgeEventStatus                                       *)
OutcomeStatuses == {"accepted", "blocked", "not_supported", "failed"}

(* The statuses with which each part may end the call.                     *)
Endings ==
  [find |-> {"blocked"}, readiness |-> {"blocked"}, references |-> OutcomeStatuses]

(* The parts from which an exception reaches the caller: what the          *)
(* resolution of the references raises is caught.                          *)
Raising == {"find", "readiness"}
=================================================================================
