---------------------------- MODULE ResolverContract ----------------------------
(***************************************************************************)
(* What ConnectorCommandPreparationService.prepare relies on when it calls *)
(* prepareCommand: one result with one event, whose status is settled by   *)
(* the first part that has something against it, and an exception only     *)
(* before the references are resolved.                                     *)
(***************************************************************************)
EXTENDS ResolverOutcomes

CONSTANT None

VARIABLES
  phase,    \* how far the call has come
  status    \* the status of the event of its result

contractVars == <<phase, status>>

Init == phase = "find" /\ status = None

Proceed(next) == phase' = next /\ UNCHANGED status

End(part) == phase = part /\ phase' = "concluded" /\ status' \in Endings[part]

Find == phase = "find" /\ Proceed("readiness")

Judge == phase = "readiness" /\ Proceed("references")

Raise == phase \in Raising /\ Proceed("threw")

Next == Find \/ Judge \/ Raise \/ \E part \in DOMAIN Endings : End(part)

Spec == Init /\ [][Next]_contractVars
=================================================================================
