------------------------ MODULE MCExecutionLifecycle ------------------------
(* Values for model-checking ExecutionLifecycle.                           *)
EXTENDS ExecutionLifecycle, TLC

(* Bodies of createEvent: a status event, one that is refused, a           *)
(* transition, an event that leaves the status alone, and an event that    *)
(* carries a status although its type names none.                          *)
MCEventInputs ==
  {[type |-> "failed", next |-> None],
   [type |-> "failed", next |-> "accepted"],
   [type |-> "accepted", next |-> "accepted"],
   [type |-> "status_changed", next |-> "queued"],
   [type |-> "note_added", next |-> None]}

MCTransition == {[type |-> "failed", next |-> None]}

AllSymmetry == Permutations(Calls) \union Permutations(Tenants)
=============================================================================
