----------------------- MODULE MCCommandPreparation -------------------------
(* Values for model-checking CommandPreparation.                           *)
EXTENDS CommandPreparation, TLC

CONSTANTS c1, c2, c3, c4, c5, c6, p1, p2

OutcomeOfOne == p1 :> c3
DispatchOfOne == p1 :> c4
OutcomeOfTwo == p1 :> c3 @@ p2 :> c5
DispatchOfTwo == p1 :> c4 @@ p2 :> c6

(* A client that reports a failure through POST /:id/events.               *)
FailureInput == {[type |-> "failed", next |-> None]}

=============================================================================
