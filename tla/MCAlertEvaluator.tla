-------------------------- MODULE MCAlertEvaluator --------------------------
(* TLC instances of AlertEvaluator. *)
EXTENDS AlertEvaluator, TLC

=============================================================================
