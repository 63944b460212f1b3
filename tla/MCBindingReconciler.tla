------------------------ MODULE MCBindingReconciler ------------------------
(* TLC instances of BindingReconciler. *)
EXTENDS BindingReconciler, TLC

\* Every key refers to every requirement.
AllReferences == Keys \X Requirements

=============================================================================
