----------------------------- MODULE MCImportJob -----------------------------
(* Instances of ImportJob for TLC. *)
EXTENDS ImportJob, TLC
=============================================================================
