---------------------------- MODULE MCCheckHealth ----------------------------
(* Instances of CheckHealth for TLC. *)
EXTENDS CheckHealth, TLC

\* Gap ids are interchangeable, and so are sweeps.
Interchangeable == Permutations(GapIds) \cup Permutations(Sweeps)
=============================================================================
