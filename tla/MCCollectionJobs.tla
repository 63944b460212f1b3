-------------------------- MODULE MCCollectionJobs --------------------------
(* Instances of CollectionJobs for TLC. *)
EXTENDS CollectionJobs, TLC

\* Executions, ticks and requests are interchangeable; so are job ids.
Interchangeable ==
    Permutations(Executions) \cup Permutations(JobIds) \cup
    Permutations(Requests)
=============================================================================
