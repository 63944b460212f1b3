-------------------------- MODULE MCDirectorySync --------------------------
(* TLC instances of DirectorySync. *)
EXTENDS DirectorySync, TLC

CONSTANTS p1, a1, a2

\* One person with one account, or with two.
OneAccount == a1 :> p1
TwoAccounts == (a1 :> p1) @@ (a2 :> p1)

=============================================================================
