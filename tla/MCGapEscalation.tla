--------------------------- MODULE MCGapEscalation ---------------------------
(* Instances of GapEscalation for TLC. *)
EXTENDS GapEscalation, TLC

CONSTANTS g1, g2, g3, t1, t2, p1

\* Two tenants of one provider; the first has two gaps.
MCTenantOf == (g1 :> t1) @@ (g2 :> t2) @@ (g3 :> t1)
MCProviderOf == [g \in {g1, g2, g3} |-> p1]
=============================================================================
