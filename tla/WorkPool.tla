------------------------------ MODULE WorkPool ------------------------------
(***************************************************************************)
(* What a bounded pool of workers promises about the items it works on: an *)
(* item is taken only while nobody holds it and before it is completed, at *)
(* most Limit items are held at a time, and an item is completed by the    *)
(* holder that took it.  A holder may give an item back unfinished (a      *)
(* retry, a failure), and a crash loses the holders, never the items.      *)
(***************************************************************************)
EXTENDS Naturals, FiniteSets

CONSTANTS Items, Limit

VARIABLES
    held,       \* items a worker holds
    completed   \* items whose work was done

Init == held = {} /\ completed = {}

Take(batch) ==
    /\ batch \cap (held \cup completed) = {}
    /\ Cardinality(held \cup batch) <= Limit
    /\ held' = held \cup batch
    /\ UNCHANGED completed

Complete(i) ==
    /\ i \in held \ completed
    /\ completed' = completed \cup {i}
    /\ held' \in {held, held \ {i}}

GiveBack(i) ==
    /\ i \in held
    /\ held' = held \ {i}
    /\ UNCHANGED completed

LoseHolders ==
    /\ held' = {}
    /\ UNCHANGED completed

\* The items themselves are deleted.
Forget(gone) ==
    /\ completed' = completed \ gone
    /\ UNCHANGED held

Next ==
    \/ \E batch \in SUBSET Items : Take(batch) \/ Forget(batch)
    \/ \E i \in Items : Complete(i) \/ GiveBack(i)
    \/ LoseHolders

Spec == Init /\ [][Next]_<<held, completed>>
=============================================================================
