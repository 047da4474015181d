----------------------------- MODULE MCLocationDB -----------------------------
(* Instances of LocationDB for TLC. *)
EXTENDS LocationDB, TLC

CONSTANTS g1, g2, l1, l2, w1, w2

\* Every location belongs to g1; g2 only creates locations.
OwnerG1 == [l \in Location |-> g1]

Workers == Permutations(Worker)
=============================================================================
