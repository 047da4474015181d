--------------------------- MODULE MCLocationLease ---------------------------
(* Instances of LocationLease for TLC. *)
EXTENDS LocationLease, TLC

CONSTANTS g1, g2, b1, b2, l1

Balancers == Permutations({b1, b2})
=============================================================================
