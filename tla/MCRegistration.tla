---------------------------- MODULE MCRegistration ----------------------------
(* Instances of Registration for TLC. *)
EXTENDS Registration, TLC

CONSTANTS p1, p2

Players == Permutations({p1, p2})
=============================================================================
