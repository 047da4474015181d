---------------------------- MODULE MCLogicEngine ----------------------------
(* Instances of LogicEngine for TLC: one group. *)
EXTENDS LogicEngine

CONSTANTS g1, l1, l2

\* The contents the logic gives a location, and a row of an earlier run.
Contents == 0..MaxContent
=============================================================================
