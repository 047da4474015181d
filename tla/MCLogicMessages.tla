---------------------------- MODULE MCLogicMessages ----------------------------
(* Instances of LogicMessages for TLC. *)
EXTENDS LogicMessages

CONSTANTS a, b, m1, m2, m3, l1, l2

ThreeMessages == <<m1, m2, m3>>
TwoLocations == [m \in {m1, m2, m3} |-> IF m = m2 THEN l2 ELSE l1]
=============================================================================
