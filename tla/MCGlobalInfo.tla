---------------------------- MODULE MCGlobalInfo ----------------------------
(* Instances of GlobalInfo for TLC: two stays of one player, and a friend. *)
EXTENDS GlobalInfo

CONSTANTS anna, bob, bobs, s1, r1, r2

OfFriend == [i \in Instance |-> bob]
OfPlayer == [r \in RID |-> anna]
=============================================================================
