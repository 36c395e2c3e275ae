------------------------------ MODULE MCStores ------------------------------
(* Two providers: the first lists its model, the second does not.            *)
EXTENDS Stores, TLC

CONSTANTS p1

MCListed == [p \in Providers |-> IF p = p1 THEN Models ELSE {}]
Symmetry == Permutations(Users) \cup Permutations(Sessions)
=============================================================================
