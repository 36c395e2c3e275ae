------------------------------- MODULE Ordered -------------------------------
(***************************************************************************)
(* Sets in an order, and the selected elements of a sequence: what         *)
(* SetToSortSeq and SelectSeq return, but written out by the rank of each  *)
(* element, so that proofs can use it.                                     *)
(***************************************************************************)
EXTENDS Naturals, Sequences, FiniteSets

\* The elements of S, which Before orders.
InOrder(S, Before(_, _)) ==
  [k \in 1 .. Cardinality(S) |-> CHOOSE x \in S : Cardinality({y \in S : Before(y, x)}) = k - 1]

\* The elements of s at the given places, as they stand in s.
Kept(s, places) ==
  LET kept == InOrder(places, <)
  IN  [k \in DOMAIN kept |-> s[kept[k]]]
=============================================================================
