------------------------------ MODULE MCWrapper ------------------------------
(* Small instances of Wrapper for TLC: one card, clients that compete for it. *)
EXTENDS Wrapper, TLC

CONSTANTS w1, w2, r1, r2, g0

OneCard == <<g0>>
OneOwner == [w \in Wrappers |-> 1]
AnyCard == {[cards |-> None, count |-> 1]}
\* One card, or more than there are.
OneOrTooMany == {[cards |-> None, count |-> 1], [cards |-> None, count |-> 2]}
Symmetry == Permutations(Wrappers) \cup Permutations(RequestId)
RequestSymmetry == Permutations(RequestId)
=============================================================================
