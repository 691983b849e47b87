--------------------------- MODULE MCLeaseManager ---------------------------
(* Small instances of LeaseManager for TLC. *)
EXTENDS LeaseManagerPool, TLC

CONSTANTS g0, g1, g2, r1, r2, r3

TwoCards == <<g0, g1>>

Exactly(S) == [cards |-> S, count |-> None]
AnyOf(n) == [cards |-> None, count |-> n]

\* With two cards: one named card, any card, both (any two are the same two), and
\* what validation must refuse: too many cards, and a list next to a count.
MixedDemands ==
    {Exactly({g0}), Exactly({g0, g1}), AnyOf(1), AnyOf(3),
     [cards |-> {g0}, count |-> 1]}

\* One card, or both, or one the daemon does not have.
CountDemands == {AnyOf(1), AnyOf(2), Exactly({g2})}

RequestSymmetry == Permutations(RequestId)
=============================================================================
