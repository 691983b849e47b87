----------------------------- MODULE MCInstaller -----------------------------
(* Wrappers and one card while install.sh runs. *)
EXTENDS Installer, TLC

CONSTANTS w1, w2, r1, r2, g0

OneCard == <<g0>>
OneOwner == [w \in Wrappers |-> 1]
AnyCard == {[cards |-> None, count |-> 1]}
Symmetry == Permutations(Wrappers) \cup Permutations(RequestId)
=============================================================================
