-------------------------- MODULE MCSkillInstaller --------------------------
(* Two runs for two agents; one user's text and one or two versions. *)
EXTENDS SkillInstaller, TLC

CONSTANTS i1, i2, v1, v2, e1

Symmetry == Permutations(Run) \cup Permutations(Package)
=============================================================================
