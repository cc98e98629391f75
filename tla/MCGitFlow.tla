----------------------------- MODULE MCGitFlow -----------------------------
(* Instances of GitFlow.  The user's changes are alike. *)
EXTENDS GitFlow, TLC

CONSTANTS e1, e2, p1, p2

Symmetry == Permutations(Edits)
=============================================================================
