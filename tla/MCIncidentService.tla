------------------------- MODULE MCIncidentService -------------------------
(* Instances of IncidentService.  Ids are alike. *)
EXTENDS IncidentService, TLC

CONSTANTS t1, t2, c1, c2, s1, s2, s3, d1, d2, d3

Symmetry == Permutations(Callers) \cup Permutations(Stores)
              \cup Permutations(Scheds) \cup Permutations(Configs)
=============================================================================
