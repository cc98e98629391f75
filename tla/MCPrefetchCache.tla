-------------------------- MODULE MCPrefetchCache --------------------------
(***************************************************************************)
(* Small instances of PrefetchCache.                                       *)
(***************************************************************************)
EXTENDS PrefetchCache, TLC

Symmetry == Permutations(Turns) \cup Permutations(Futures)
=============================================================================
