----------------------------- MODULE MCJiraSync -----------------------------
(***************************************************************************)
(* Small instances of JiraSync: the values of its constants, and nothing   *)
(* else.                                                                   *)
(***************************************************************************)
EXTENDS JiraSync, TLC

CONSTANTS k1, k2, k3, broad, narrow

TwoKeys == {k1, k2}
ThreeKeys == {k1, k2, k3}
OneQuery == {broad}
TwoQueries == {broad, narrow}

\* The configured query is broadened (or narrowed back) by an edit.
MatchTwo == broad :> TwoKeys @@ narrow :> {k1}
MatchThree == broad :> ThreeKeys

\* Revisions 1 and 2 share a stamp, and stamps 2 and 3 share a minute.
Stamp == [r \in 0..MaxRev |-> IF r < 2 THEN r ELSE r - 1]
Minute == [s \in 0..MaxStamp |-> IF s % 2 = 1 /\ s > 1 THEN s - 1 ELSE s]

Symmetry == Permutations(ThreeKeys)
=============================================================================
