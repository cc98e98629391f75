--------------------------- MODULE GitFlowProofs ---------------------------
(***************************************************************************)
(* What is proved of GitFlow for every value of its constants: of a heal   *)
(* whose user lets a flow finish (UserKeepsOff), the types, that patches   *)
(* keep to themselves, that no work of the user's is lost, and the order a *)
(* flow leaves the checkout in.                                            *)
(***************************************************************************)
EXTENDS GitFlow, TLAPS

-----------------------------------------------------------------------------
(* The types, in two parts.                                                *)

Tree == [past : SUBSET Nat, tree : SUBSET Changes]

RepoOK ==
    /\ commit \in Seq(Tree)
    /\ \A i \in Ids : commit[i].past \subseteq 1..(i - 1)
    /\ branch \in [Branches -> {0} \cup Ids]
    /\ head \in Branches /\ branch[head] # 0
    /\ unstaged \subseteq Changes /\ staged \subseteq Changes
    /\ remote \in {0} \cup Ids
    /\ \A pr \in prs : pr \in [commit : Ids, base : Ids, patch : Patches,
                             burnt : SUBSET Changes]
    /\ made \subseteq Edits

HealRec == [pc : Phases, patch : Patches, planned : SUBSET Changes,
            burnt : SUBSET Changes, sha : Ids, ref : Branches, left : 0..MaxHeals,
            restored : BOOLEAN]

\* The type invariant is the repository's and the heal's.
LEMMA TypeParts == TypeOK <=> RepoOK /\ heal \in HealRec
  BY DEF TypeOK, RepoOK, HealRec, Tree

\* The same of the state after a step.
LEMMA TypePartsNext == RepoOK' /\ (heal \in HealRec)' => TypeOK'
  BY DEF TypeOK, RepoOK, HealRec, Tree

Inv == TypeOK /\ GitInv

-----------------------------------------------------------------------------
(* Commits.                                                                *)

\* A commit on top of another is a commit, whose past is commits made before it.
LEMMA ChildType ==
    ASSUME RepoOK, NEW i \in Ids, NEW changes \in SUBSET Changes
    PROVE  /\ Child(i, changes) \in Tree
           /\ Child(i, changes).past \subseteq Ids
           /\ Child(i, changes).tree = commit[i].tree \cup changes
<1>1. commit[i] \in Tree /\ commit[i].past \subseteq 1..(i - 1) /\ Len(commit) \in Nat
  BY DEF RepoOK, Ids
<1>2. commit[i].past \subseteq Ids /\ i \in Nat
  BY <1>1 DEF Ids
<1> QED
  BY <1>1, <1>2 DEF Child, Tree, Ids

\* A commit is added at the end, and those there are stay what they are.
LEMMA Committed ==
    ASSUME RepoOK, NEW i \in Ids, NEW changes \in SUBSET Changes,
           commit' = Append(commit, Child(i, changes))
    PROVE  /\ commit' \in Seq(Tree)
           /\ Ids' = 1..(Len(commit) + 1) /\ Ids \subseteq Ids'
           /\ Len(commit) + 1 \in Ids' /\ Len(commit) + 1 # 0
           /\ \A j \in Ids : commit'[j] = commit[j]
           /\ commit'[Len(commit) + 1] = Child(i, changes)
           /\ \A j \in Ids' : commit'[j].past \subseteq 1..(j - 1)
<1>1. commit \in Seq(Tree) /\ Len(commit) \in Nat
  BY DEF RepoOK
<1>2. Child(i, changes) \in Tree /\ Child(i, changes).past \subseteq 1..Len(commit)
  BY ChildType DEF Ids
<1> DEFINE new == Child(i, changes)
<1> HIDE DEF new
<1>3. /\ Append(commit, new) \in Seq(Tree)
      /\ Len(Append(commit, new)) = Len(commit) + 1
      /\ \A j \in 1..Len(commit) : Append(commit, new)[j] = commit[j]
      /\ Append(commit, new)[Len(commit) + 1] = new
  BY <1>1, <1>2 DEF new
<1>4. commit' = Append(commit, new)
  BY DEF new
<1>5. \A j \in Ids : commit[j].past \subseteq 1..(j - 1)
  BY DEF RepoOK
<1>6. /\ Ids' = 1..(Len(commit) + 1) /\ Ids \subseteq Ids'
      /\ Len(commit) + 1 \in Ids' /\ Len(commit) + 1 # 0
  BY <1>1, <1>3, <1>4 DEF Ids
<1>7. \A j \in Ids : commit'[j] = commit[j]
  BY <1>3, <1>4 DEF Ids
<1>8. commit'[Len(commit) + 1] = new
  BY <1>3, <1>4
<1>9. ASSUME NEW j \in Ids' PROVE commit'[j].past \subseteq 1..(j - 1)
  <2>1. CASE j \in Ids
    BY <2>1, <1>5, <1>7
  <2>2. CASE j = Len(commit) + 1
    <3>1. j - 1 = Len(commit)
      BY <2>2, <1>1
    <3> QED
      BY <2>2, <3>1, <1>8, <1>2 DEF new
  <2> QED
    BY <2>1, <2>2, <1>1, <1>6 DEF Ids
<1> QED
  BY <1>3, <1>4, <1>6, <1>7, <1>8, <1>9 DEF new

\* Pull requests go on being their patch on top of their base when commits are added.
LEMMA PrsStay ==
    ASSUME RepoOK, PrsExtendHead, prs' = prs, \A j \in Ids : commit'[j] = commit[j]
    PROVE  PrsExtendHead'
<1> SUFFICES ASSUME NEW pr \in prs
             PROVE  commit'[pr.commit] = [past |-> commit'[pr.base].past \cup {pr.base},
                                          tree |-> commit'[pr.base].tree \cup {pr.patch}]
  BY DEF PrsExtendHead, Child
<1>1. pr.commit \in Ids /\ pr.base \in Ids
  BY DEF RepoOK
<1>2. commit[pr.commit] = Child(pr.base, {pr.patch})
  BY DEF PrsExtendHead
<1> QED
  BY <1>1, <1>2 DEF Child

-----------------------------------------------------------------------------
(* The heal.                                                               *)

\* Where a heal goes is all that changes of it.
LEMMA GotoFields ==
    ASSUME heal \in HealRec, NEW pc \in Phases, Goto(pc)
    PROVE  /\ heal' \in HealRec
           /\ heal'.pc = pc /\ heal'.patch = heal.patch /\ heal'.burnt = heal.burnt
           /\ heal'.sha = heal.sha /\ heal'.ref = heal.ref /\ heal'.left = heal.left
           /\ heal'.restored = heal.restored
  BY DEF Goto, HealRec

\* A heal that ends forgets everything but the heals that are left.
LEMMA StopFields ==
    ASSUME RepoOK, heal \in HealRec, Stop
    PROVE  heal' \in HealRec /\ heal'.pc = "idle" /\ heal'.restored = FALSE
<1>1. (CHOOSE p \in Patches : TRUE) \in Patches
  BY GitAssumption
<1>2. 1 \in Ids
  <2>1. heal.sha \in Ids /\ Len(commit) \in Nat
    BY DEF HealRec, RepoOK
  <2> QED
    BY <2>1 DEF Ids
<1>3. "main" \in Branches /\ "idle" \in Phases
  BY DEF Branches, Phases
<1>4. MaxHeals \in 0..MaxHeals
  BY GitAssumption
<1> DEFINE patch == CHOOSE p \in Patches : TRUE
<1>5. patch \in Patches
  BY <1>1
<1> HIDE DEF patch
<1>6. NoHeal = [pc |-> "idle", patch |-> patch, planned |-> {}, burnt |-> {}, sha |-> 1,
                ref |-> "main", left |-> MaxHeals, restored |-> FALSE]
  BY DEF NoHeal, patch
<1>7. NoHeal \in HealRec
  BY <1>2, <1>3, <1>4, <1>5, <1>6 DEF HealRec
<1> QED
  BY <1>6, <1>7 DEF Stop, HealRec

\* A step of the heal alone disturbs neither the repository nor its pull requests.
LEMMA HealAlone ==
    ASSUME Inv, UNCHANGED <<repo, made>>, heal' \in HealRec
    PROVE  TypeOK' /\ MainInv' /\ PrsExtendHead'
<1>1. /\ commit' = commit /\ branch' = branch /\ head' = head /\ unstaged' = unstaged
      /\ staged' = staged /\ remote' = remote /\ prs' = prs /\ made' = made
  BY DEF repo
<1>2. RepoOK' /\ Ids' = Ids
  <2>1. RepoOK
    BY TypeParts DEF Inv
  <2> QED
    BY <1>1, <2>1 DEF RepoOK, Ids
<1>3. (heal \in HealRec)'
  BY <1>2 DEF HealRec
<1>4. MainInv'
  BY <1>1 DEF MainInv, Inv, GitInv
<1>5. PrsExtendHead'
  BY <1>1 DEF PrsExtendHead, Child, Inv, GitInv
<1> QED
  BY <1>2, <1>3, <1>4, <1>5, TypePartsNext

\* Before its preflight a flow has nothing to keep.
LEMMA Resting ==
    ASSUME heal'.pc \in Preflight, ~heal'.restored, heal'.pc = "burnin" => heal'.left > 0
    PROVE  TreeInv' /\ StartInv' /\ FixInv'
  BY DEF Preflight, Failing, Cutting, TreeInv, StartInv, FixInv

\* A heal that ends keeps the invariant, wherever it was.
LEMMA StopStep ==
    ASSUME Inv, Stop, UNCHANGED <<repo, made>>
    PROVE  Inv'
<1>1. RepoOK /\ heal \in HealRec
  BY TypeParts DEF Inv
<1>2. heal' \in HealRec /\ heal'.pc = "idle" /\ heal'.restored = FALSE
  BY <1>1, StopFields
<1>3. TypeOK' /\ MainInv' /\ PrsExtendHead'
  BY <1>2, HealAlone
<1>4. TreeInv' /\ StartInv' /\ FixInv'
  BY <1>2, Resting DEF Preflight
<1> QED
  BY <1>3, <1>4 DEF Inv, GitInv

-----------------------------------------------------------------------------
(* The user.                                                               *)

\* A user who keeps off works before the preflight alone, when there is nothing of a
\* flow's to disturb.
LEMMA UserRests ==
    ASSUME Inv, UserKeepsOff, Phase \in UserPhases
    PROVE  heal.pc \in Preflight /\ ~heal.restored /\ (heal.pc = "burnin" => heal.left > 0)
<1>1. Phase # "flow"
  BY DEF UserKeepsOff
<1>2. heal.pc \in Preflight
  BY <1>1 DEF Phase, Preflight
<1> QED
  BY <1>2 DEF Inv, GitInv, StartInv, Preflight

\* An edit is the user's, and in the work tree.
LEMMA EditStep ==
    ASSUME Inv, UserKeepsOff, NEW c \in Edits, Edit(c)
    PROVE  Inv'
<1>1. /\ made' = made \cup {c} /\ unstaged' = unstaged \cup {c}
      /\ commit' = commit /\ branch' = branch /\ head' = head /\ staged' = staged
      /\ remote' = remote /\ prs' = prs /\ heal' = heal
  BY DEF Edit
<1>2. TreeInv' /\ StartInv' /\ FixInv'
  BY <1>1, UserRests, Resting DEF Edit
<1>3. TypeOK'
  BY <1>1 DEF TypeOK, Inv, Ids, Changes
<1>4. MainInv'
  BY <1>1 DEF MainInv, Inv, GitInv
<1>5. PrsExtendHead'
  BY <1>1 DEF PrsExtendHead, Child, Inv, GitInv
<1> QED
  BY <1>2, <1>3, <1>4, <1>5 DEF Inv, GitInv

\* The user's commit adds to main what was unstaged, and no patch.
LEMMA CommitStep ==
    ASSUME Inv, UserKeepsOff, Commit
    PROVE  Inv'
<1>1. RepoOK /\ heal \in HealRec /\ MainInv
  BY TypeParts DEF Inv, GitInv
<1>2. /\ head = "main"
      /\ commit' = Append(commit, Child(branch["main"], unstaged))
      /\ branch' = [branch EXCEPT !["main"] = Len(commit) + 1]
      /\ unstaged' = {} /\ head' = head /\ staged' = staged
      /\ remote' = remote /\ prs' = prs /\ made' = made /\ heal' = heal
  BY DEF Commit, UserKeepsOff
<1>3. branch["main"] \in Ids /\ unstaged \in SUBSET Changes
  BY <1>1 DEF RepoOK, MainInv, Branches
<1>4. /\ commit' \in Seq(Tree)
      /\ Ids' = 1..(Len(commit) + 1) /\ Ids \subseteq Ids'
      /\ Len(commit) + 1 \in Ids' /\ Len(commit) + 1 # 0
      /\ \A j \in Ids : commit'[j] = commit[j]
      /\ commit'[Len(commit) + 1] = Child(branch["main"], unstaged)
      /\ \A j \in Ids' : commit'[j].past \subseteq 1..(j - 1)
  BY <1>1, <1>2, <1>3, Committed
<1>5. branch' \in [Branches -> {0} \cup Ids'] /\ branch'["main"] = Len(commit) + 1
  BY <1>1, <1>2, <1>4 DEF RepoOK, Branches
<1>6. RepoOK'
  <2>1. head' \in Branches /\ branch'[head'] # 0
    BY <1>1, <1>2, <1>4, <1>5 DEF RepoOK
  <2>2. unstaged' \subseteq Changes /\ staged' \subseteq Changes /\ made' \subseteq Edits
    BY <1>1, <1>2 DEF RepoOK
  <2>3. remote' \in {0} \cup Ids'
    BY <1>1, <1>2, <1>4 DEF RepoOK
  <2>4. \A pr \in prs' : pr \in [commit : Ids', base : Ids', patch : Patches,
                                 burnt : SUBSET Changes]
    BY <1>1, <1>2, <1>4 DEF RepoOK
  <2> QED
    BY <1>4, <1>5, <2>1, <2>2, <2>3, <2>4 DEF RepoOK
<1>7. (heal \in HealRec)'
  BY <1>1, <1>2, <1>4 DEF HealRec
<1>8. TypeOK'
  BY <1>6, <1>7, TypePartsNext
<1>9. MainInv'
  <2>1. commit'[branch'["main"]].tree = commit[branch["main"]].tree \cup unstaged
    BY <1>1, <1>3, <1>4, <1>5, ChildType
  <2>2. branch'["main"] # 0
    BY <1>4, <1>5
  <2> QED
    BY <1>1, <1>2, <2>1, <2>2, GitAssumption DEF MainInv
<1>10. PrsExtendHead'
  BY <1>1, <1>2, <1>4, PrsStay DEF Inv, GitInv
<1>11. TreeInv' /\ StartInv' /\ FixInv'
  BY <1>2, UserRests, Resting DEF Commit
<1> QED
  BY <1>8, <1>9, <1>10, <1>11 DEF Inv, GitInv

\* A checkout of another branch carries the work tree over.
LEMMA SwitchStep ==
    ASSUME Inv, UserKeepsOff, NEW b \in Branches, Switch(b)
    PROVE  Inv'
<1>1. /\ head' = b /\ branch[b] # 0
      /\ commit' = commit /\ branch' = branch /\ unstaged' = unstaged /\ staged' = staged
      /\ remote' = remote /\ prs' = prs /\ made' = made /\ heal' = heal
  BY DEF Switch
<1>2. TreeInv' /\ StartInv' /\ FixInv'
  BY <1>1, UserRests, Resting DEF Switch
<1>3. TypeOK'
  BY <1>1 DEF TypeOK, Inv, Ids
<1>4. MainInv'
  BY <1>1 DEF MainInv, Inv, GitInv
<1>5. PrsExtendHead'
  BY <1>1 DEF PrsExtendHead, Child, Inv, GitInv
<1> QED
  BY <1>2, <1>3, <1>4, <1>5 DEF Inv, GitInv

-----------------------------------------------------------------------------
(* The burn-in and the preflight.                                          *)

\* A planned heal has everything before it.
LEMMA PlanStep ==
    ASSUME Inv, NEW p \in Patches, Plan(p)
    PROVE  Inv'
<1>1. RepoOK /\ heal \in HealRec
  BY TypeParts DEF Inv
<1>2. WorkTree \subseteq Changes
  <2>1. branch[head] \in Ids /\ commit \in Seq(Tree) /\ Ids = 1..Len(commit)
    BY <1>1 DEF RepoOK, Ids
  <2>2. commit[branch[head]] \in Tree
    BY <2>1
  <2> QED
    BY <1>1, <2>2 DEF WorkTree, HeadTree, Tree, RepoOK
<1>3. [NoHeal EXCEPT !.left = heal.left] \in HealRec
  <2> DEFINE stopped == [NoHeal EXCEPT !.left = heal.left]
  <2>1. /\ (CHOOSE q \in Patches : TRUE) \in Patches /\ 1 \in Ids
    <3>1. heal.sha \in Ids /\ Len(commit) \in Nat
      BY <1>1 DEF HealRec, RepoOK
    <3> QED
      BY <3>1, GitAssumption DEF Ids
  <2>2. "main" \in Branches /\ "idle" \in Phases
    BY DEF Branches, Phases
  <2>3. heal.left \in 0..MaxHeals
    BY <1>1 DEF HealRec
  <2> QED
    BY <2>1, <2>2, <2>3 DEF NoHeal, HealRec
<1>4. heal' = [[NoHeal EXCEPT !.left = heal.left] EXCEPT !.pc = "burnin", !.patch = p,
                                                         !.planned = WorkTree]
  BY DEF Plan, NoHeal
<1>5. heal' \in HealRec /\ heal'.pc = "burnin" /\ heal'.left = heal.left /\ heal'.restored = FALSE
  <2> DEFINE stopped == [NoHeal EXCEPT !.left = heal.left]
  <2>1. stopped.restored = FALSE /\ stopped.left = heal.left
    BY DEF NoHeal
  <2>2. "burnin" \in Phases
    BY DEF Phases
  <2>3. stopped \in HealRec
    BY <1>3
  <2>4. heal' = [stopped EXCEPT !.pc = "burnin", !.patch = p, !.planned = WorkTree]
    BY <1>4
  <2> HIDE DEF stopped
  <2> QED
    BY <1>2, <2>1, <2>2, <2>3, <2>4 DEF HealRec
<1>6. UNCHANGED <<repo, made>> /\ heal.left > 0
  BY DEF Plan
<1>7. TypeOK' /\ MainInv' /\ PrsExtendHead'
  BY <1>5, <1>6, HealAlone
<1>8. TreeInv' /\ StartInv' /\ FixInv'
  BY <1>5, <1>6, Resting DEF Preflight
<1> QED
  BY <1>7, <1>8 DEF Inv, GitInv

\* So has one whose burn-in was green.
LEMMA BurnInStep ==
    ASSUME Inv, BurnIn
    PROVE  Inv'
<1>1. RepoOK /\ heal \in HealRec /\ StartInv
  BY TypeParts DEF Inv, GitInv
<1>2. CASE Stop
  BY <1>2, StopStep DEF BurnIn
<1>3. CASE heal' = [heal EXCEPT !.pc = "status", !.burnt = WorkTree, !.left = @ - 1]
  <2>1. WorkTree \subseteq Changes
    <3>1. branch[head] \in Ids /\ commit \in Seq(Tree) /\ Ids = 1..Len(commit)
      BY <1>1 DEF RepoOK, Ids
    <3>2. commit[branch[head]] \in Tree
      BY <3>1
    <3> QED
      BY <1>1, <3>2 DEF WorkTree, HeadTree, Tree, RepoOK
  <2>2. heal.left - 1 \in 0..MaxHeals
    BY <1>1, GitAssumption DEF HealRec, StartInv, BurnIn
  <2>3. "status" \in Phases
    BY DEF Phases
  <2>4. heal' \in HealRec /\ heal'.pc = "status" /\ heal'.restored = heal.restored
    BY <1>1, <1>3, <2>1, <2>2, <2>3 DEF HealRec
  <2>5. ~heal.restored
    BY <1>1 DEF StartInv, BurnIn
  <2>6. TypeOK' /\ MainInv' /\ PrsExtendHead'
    BY <2>4, HealAlone DEF BurnIn
  <2>7. TreeInv' /\ StartInv' /\ FixInv'
    BY <2>4, <2>5, Resting DEF Preflight
  <2> QED
    BY <2>6, <2>7 DEF Inv, GitInv
<1> QED
  BY <1>2, <1>3 DEF BurnIn

\* A flow that has found the tree clean, then where it starts, knows both.
LEMMA PreflightStep ==
    ASSUME Inv, Status \/ ReadSha \/ ReadRef
    PROVE  Inv'
<1>1. RepoOK /\ heal \in HealRec /\ MainInv /\ TreeInv /\ StartInv
  BY TypeParts DEF Inv, GitInv
<1>2. CASE Stop
  BY <1>2, StopStep DEF Status, ReadSha, ReadRef
<1>3. UNCHANGED <<repo, made>>
  BY DEF Status, ReadSha, ReadRef
<1>4. /\ commit' = commit /\ branch' = branch /\ head' = head /\ unstaged' = unstaged
      /\ staged' = staged
  BY <1>3 DEF repo
<1>5. branch[head] \in Ids /\ head \in Branches /\ branch[head] # 0
  BY <1>1 DEF RepoOK
<1>6. {"sha", "ref", "checkout"} \subseteq Phases
  BY DEF Phases
<1>7. CASE Status /\ Clean /\ Goto("sha")
  <2>1. heal' \in HealRec /\ heal'.pc = "sha" /\ heal'.restored = heal.restored
    BY <1>1, <1>6, <1>7, GotoFields
  <2>2. TypeOK' /\ MainInv' /\ PrsExtendHead'
    BY <2>1, <1>3, HealAlone
  <2>3. TreeInv' /\ StartInv' /\ FixInv'
    BY <1>1, <1>4, <1>7, <2>1 DEF Status, Clean, TreeInv, StartInv, FixInv, Cutting, Failing
  <2> QED
    BY <2>2, <2>3 DEF Inv, GitInv
<1>8. CASE ReadSha /\ heal' = [heal EXCEPT !.pc = "ref", !.sha = branch[head]]
  <2>1. /\ heal' \in HealRec /\ heal'.pc = "ref" /\ heal'.sha = branch[head]
        /\ heal'.restored = heal.restored
    BY <1>1, <1>5, <1>6, <1>8 DEF HealRec
  <2>2. TypeOK' /\ MainInv' /\ PrsExtendHead'
    BY <2>1, <1>3, HealAlone
  <2>3. TreeInv' /\ StartInv' /\ FixInv'
    BY <1>1, <1>4, <1>8, <2>1 DEF ReadSha, Preflight, TreeInv, StartInv, FixInv, Cutting,
                                   Failing
  <2> QED
    BY <2>2, <2>3 DEF Inv, GitInv
<1>9. CASE ReadRef /\ heal' = [heal EXCEPT !.pc = "checkout", !.ref = head]
  <2>1. /\ heal' \in HealRec /\ heal'.pc = "checkout" /\ heal'.ref = head
        /\ heal'.sha = heal.sha /\ heal'.restored = heal.restored
    BY <1>1, <1>5, <1>6, <1>9 DEF HealRec
  <2>2. TypeOK' /\ MainInv' /\ PrsExtendHead'
    BY <2>1, <1>3, HealAlone
  <2>3. TreeInv' /\ StartInv' /\ FixInv'
    BY <1>1, <1>4, <1>5, <1>9, <2>1 DEF ReadRef, Preflight, TreeInv, StartInv, FixInv, Cutting,
                                          Failing
  <2> QED
    BY <2>2, <2>3 DEF Inv, GitInv
<1> QED
  BY <1>2, <1>7, <1>8, <1>9 DEF Status, ReadSha, ReadRef
-----------------------------------------------------------------------------
(* The dispatches.                                                         *)

Dispatches == {"checkout", "apply", "commit", "push", "pr"}

\* A dispatch that did nothing hands over to the cleanup.
LEMMA RefusedStep ==
    ASSUME Inv, heal.pc \in Dispatches, Goto("restore"), UNCHANGED <<repo, made>>
    PROVE  Inv'
<1>1. RepoOK /\ heal \in HealRec /\ TreeInv /\ StartInv /\ FixInv
  BY TypeParts DEF Inv, GitInv
<1>2. /\ branch' = branch /\ head' = head /\ unstaged' = unstaged /\ staged' = staged
  BY DEF repo
<1>3. /\ heal' \in HealRec /\ heal'.pc = "restore" /\ heal'.sha = heal.sha
      /\ heal'.patch = heal.patch /\ heal'.ref = heal.ref /\ heal'.restored = heal.restored
  BY <1>1, GotoFields DEF Phases
<1>4. TypeOK' /\ MainInv' /\ PrsExtendHead'
  BY <1>3, HealAlone
<1>5. TreeInv'
  BY <1>1, <1>2, <1>3 DEF Dispatches, Preflight, Failing, TreeInv
<1>6. FixInv'
  BY <1>1, <1>2, <1>3 DEF Dispatches, Failing, StartInv, FixInv
<1>7. StartInv'
  BY <1>1, <1>2, <1>3 DEF Dispatches, Cutting, StartInv
<1> QED
  BY <1>4, <1>5, <1>6, <1>7 DEF Inv, GitInv

\* The fix branch is cut from the HEAD the preflight read.
LEMMA CutStep ==
    ASSUME Inv, UserKeepsOff, Cut
    PROVE  Inv'
<1>1. RepoOK /\ heal \in HealRec /\ MainInv /\ TreeInv /\ StartInv
  BY TypeParts DEF Inv, GitInv
<1>2. heal.pc = "checkout" /\ made' = made
  BY DEF Cut, Dispatch
<1>3. CASE Goto("restore") /\ UNCHANGED repo
  BY <1>2, <1>3, RefusedStep DEF Dispatches
<1>4. ASSUME CutFromHead, NEW pc \in {"apply", "restore"}, Goto(pc) PROVE Inv'
  <2>1. /\ branch' = [branch EXCEPT !["fix"] = branch[head]] /\ head' = "fix"
        /\ commit' = commit /\ unstaged' = unstaged /\ staged' = staged
        /\ remote' = remote /\ prs' = prs
    BY <1>4 DEF CutFromHead
  <2>2. /\ heal' \in HealRec /\ heal'.pc = pc /\ heal'.sha = heal.sha
        /\ heal'.patch = heal.patch /\ heal'.ref = heal.ref /\ heal'.restored = heal.restored
    BY <1>1, <1>4, GotoFields DEF Phases
  <2>3. Ids' = Ids /\ branch[head] \in Ids /\ branch[head] # 0
    BY <1>1, <2>1 DEF RepoOK, Ids
  <2>4. branch' \in [Branches -> {0} \cup Ids] /\ branch'["main"] = branch["main"]
        /\ branch'["fix"] = branch[head]
    BY <1>1, <2>1, <2>3 DEF RepoOK, Branches
  <2>5. RepoOK'
    <3>1. head' \in Branches /\ branch'[head'] # 0
      BY <2>1, <2>3, <2>4 DEF Branches
    <3> QED
      BY <1>1, <1>2, <2>1, <2>3, <2>4, <3>1 DEF RepoOK
  <2>6. (heal \in HealRec)'
    BY <2>2, <2>3 DEF HealRec
  <2>7. MainInv'
    BY <1>1, <1>2, <2>1, <2>4 DEF MainInv
  <2>8. PrsExtendHead'
    BY <2>1 DEF PrsExtendHead, Child, Inv, GitInv
  <2>9. TreeInv'
    BY <1>1, <1>2, <2>1, <2>2 DEF TreeInv, Preflight, Failing
  <2>10. heal.sha = branch[head] /\ heal.ref = head /\ ~heal.restored
    BY <1>1, <1>2 DEF StartInv
  <2>11. branch'[heal.ref] # 0 /\ (heal.ref = "main" => branch'["main"] = heal.sha)
    BY <1>1, <2>3, <2>4, <2>10 DEF RepoOK, Branches
  <2>12. StartInv'
    BY <2>2, <2>10, <2>11 DEF StartInv, Cutting
  <2>13. FixInv'
    BY <2>1, <2>2, <2>4, <2>10 DEF FixInv, Failing
  <2> QED
    BY <2>5, <2>6, <2>7, <2>8, <2>9, <2>12, <2>13, TypePartsNext DEF Inv, GitInv
<1> QED
  BY <1>3, <1>4 DEF Cut, Dispatch, UserKeepsOff

\* The patch is staged on the clean fix branch.
LEMMA ApplyStep ==
    ASSUME Inv, UserKeepsOff, Apply
    PROVE  Inv'
<1>1. RepoOK /\ heal \in HealRec /\ MainInv /\ TreeInv /\ StartInv /\ FixInv
  BY TypeParts DEF Inv, GitInv
<1>2. heal.pc = "apply" /\ made' = made
  BY DEF Apply, Dispatch
<1>3. CASE Goto("restore") /\ UNCHANGED repo
  BY <1>2, <1>3, RefusedStep DEF Dispatches
<1>4. ASSUME Patch, NEW pc \in {"commit", "restore"}, Goto(pc) PROVE Inv'
  <2>1. /\ staged' = staged \cup {heal.patch}
        /\ commit' = commit /\ branch' = branch /\ head' = head /\ unstaged' = unstaged
        /\ remote' = remote /\ prs' = prs
    BY <1>4 DEF Patch
  <2>2. /\ heal' \in HealRec /\ heal'.pc = pc /\ heal'.sha = heal.sha
        /\ heal'.patch = heal.patch /\ heal'.ref = heal.ref /\ heal'.restored = heal.restored
    BY <1>1, <1>4, GotoFields DEF Phases
  <2>3. Ids' = Ids /\ staged' \subseteq Changes
    BY <1>1, <2>1 DEF RepoOK, HealRec, Ids, Changes
  <2>4. RepoOK'
    BY <1>1, <1>2, <2>1, <2>3 DEF RepoOK
  <2>5. (heal \in HealRec)'
    BY <2>2, <2>3 DEF HealRec
  <2>6. MainInv'
    BY <1>1, <1>2, <2>1 DEF MainInv
  <2>7. PrsExtendHead'
    BY <2>1 DEF PrsExtendHead, Child, Inv, GitInv
  <2>8. TreeInv'
    BY <1>1, <1>2, <2>1, <2>2 DEF TreeInv, Preflight, Failing
  <2>9. StartInv' /\ FixInv'
    BY <1>1, <1>2, <2>1, <2>2 DEF StartInv, FixInv, Cutting, Failing
  <2> QED
    BY <2>4, <2>5, <2>6, <2>7, <2>8, <2>9, TypePartsNext DEF Inv, GitInv
<1> QED
  BY <1>3, <1>4 DEF Apply, Dispatch, UserKeepsOff

\* The patch, and nothing else, is committed on top of the HEAD the preflight read.
LEMMA CommitPatchStep ==
    ASSUME Inv, UserKeepsOff, CommitPatch
    PROVE  Inv'
<1>1. RepoOK /\ heal \in HealRec /\ MainInv /\ TreeInv /\ StartInv /\ FixInv
  BY TypeParts DEF Inv, GitInv
<1>2. heal.pc = "commit" /\ made' = made
  BY DEF CommitPatch, Dispatch
<1>3. CASE Goto("restore") /\ UNCHANGED repo
  BY <1>2, <1>3, RefusedStep DEF Dispatches
<1>4. ASSUME CommitStaged, NEW pc \in {"push", "restore"}, Goto(pc) PROVE Inv'
  <2>1. /\ head = "fix" /\ branch["fix"] = heal.sha /\ staged = {heal.patch}
        /\ unstaged = {} /\ ~heal.restored
    BY <1>1, <1>2 DEF TreeInv, StartInv, FixInv, Preflight
  <2>2. /\ commit' = Append(commit, Child(heal.sha, {heal.patch}))
        /\ branch' = [branch EXCEPT !["fix"] = Len(commit) + 1]
        /\ staged' = {} /\ head' = head /\ unstaged' = unstaged
        /\ remote' = remote /\ prs' = prs
    BY <1>4, <2>1 DEF CommitStaged
  <2>3. heal.sha \in Ids /\ {heal.patch} \in SUBSET Changes
    BY <1>1 DEF HealRec, Changes
  <2>4. /\ commit' \in Seq(Tree)
        /\ Ids' = 1..(Len(commit) + 1) /\ Ids \subseteq Ids'
        /\ Len(commit) + 1 \in Ids' /\ Len(commit) + 1 # 0
        /\ \A j \in Ids : commit'[j] = commit[j]
        /\ commit'[Len(commit) + 1] = Child(heal.sha, {heal.patch})
        /\ \A j \in Ids' : commit'[j].past \subseteq 1..(j - 1)
    BY <1>1, <2>2, <2>3, Committed
  <2>5. /\ branch' \in [Branches -> {0} \cup Ids'] /\ branch'["main"] = branch["main"]
        /\ branch'["fix"] = Len(commit) + 1
    BY <1>1, <2>2, <2>4 DEF RepoOK, Branches
  <2>6. /\ heal' \in HealRec /\ heal'.pc = pc /\ heal'.sha = heal.sha
        /\ heal'.patch = heal.patch /\ heal'.ref = heal.ref /\ heal'.restored = heal.restored
    BY <1>1, <1>4, GotoFields DEF Phases
  <2>7. RepoOK'
    <3>1. head' \in Branches /\ branch'[head'] # 0
      BY <2>1, <2>2, <2>4, <2>5 DEF Branches
    <3>2. unstaged' \subseteq Changes /\ staged' \subseteq Changes /\ made' \subseteq Edits
      BY <1>1, <1>2, <2>2 DEF RepoOK
    <3>3. remote' \in {0} \cup Ids'
      BY <1>1, <2>2, <2>4 DEF RepoOK
    <3>4. \A pr \in prs' : pr \in [commit : Ids', base : Ids', patch : Patches,
                                   burnt : SUBSET Changes]
      BY <1>1, <2>2, <2>4 DEF RepoOK
    <3> QED
      BY <2>4, <2>5, <3>1, <3>2, <3>3, <3>4 DEF RepoOK
  <2>8. (heal \in HealRec)'
    BY <2>4, <2>6 DEF HealRec
  <2>9. MainInv'
    <3>1. branch["main"] \in Ids
      BY <1>1 DEF RepoOK, MainInv, Branches
    <3>2. commit'[branch'["main"]] = commit[branch["main"]]
      BY <2>4, <2>5, <3>1
    <3> QED
      BY <1>1, <1>2, <2>2, <2>5, <3>2 DEF MainInv
  <2>10. PrsExtendHead'
    BY <1>1, <2>2, <2>4, PrsStay DEF Inv, GitInv
  <2>11. TreeInv'
    BY <2>1, <2>2, <2>6 DEF TreeInv, Failing
  <2>12. branch'[heal.ref] # 0 /\ (heal.ref = "main" => branch'["main"] = heal.sha)
    BY <1>1, <1>2, <2>4, <2>5 DEF StartInv, Cutting, HealRec, Branches
  <2>13. StartInv'
    BY <2>1, <2>6, <2>12 DEF StartInv, Cutting
  <2>14. FixInv'
    <3>1. commit'[branch'["fix"]] = [past |-> commit[heal.sha].past \cup {heal.sha},
                                     tree |-> commit[heal.sha].tree \cup {heal.patch}]
      BY <2>4, <2>5 DEF Child
    <3>2. commit'[heal.sha] = commit[heal.sha]
      BY <2>3, <2>4
    <3>3. commit'[branch'["fix"]] = [past |-> commit'[heal'.sha].past \cup {heal'.sha},
                                     tree |-> commit'[heal'.sha].tree \cup {heal'.patch}]
      BY <3>1, <3>2, <2>6
    <3> QED
      BY <2>1, <2>2, <2>6, <3>3 DEF FixInv, Child, Failing
  <2> QED
    BY <2>7, <2>8, <2>9, <2>10, <2>11, <2>13, <2>14, TypePartsNext DEF Inv, GitInv
<1> QED
  BY <1>3, <1>4 DEF CommitPatch, Dispatch, UserKeepsOff

\* A push makes the remote's branch the fix branch.
LEMMA PushStep ==
    ASSUME Inv, UserKeepsOff, Push
    PROVE  Inv'
<1>1. RepoOK /\ heal \in HealRec /\ MainInv /\ TreeInv /\ StartInv /\ FixInv
  BY TypeParts DEF Inv, GitInv
<1>2. heal.pc = "push" /\ made' = made
  BY DEF Push, Dispatch
<1>3. CASE Goto("restore") /\ UNCHANGED repo
  BY <1>2, <1>3, RefusedStep DEF Dispatches
<1>4. ASSUME PushFix, NEW pc \in {"pr", "restore"}, Goto(pc) PROVE Inv'
  <2>1. /\ remote' = branch["fix"]
        /\ commit' = commit /\ branch' = branch /\ head' = head /\ unstaged' = unstaged
        /\ staged' = staged /\ prs' = prs
    BY <1>4 DEF PushFix
  <2>2. /\ heal' \in HealRec /\ heal'.pc = pc /\ heal'.sha = heal.sha
        /\ heal'.patch = heal.patch /\ heal'.ref = heal.ref /\ heal'.restored = heal.restored
    BY <1>1, <1>4, GotoFields DEF Phases
  <2>3. Ids' = Ids /\ remote' \in {0} \cup Ids
    BY <1>1, <2>1 DEF RepoOK, Ids, Branches
  <2>4. RepoOK'
    BY <1>1, <1>2, <2>1, <2>3 DEF RepoOK
  <2>5. (heal \in HealRec)'
    BY <2>2, <2>3 DEF HealRec
  <2>6. MainInv'
    BY <1>1, <1>2, <2>1 DEF MainInv
  <2>7. PrsExtendHead'
    BY <2>1 DEF PrsExtendHead, Child, Inv, GitInv
  <2>8. TreeInv'
    BY <1>1, <1>2, <2>1, <2>2 DEF TreeInv, Preflight, Failing
  <2>9. StartInv'
    BY <1>1, <1>2, <2>1, <2>2 DEF StartInv, Cutting
  <2>10. FixInv'
    BY <1>1, <1>2, <2>1, <2>2 DEF FixInv, Child, Failing
  <2> QED
    BY <2>4, <2>5, <2>6, <2>7, <2>8, <2>9, <2>10, TypePartsNext DEF Inv, GitInv
<1> QED
  BY <1>3, <1>4 DEF Push, Dispatch, UserKeepsOff

\* The pull request that is opened is the commit of the patch on top of its base.
LEMMA CreatePrStep ==
    ASSUME Inv, UserKeepsOff, CreatePr
    PROVE  Inv'
<1>1. RepoOK /\ heal \in HealRec /\ MainInv /\ TreeInv /\ StartInv /\ FixInv
  BY TypeParts DEF Inv, GitInv
<1>2. heal.pc = "pr" /\ made' = made
  BY DEF CreatePr, Dispatch
<1>3. CASE Goto("restore") /\ UNCHANGED repo
  BY <1>2, <1>3, RefusedStep DEF Dispatches
<1>4. ASSUME remote # 0, OpenPr, NEW pc \in {"opened", "restore"}, Goto(pc) PROVE Inv'
  <2> DEFINE pr == [commit |-> remote, base |-> heal.sha, patch |-> heal.patch,
                    burnt |-> heal.burnt]
  <2>1. /\ prs' = prs \cup {pr}
        /\ commit' = commit /\ branch' = branch /\ head' = head /\ unstaged' = unstaged
        /\ staged' = staged /\ remote' = remote
    BY <1>4 DEF OpenPr
  <2>2. /\ heal' \in HealRec /\ heal'.pc = pc /\ heal'.sha = heal.sha
        /\ heal'.patch = heal.patch /\ heal'.ref = heal.ref /\ heal'.restored = heal.restored
    BY <1>1, <1>4, GotoFields DEF Phases
  <2>3. Ids' = Ids /\ remote \in Ids
    BY <1>1, <1>4, <2>1 DEF RepoOK, Ids
  <2>4. pr \in [commit : Ids, base : Ids, patch : Patches, burnt : SUBSET Changes]
    BY <1>1, <2>3 DEF HealRec
  <2>5. RepoOK'
    <3>1. \A q \in prs' : q \in [commit : Ids, base : Ids, patch : Patches,
                                 burnt : SUBSET Changes]
      BY <1>1, <2>1, <2>4 DEF RepoOK
    <3> QED
      BY <1>1, <1>2, <2>1, <2>3, <3>1 DEF RepoOK
  <2>6. (heal \in HealRec)'
    BY <2>2, <2>3 DEF HealRec
  <2>7. MainInv'
    BY <1>1, <1>2, <2>1 DEF MainInv
  <2>8. PrsExtendHead'
    <3>1. commit[pr.commit] = Child(pr.base, {pr.patch})
      BY <1>1, <1>2 DEF FixInv
    <3>2. \A q \in prs : commit[q.commit] = Child(q.base, {q.patch})
      BY DEF Inv, GitInv, PrsExtendHead
    <3>3. \A q \in prs \cup {pr} : commit[q.commit] = Child(q.base, {q.patch})
      BY <3>1, <3>2
    <3> HIDE DEF pr
    <3> QED
      BY <2>1, <3>3 DEF PrsExtendHead, Child
  <2>9. TreeInv'
    BY <1>1, <1>2, <2>1, <2>2 DEF TreeInv, Preflight, Failing
  <2>10. StartInv'
    BY <1>1, <1>2, <2>1, <2>2 DEF StartInv, Cutting
  <2>11. FixInv'
    <3>1. head = "fix" /\ remote = branch["fix"]
      BY <1>1, <1>2 DEF FixInv
    <3>2. pr \in prs' /\ pr.commit = remote' /\ pr.patch = heal'.patch
      BY <2>1, <2>2
    <3> HIDE DEF pr
    <3> QED
      BY <2>1, <2>2, <3>1, <3>2 DEF FixInv, Failing
  <2> QED
    BY <2>5, <2>6, <2>7, <2>8, <2>9, <2>10, <2>11, TypePartsNext DEF Inv, GitInv
<1> QED
  BY <1>3, <1>4 DEF CreatePr, Dispatch, UserKeepsOff

-----------------------------------------------------------------------------
(* The cleanup.                                                            *)

\* A forced checkout destroys nothing of the user's, and brings them back.
LEMMA RestoreStep ==
    ASSUME Inv, Restore
    PROVE  Inv'
<1>1. RepoOK /\ heal \in HealRec /\ MainInv /\ TreeInv /\ StartInv /\ FixInv
  BY TypeParts DEF Inv, GitInv
<1>2. /\ heal.pc = "restore" /\ made' = made /\ unstaged = {} /\ branch[heal.ref] # 0
      /\ ~heal.restored /\ (heal.ref = "main" => branch["main"] = heal.sha)
  BY <1>1 DEF Restore, TreeInv, StartInv, Preflight, Cutting
<1>3. CASE Goto("drop") /\ UNCHANGED repo
  <2>1. /\ heal' \in HealRec /\ heal'.pc = "drop" /\ heal'.sha = heal.sha
        /\ heal'.patch = heal.patch /\ heal'.ref = heal.ref /\ heal'.restored = heal.restored
    BY <1>1, <1>3, GotoFields DEF Phases
  <2>2. TypeOK' /\ MainInv' /\ PrsExtendHead'
    BY <1>2, <1>3, <2>1, HealAlone
  <2>3. /\ branch' = branch /\ head' = head /\ unstaged' = unstaged /\ staged' = staged
    BY <1>3 DEF repo
  <2>4. TreeInv' /\ StartInv' /\ FixInv'
    BY <1>1, <1>2, <2>1, <2>3 DEF TreeInv, StartInv, FixInv, Cutting, Failing
  <2> QED
    BY <2>2, <2>4 DEF Inv, GitInv
<1>4. CASE /\ head' = heal.ref /\ unstaged' = {} /\ staged' = {}
           /\ heal' = [heal EXCEPT !.pc = "drop", !.restored = TRUE]
           /\ UNCHANGED <<commit, branch, remote, prs>>
  <2>1. "drop" \in Phases
    BY DEF Phases
  <2>2. /\ heal' \in HealRec /\ heal'.pc = "drop" /\ heal'.sha = heal.sha
        /\ heal'.ref = heal.ref
    BY <1>1, <1>4, <2>1 DEF HealRec
  <2>3. Ids' = Ids
    BY <1>4 DEF Ids
  <2>4. RepoOK'
    BY <1>1, <1>2, <1>4, <2>3 DEF RepoOK, HealRec
  <2>5. (heal \in HealRec)'
    BY <2>2, <2>3 DEF HealRec
  <2>6. MainInv'
    BY <1>1, <1>2, <1>4 DEF MainInv
  <2>7. PrsExtendHead'
    BY <1>4 DEF PrsExtendHead, Child, Inv, GitInv
  <2>8. TreeInv' /\ FixInv'
    BY <1>4, <2>2 DEF TreeInv, FixInv, Failing
  <2>9. StartInv'
    BY <1>2, <1>4, <2>2 DEF StartInv, Cutting, Clean
  <2> QED
    BY <2>4, <2>5, <2>6, <2>7, <2>8, <2>9, TypePartsNext DEF Inv, GitInv
<1> QED
  BY <1>3, <1>4 DEF Restore

\* The fix branch is dropped from under nobody.
LEMMA DropStep ==
    ASSUME Inv, Drop
    PROVE  Inv'
<1>1. RepoOK /\ heal \in HealRec /\ MainInv /\ TreeInv /\ StartInv /\ FixInv
  BY TypeParts DEF Inv, GitInv
<1>2. heal.pc = "drop" /\ made' = made /\ Goto("failed")
  BY DEF Drop
<1>3. /\ heal' \in HealRec /\ heal'.pc = "failed" /\ heal'.sha = heal.sha
      /\ heal'.patch = heal.patch /\ heal'.ref = heal.ref /\ heal'.restored = heal.restored
  BY <1>1, <1>2, GotoFields DEF Phases
<1>4. /\ commit' = commit /\ head' = head /\ unstaged' = unstaged /\ staged' = staged
      /\ remote' = remote /\ prs' = prs
  BY DEF Drop, repo
<1>5. /\ branch' \in [Branches -> {0} \cup Ids] /\ branch'["main"] = branch["main"]
      /\ branch'[head] = branch[head]
  <2>1. CASE head # "fix" /\ branch' = [branch EXCEPT !["fix"] = 0]
    BY <1>1, <2>1 DEF RepoOK, Branches
  <2>2. CASE UNCHANGED repo
    BY <1>1, <2>2 DEF RepoOK, repo
  <2> QED
    BY <2>1, <2>2 DEF Drop
<1>6. Ids' = Ids
  BY <1>4 DEF Ids
<1>7. RepoOK'
  BY <1>1, <1>2, <1>4, <1>5, <1>6 DEF RepoOK
<1>8. (heal \in HealRec)'
  BY <1>3, <1>6 DEF HealRec
<1>9. MainInv'
  BY <1>1, <1>2, <1>4, <1>5 DEF MainInv
<1>10. PrsExtendHead'
  BY <1>4 DEF PrsExtendHead, Child, Inv, GitInv
<1>11. TreeInv' /\ FixInv'
  BY <1>1, <1>2, <1>3, <1>4 DEF TreeInv, FixInv, Preflight, Failing
<1>12. StartInv'
  BY <1>1, <1>2, <1>3, <1>4, <1>5 DEF StartInv, Cutting, Clean
<1> QED
  BY <1>7, <1>8, <1>9, <1>10, <1>11, <1>12, TypePartsNext DEF Inv, GitInv

-----------------------------------------------------------------------------
(* The invariant, and what follows from it.                                *)

\* A fresh checkout satisfies the invariant.
LEMMA InitInv == ASSUME Init PROVE Inv
<1> DEFINE first == [past |-> {}, tree |-> {}]
<1>1. commit = <<first>> /\ first \in Tree /\ first.past = {} /\ first.tree = {}
  BY DEF Init, Tree
<1> HIDE DEF first
<1>2. /\ commit \in Seq(Tree) /\ Len(commit) = 1 /\ commit[1] = first /\ Ids = {1}
  BY <1>1 DEF Ids
<1>3. branch \in [Branches -> {0} \cup Ids] /\ branch["main"] = 1
  BY <1>2 DEF Init, Branches
<1>4. RepoOK
  BY <1>1, <1>2, <1>3 DEF Init, RepoOK, Branches
<1>5. heal \in HealRec /\ heal.pc = "idle" /\ heal.restored = FALSE
  <2> DEFINE patch == CHOOSE p \in Patches : TRUE
  <2>1. patch \in Patches
    BY GitAssumption
  <2> HIDE DEF patch
  <2>2. MaxHeals \in 0..MaxHeals /\ "main" \in Branches /\ "idle" \in Phases
    BY GitAssumption DEF Branches, Phases
  <2>3. heal = [pc |-> "idle", patch |-> patch, planned |-> {}, burnt |-> {}, sha |-> 1,
                ref |-> "main", left |-> MaxHeals, restored |-> FALSE]
    BY DEF Init, NoHeal, patch
  <2> QED
    BY <1>2, <2>1, <2>2, <2>3 DEF HealRec
<1>6. MainInv
  BY <1>1, <1>2, <1>3 DEF MainInv, Init
<1>7. TreeInv /\ StartInv /\ FixInv
  BY <1>5 DEF TreeInv, StartInv, FixInv, Preflight, Failing, Cutting
<1>8. PrsExtendHead
  BY DEF PrsExtendHead, Init
<1> QED
  BY <1>4, <1>5, <1>6, <1>7, <1>8, TypeParts DEF Inv, GitInv

\* Every step keeps the invariant.
LEMMA NextInv == ASSUME UserKeepsOff, Inv, [Next]_vars PROVE Inv'
<1>1. CASE \E c \in Edits : Edit(c)
  BY <1>1, EditStep
<1>2. CASE Commit
  BY <1>2, CommitStep
<1>3. CASE \E b \in Branches : Switch(b)
  BY <1>3, SwitchStep
<1>4. CASE \E p \in Patches : Plan(p)
  BY <1>4, PlanStep
<1>5. CASE BurnIn
  BY <1>5, BurnInStep
<1>6. CASE Status \/ ReadSha \/ ReadRef
  BY <1>6, PreflightStep
<1>7. CASE Cut
  BY <1>7, CutStep
<1>8. CASE Apply
  BY <1>8, ApplyStep
<1>9. CASE CommitPatch
  BY <1>9, CommitPatchStep
<1>10. CASE Push
  BY <1>10, PushStep
<1>11. CASE CreatePr
  BY <1>11, CreatePrStep
<1>12. CASE Opened \/ Failed \/ Crash
  BY <1>12, StopStep DEF Opened, Failed, Crash
<1>13. CASE Restore
  BY <1>13, RestoreStep
<1>14. CASE Drop
  BY <1>14, DropStep
<1>15. CASE UNCHANGED vars
  <2>1. UNCHANGED <<repo, made>> /\ heal' = heal
    BY <1>15 DEF vars
  <2>2. heal \in HealRec
    BY TypeParts DEF Inv
  <2>3. TypeOK' /\ MainInv' /\ PrsExtendHead'
    BY <2>1, <2>2, HealAlone
  <2>4. TreeInv' /\ StartInv' /\ FixInv'
    BY <2>1 DEF Inv, GitInv, TreeInv, StartInv, FixInv, Clean, Child, repo
  <2> QED
    BY <2>3, <2>4 DEF Inv, GitInv
<1> QED
  BY <1>1, <1>2, <1>3, <1>4, <1>5, <1>6, <1>7, <1>8, <1>9, <1>10, <1>11, <1>12, <1>13,
     <1>14, <1>15 DEF Next, User, Flow

\* Every reachable state has its types and satisfies the inductive invariant.
THEOREM GitCorrect ==
    ASSUME UserKeepsOff
    PROVE  Spec => [](TypeOK /\ GitInv)
<1>1. Init => Inv
  BY InitInv
<1>2. Inv /\ [Next]_vars => Inv'
  BY NextInv
<1>3. Inv <=> TypeOK /\ GitInv
  BY DEF Inv
<1> QED
  BY <1>1, <1>2, <1>3, PTL DEF Spec

\* What is checked out exists, and the types of every variable.
THEOREM TypeCorrect ==
    ASSUME UserKeepsOff
    PROVE  Spec => []TypeOK
  BY GitCorrect, PTL

\* A pull request is the commit of its patch on the HEAD it names, and main has none.
THEOREM PatchesKeptApartCorrect ==
    ASSUME UserKeepsOff
    PROVE  Spec => []PatchesKeptApart
<1>1. GitInv => PatchesKeptApart
  BY DEF GitInv, MainInv, PatchesKeptApart, PatchOnlyOnFix
<1> QED
  BY <1>1, GitCorrect, PTL

\* What the user made is in the work tree, or in main.
THEOREM UserWorkSurvivesCorrect ==
    ASSUME UserKeepsOff
    PROVE  Spec => []UserWorkSurvives
<1>1. TypeOK /\ GitInv => UserWorkSurvives
  <2> SUFFICES ASSUME TypeOK, GitInv, NEW c \in made
               PROVE  \/ c \in unstaged \cup staged
                      \/ \E i \in Ids : Reachable(i) /\ c \in commit[i].tree
    BY DEF UserWorkSurvives
  <2>1. branch["main"] \in Ids /\ "main" \in Branches /\ branch["main"] # 0
    BY DEF TypeOK, GitInv, MainInv, Branches
  <2>2. Reachable(branch["main"])
    BY <2>1 DEF Reachable
  <2> QED
    BY <2>1, <2>2 DEF GitInv, MainInv
<1> QED
  BY <1>1, GitCorrect, PTL

\* A flow that ends leaves of its own at most its patch, staged, and its branch; a
\* failed one whose checkout got through, nothing; one that opened its pull request,
\* the user on the fix branch; and a later flow commits its own patch alone.
THEOREM CheckoutInOrderCorrect ==
    ASSUME UserKeepsOff
    PROVE  Spec => []CheckoutInOrder
<1>1. GitInv => CheckoutInOrder
  <2> SUFFICES ASSUME GitInv PROVE CheckoutInOrder
    OBVIOUS
  <2>1. TreeInv /\ StartInv /\ FixInv
    BY DEF GitInv
  <2>2. OwnTracesOnly
    BY <2>1 DEF TreeInv, StartInv, FixInv, Preflight, Cutting, Failing, OwnTracesOnly
  <2>3. Undone
    BY <2>1 DEF StartInv, Undone
  <2>4. Delivered
    BY <2>1 DEF TreeInv, FixInv, Preflight, Clean, Delivered
  <2>5. RetryCommits
    BY <2>1 DEF TreeInv, FixInv, Preflight, RetryCommits
  <2> QED
    BY <2>2, <2>3, <2>4, <2>5 DEF CheckoutInOrder
<1> QED
  BY <1>1, GitCorrect, PTL
=============================================================================
