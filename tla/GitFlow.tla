------------------------------ MODULE GitFlow ------------------------------
(***************************************************************************)
(* The pull request of a heal (healer/handlers.py, _pr_flow, and           *)
(* flaky_healer/gitflow.py) on the user's checkout: the burn-in that       *)
(* validates a tree, the preflight, five dispatches through the host, and  *)
(* the cleanup when one of them fails, while the user works in the same    *)
(* checkout.                                                               *)
(*                                                                         *)
(* The content of a tree is the set of changes made to it.  A commit is    *)
(* its tree and the commits it descends from; its id is its place in       *)
(* `commit'.  Every patch of a test goes to the same branch, "fix".        *)
(*                                                                         *)
(* A definition named ...Slip is the next one with a plausible mistake.    *)
(***************************************************************************)
EXTENDS Naturals, Sequences

CONSTANTS
    Edits,      \* changes the user may make, each once
    Patches,    \* changes a heal may make
    MaxHeals,   \* bound: heals that burn in green
    UserPhases, \* when the user works: "idle", "healing", "flow"
    UserCommitsOn, \* the branches the user commits on
    Troubles    \* "denied", "lost", "misread": what the host may do to a dispatch;
                \* "crash": the process may end

ASSUME GitAssumption ==
    /\ Edits \cap Patches = {} /\ Patches # {} /\ MaxHeals \in Nat
    /\ UserPhases \subseteq {"idle", "healing", "flow"}
    /\ UserCommitsOn \subseteq {"main", "fix"}
    /\ Troubles \subseteq {"denied", "lost", "misread", "crash"}

Branches == {"main", "fix"}
Changes == Edits \cup Patches

VARIABLES
    commit,   \* every commit made
    branch,   \* branch[b]: its commit; 0: there is no such branch
    head,     \* the branch checked out
    unstaged, staged,  \* changes of the work tree that are not committed
    remote,   \* the commit of the remote's fix branch, or 0
    prs,      \* the pull requests: [commit, base, patch, burnt]
    made,     \* the user's changes (history)
    heal      \* the heal in progress

repo == <<commit, branch, head, unstaged, staged, remote, prs>>
vars == <<repo, made, heal>>

NoHeal == [pc |-> "idle", patch |-> CHOOSE p \in Patches : TRUE, planned |-> {},
           burnt |-> {}, sha |-> 1, ref |-> "main", left |-> MaxHeals,
           restored |-> FALSE]

Init ==
    /\ commit = <<[past |-> {}, tree |-> {}]>>
    /\ branch = [b \in Branches |-> IF b = "main" THEN 1 ELSE 0]
    /\ head = "main"
    /\ unstaged = {} /\ staged = {}
    /\ remote = 0 /\ prs = {}
    /\ made = {}
    /\ heal = NoHeal

HeadTree == commit[branch[head]].tree
WorkTree == HeadTree \cup unstaged \cup staged
Clean == unstaged = {} /\ staged = {}

\* A commit of `changes' on top of commit i.
Child(i, changes) == [past |-> commit[i].past \cup {i},
                      tree |-> commit[i].tree \cup changes]

-----------------------------------------------------------------------------
(* The user.                                                               *)

Phase == CASE heal.pc = "idle" -> "idle"
           [] heal.pc \in {"burnin", "status"} -> "healing"
           [] OTHER -> "flow"

Edit(c) ==
    /\ Phase \in UserPhases /\ c \notin made
    /\ made' = made \cup {c}
    /\ unstaged' = unstaged \cup {c}
    /\ UNCHANGED <<commit, branch, head, staged, remote, prs, heal>>

\* git commit FILES, by the user, of the files they changed: what an earlier
\* flow left staged stays staged.
Commit ==
    /\ Phase \in UserPhases /\ unstaged # {}
    /\ head \in UserCommitsOn
    /\ commit' = Append(commit, Child(branch[head], unstaged))
    /\ branch' = [branch EXCEPT ![head] = Len(commit) + 1]
    /\ unstaged' = {}
    /\ UNCHANGED <<head, staged, remote, prs, made, heal>>

\* git checkout of the other branch; changes are carried over.
Switch(b) ==
    /\ Phase \in UserPhases /\ b # head /\ branch[b] # 0
    /\ head' = b
    /\ UNCHANGED <<commit, branch, unstaged, staged, remote, prs, made, heal>>

-----------------------------------------------------------------------------
(* The burn-in and the preflight.                                          *)

Goto(pc) == heal' = [heal EXCEPT !.pc = pc]
Stop == heal' = [NoHeal EXCEPT !.left = heal.left]

\* A patch is planned, and its diff computed, off the work tree.
Plan(p) ==
    /\ heal.pc = "idle" /\ heal.left > 0 /\ p \notin WorkTree
    /\ heal' = [NoHeal EXCEPT !.pc = "burnin", !.patch = p, !.planned = WorkTree,
                              !.left = heal.left]
    /\ UNCHANGED <<repo, made>>

\* The patch is burnt in on a copy of the work tree, uncommitted changes and all.
BurnIn ==
    /\ heal.pc = "burnin"
    /\ \/ heal' = [heal EXCEPT !.pc = "status", !.burnt = WorkTree, !.left = @ - 1]
       \/ Stop
    /\ UNCHANGED <<repo, made>>

\* The flow starts on a dirty tree.
StatusSlip ==
    /\ heal.pc = "status"
    /\ \/ Goto("sha")
       \/ "denied" \in Troubles /\ Stop
    /\ UNCHANGED <<repo, made>>

\* git status --porcelain: a dirty tree refuses the flow, as does a host that
\* does not answer.
Status ==
    /\ heal.pc = "status"
    /\ \/ Clean /\ Goto("sha")
       \/ (~Clean \/ Troubles # {}) /\ Stop
    /\ UNCHANGED <<repo, made>>

\* git rev-parse HEAD
ReadSha ==
    /\ heal.pc = "sha"
    /\ \/ heal' = [heal EXCEPT !.pc = "ref", !.sha = branch[head]]
       \/ Troubles # {} /\ Stop
    /\ UNCHANGED <<repo, made>>

\* git rev-parse --abbrev-ref HEAD
ReadRef ==
    /\ heal.pc = "ref"
    /\ \/ heal' = [heal EXCEPT !.pc = "checkout", !.ref = head]
       \/ Troubles # {} /\ Stop
    /\ UNCHANGED <<repo, made>>

-----------------------------------------------------------------------------
(* The dispatches.                                                         *)

\* execute_via_ctx: a step that git does, or refuses; that the host denies, or
\* does and reports as failed (an exception on the way back); or that the host
\* denies in words _result_failure does not know.
Dispatch(pc, can, effect, next) ==
    /\ heal.pc = pc
    /\ \/ can /\ effect /\ Goto(next)
       \/ ~can /\ Goto("restore") /\ UNCHANGED repo
       \/ "denied" \in Troubles /\ Goto("restore") /\ UNCHANGED repo
       \/ can /\ "lost" \in Troubles /\ effect /\ Goto("restore")
       \/ "misread" \in Troubles /\ Goto(next) /\ UNCHANGED repo
    /\ UNCHANGED made

\* The branch is cut from the PR's base.
CutFromBase ==
    /\ branch' = [branch EXCEPT !["fix"] = branch["main"]]
    /\ head' = "fix"
    /\ UNCHANGED <<commit, unstaged, staged, remote, prs>>

CutSlip == Dispatch("checkout", TRUE, CutFromBase, "apply")

\* git checkout -B fix: from HEAD as it is now, whatever the branch was before.
CutFromHead ==
    /\ branch' = [branch EXCEPT !["fix"] = branch[head]]
    /\ head' = "fix"
    /\ UNCHANGED <<commit, unstaged, staged, remote, prs>>

Cut == Dispatch("checkout", TRUE, CutFromHead, "apply")

\* git apply --index: not twice, and certainly on the tree it was made for.
Applies == heal.patch \notin WorkTree
Fits == Applies /\ WorkTree = heal.planned

Patch ==
    /\ staged' = staged \cup {heal.patch}
    /\ UNCHANGED <<commit, branch, head, unstaged, remote, prs>>

Apply ==
    \/ Dispatch("apply", Applies, Patch, "commit")
    \/ ~Fits /\ Dispatch("apply", FALSE, Patch, "commit")

\* git commit -m: what is staged.
CommitStaged ==
    /\ commit' = Append(commit, Child(branch[head], staged))
    /\ branch' = [branch EXCEPT ![head] = Len(commit) + 1]
    /\ staged' = {}
    /\ UNCHANGED <<head, unstaged, remote, prs>>

CommitPatch == Dispatch("commit", staged # {}, CommitStaged, "push")

\* git push -u origin fix: a fast-forward.
Pushes ==
    /\ branch["fix"] # 0
    /\ remote \in {0, branch["fix"]} \cup commit[branch["fix"]].past

PushFix ==
    /\ remote' = branch["fix"]
    /\ UNCHANGED <<commit, branch, head, unstaged, staged, prs>>

Push == Dispatch("push", Pushes, PushFix, "pr")

OpenPr ==
    /\ prs' = prs \cup {[commit |-> remote, base |-> heal.sha, patch |-> heal.patch,
                        burnt |-> heal.burnt]}
    /\ UNCHANGED <<commit, branch, head, unstaged, staged, remote>>

CreatePr == Dispatch("pr", remote # 0, OpenPr, "opened")

\* The user stays on the fix branch.
Opened ==
    /\ heal.pc = "opened"
    /\ Stop
    /\ UNCHANGED <<repo, made>>

-----------------------------------------------------------------------------
(* The cleanup; a step that fails is passed over.                          *)

\* Without -f.
RestoreSlip ==
    /\ heal.pc = "restore"
    /\ \/ /\ head' = heal.ref
          /\ heal' = [heal EXCEPT !.pc = "drop", !.restored = TRUE]
          /\ UNCHANGED <<commit, branch, unstaged, staged, remote, prs>>
       \/ Troubles # {} /\ Goto("drop") /\ UNCHANGED repo
    /\ UNCHANGED made

\* git checkout -f ref
Restore ==
    /\ heal.pc = "restore"
    /\ \/ /\ head' = heal.ref /\ unstaged' = {} /\ staged' = {}
          /\ heal' = [heal EXCEPT !.pc = "drop", !.restored = TRUE]
          /\ UNCHANGED <<commit, branch, remote, prs>>
       \/ Troubles # {} /\ Goto("drop") /\ UNCHANGED repo
    /\ UNCHANGED made

\* git branch -D fix: not the one checked out.
Drop ==
    /\ heal.pc = "drop"
    /\ \/ /\ head # "fix"
          /\ branch' = [branch EXCEPT !["fix"] = 0]
          /\ UNCHANGED <<commit, head, unstaged, staged, remote, prs>>
       \/ (head = "fix" \/ Troubles # {}) /\ UNCHANGED repo
    /\ Goto("failed")
    /\ UNCHANGED made

Failed ==
    /\ heal.pc = "failed"
    /\ Stop
    /\ UNCHANGED <<repo, made>>

-----------------------------------------------------------------------------
User == (\E c \in Edits : Edit(c)) \/ Commit \/ (\E b \in Branches : Switch(b))

Flow ==
    \/ (\E p \in Patches : Plan(p)) \/ BurnIn
    \/ Status \/ ReadSha \/ ReadRef
    \/ Cut \/ Apply \/ CommitPatch \/ Push \/ CreatePr \/ Opened
    \/ Restore \/ Drop \/ Failed

\* The process ends between two steps: no cleanup.
Crash ==
    /\ "crash" \in Troubles /\ heal.pc # "idle"
    /\ Stop
    /\ UNCHANGED <<repo, made>>

Next == User \/ Flow \/ Crash

Spec == Init /\ [][Next]_vars

-----------------------------------------------------------------------------
(* Properties.                                                             *)

Ids == 1..Len(commit)
Phases == {"idle", "burnin", "status", "sha", "ref", "checkout", "apply", "commit",
           "push", "pr", "opened", "restore", "drop", "failed"}

\* Every variable keeps its type, what is checked out exists, and a flow that
\* has passed its preflight remembers a commit.
TypeOK ==
    /\ commit \in Seq([past : SUBSET Nat, tree : SUBSET Changes])
    /\ \A i \in Ids : commit[i].past \subseteq 1..(i - 1)
    /\ branch \in [Branches -> {0} \cup Ids]
    /\ head \in Branches /\ branch[head] # 0
    /\ unstaged \subseteq Changes /\ staged \subseteq Changes
    /\ remote \in {0} \cup Ids
    /\ \A pr \in prs : pr \in [commit : Ids, base : Ids, patch : Patches,
                             burnt : SUBSET Changes]
    /\ made \subseteq Edits
    /\ heal \in [pc : Phases, patch : Patches, planned : SUBSET Changes,
                 burnt : SUBSET Changes, sha : Ids, ref : Branches, left : 0..MaxHeals,
                 restored : BOOLEAN]

Reachable(i) == i = remote \/ \E b \in Branches :
    branch[b] # 0 /\ (i = branch[b] \/ i \in commit[branch[b]].past)

\* The flow destroys no work of the user's: each change is in the work tree or
\* in a commit that some branch still holds.
UserWorkSurvives ==
    \A c \in made :
        c \in unstaged \cup staged \/ \E i \in Ids : Reachable(i) /\ c \in commit[i].tree

\* "Non-destructive failure cleanup": it drops no commit of the user's either.
CleanupSparesWork ==
    [][heal.pc \in {"restore", "drop"} /\ UserWorkSurvives => UserWorkSurvives']_vars

\* "burn-in ran against this commit; the fix branch is cut from it": what a
\* pull request proposes is the tree that was burnt in, with the patch.
PrsAreValidated ==
    \A pr \in prs : commit[pr.commit].tree = pr.burnt \cup {pr.patch}

\* "The fix branch is cut from it": a pull request is the one commit of its patch
\* on top of the HEAD its text names, whatever earlier attempts left behind.
PrsExtendHead ==
    \A pr \in prs : commit[pr.commit] = Child(pr.base, {pr.patch})

\* The patch is committed on the fix branch and nowhere else.
PatchOnlyOnFix ==
    commit[branch["main"]].tree \cap Patches = {}

\* Patches keep to themselves: on the fix branch, and one to a pull request.
PatchesKeptApart == PrsExtendHead /\ PatchOnlyOnFix

\* A flow that ends leaves main where it was when it started from there, and of
\* its own at most its patch, staged, and its branch, checked out.
OwnTracesOnly ==
    heal.pc \in {"opened", "failed"} =>
        /\ heal.ref = "main" => branch["main"] = heal.sha
        /\ unstaged = {} /\ staged \subseteq {heal.patch}
        /\ head \in {heal.ref, "fix"}

\* A failed flow whose `checkout -f' was let through leaves none: the branch it
\* started from is checked out again, and the tree is clean.
Undone == heal.pc = "failed" /\ heal.restored => head = heal.ref /\ Clean

\* One that opened its pull request leaves the user on the fix branch, with a
\* clean tree, at the commit the remote has and the pull request proposes.
Delivered ==
    heal.pc = "opened" =>
        /\ head = "fix" /\ Clean /\ branch["fix"] = remote
        /\ \E pr \in prs : pr.commit = remote /\ pr.patch = heal.patch

\* Whatever an earlier attempt left behind, a flow whose patch applied commits
\* that patch and nothing else, on the fix branch.
RetryCommits ==
    heal.pc = "commit" => head = "fix" /\ staged = {heal.patch} /\ unstaged = {}

\* The order a flow leaves the checkout in: what it may leave when it ends, what
\* more it owes when its cleanup got through or its pull request is open, and
\* that no such leftover gets into the commit of a later flow.  Not that a later
\* flow is none the worse: see RetryPushes.
CheckoutInOrder == OwnTracesOnly /\ Undone /\ Delivered /\ RetryCommits

\* gitflow.py: the cleanup will "put the user back where they started", be that
\* on the fix branch an earlier flow left checked out.
RestoredAnywhere ==
    heal.pc = "failed" /\ heal.restored =>
        head = heal.ref /\ branch[head] = heal.sha /\ Clean

\* A later flow gets to push its commit: "a retry never trips over stale state".
RetryPushes == heal.pc = "push" => Pushes

-----------------------------------------------------------------------------
(* The inductive invariant: for a user who lets a flow finish, and commits   *)
(* on main alone, and a host whose denials are understood.                   *)

UserKeepsOff ==
    /\ "flow" \notin UserPhases
    /\ UserCommitsOn \subseteq {"main"}
    /\ "misread" \notin Troubles

Preflight == {"idle", "burnin", "status"}
Failing == {"restore", "drop", "failed"}
Cutting == {"checkout", "apply", "commit", "push", "pr", "opened", "restore"}

\* main exists and holds no patch; what the user made is on it or still to be
\* committed, and no patch is ever left unstaged.
MainInv ==
    /\ branch["main"] # 0
    /\ commit[branch["main"]].tree \cap Patches = {}
    /\ unstaged \subseteq Edits
    /\ made \subseteq unstaged \cup commit[branch["main"]].tree

\* Between its preflight and its end a flow finds nothing of the user's in the
\* work tree, and its own patch from the apply to the commit, or when it failed.
TreeInv ==
    /\ heal.pc \notin Preflight => unstaged = {}
    /\ heal.pc \in {"sha", "ref", "checkout", "apply", "push", "pr", "opened"} => staged = {}
    /\ heal.pc = "commit" => staged = {heal.patch}
    /\ heal.pc \in Failing => staged \subseteq {heal.patch}

\* Where the flow started, and that it can go back there; a burn-in has a heal left.
StartInv ==
    /\ heal.pc = "burnin" => heal.left > 0
    /\ heal.pc \in {"ref", "checkout"} => heal.sha = branch[head]
    /\ heal.pc = "checkout" => heal.ref = head
    /\ heal.pc \in Cutting => branch[heal.ref] # 0
    /\ heal.pc \in Cutting \cup {"drop", "failed"} /\ heal.ref = "main" =>
          branch["main"] = heal.sha
    /\ heal.restored =>
          heal.pc \in {"drop", "failed"} /\ head = heal.ref /\ Clean

\* What the fix branch is at each dispatch, and that it is checked out.
FixInv ==
    /\ heal.pc \in {"apply", "commit", "push", "pr", "opened"} => head = "fix"
    /\ heal.pc \in Failing => head \in {heal.ref, "fix"}
    /\ heal.pc \in {"apply", "commit"} => branch["fix"] = heal.sha
    /\ heal.pc \in {"push", "pr"} =>
          commit[branch["fix"]] = Child(heal.sha, {heal.patch})
    /\ heal.pc \in {"pr", "opened"} => remote = branch["fix"]
    /\ heal.pc = "opened" => \E pr \in prs : pr.commit = remote /\ pr.patch = heal.patch

GitInv == MainInv /\ TreeInv /\ StartInv /\ FixInv /\ PrsExtendHead
=============================================================================
