--------------------------- MODULE PipelineProofs ---------------------------
(***************************************************************************)
(* What is proved of Pipeline for every value of its constants: types, and *)
(* the four properties of the runs, by the invariant PipelineInv.          *)
(***************************************************************************)
EXTENDS Pipeline, FiniteSetTheorems, SequenceTheorems, TLAPS

\* The results with some of them set are results.
LEMMA WithType ==
    ASSUME TypeOK, NEW r \in Runs, NEW stages \in SUBSET Stages, NEW result \in Results
    PROVE  With(r, stages, result) \in [Stages -> Results]
<1>1. run[r].res \in [Stages -> Results]
  BY DEF TypeOK, RunType
<1> QED
  BY <1>1 DEF With

\* The sets of stages the actions name.
LEMMA StageSets ==
    /\ BugStages \subseteq Stages /\ {"healer"} \cup BugStages \subseteq Stages
    /\ \A k \in {"evidence", "detective", "triage", "healer", "bugreport", "dedup",
                 "pii", "tracker"} : {k} \subseteq Stages
    /\ {"fresh", "skipped", "error", "ok"} \subseteq Results
  BY DEF BugStages, Stages, Results

\* The values the actions assign belong to the types.
LEMMA Elements ==
    /\ \A pc \in {"idle", "approval", "build", "evidence", "history", "triage", "fork",
                  "heal", "bug", "dedup", "gate", "tracker", "file", "scan", "post",
                  "ledger", "cleanup", "end"} : pc \in Pcs
    /\ \A log \in {"none", "local", "remote", "spooled"} : log \in Logs
    /\ \A b \in {"none", "heal", "bug"} : b \in Branches
    /\ \A outcome \in {"needs_attention", "healed", "pr_opened", "ticket_ready",
                       "ticket_created"} : outcome \in Outcomes
  BY DEF Pcs, Logs, Branches, Outcomes

\* The record of a run that was not called is well typed.
LEMMA NoRunType == NoRun \in RunType /\ [NoRun EXCEPT !.pc = "end", !.hit = TRUE] \in RunType
<1>1. (CHOOSE a \in Calls : TRUE) \in ArgType
  BY PipelineAssumption DEF PipelineAssumption
<1>2. [k \in Stages |-> "fresh"] \in [Stages -> Results]
  BY DEF Results
<1>3. [write |-> FALSE, gate |-> TRUE, mode |-> "suggest"] \in ConfigType
  BY DEF ConfigType
<1> HIDE DEF Results
<1>4. NoRun \in RunType
  BY <1>1, <1>2, <1>3, Elements DEF NoRun, RunType
<1> QED
  BY <1>4, Elements DEF RunType

\* Init establishes the types.
LEMMA TypeInit == Init => TypeOK
<1> SUFFICES ASSUME Init PROVE TypeOK
  OBVIOUS
<1>1. run \in [Runs -> RunType]
  BY NoRunType DEF Init
<1>2. budget \in [edits : 0..MaxEdits, changes : 0..MaxChanges]
  BY PipelineAssumption DEF Init, PipelineAssumption
<1> QED
  BY <1>1, <1>2, PipelineAssumption DEF Init, TypeOK, PipelineAssumption

\* A well typed record of a run in the place of another.
LEMMA Placed ==
    ASSUME TypeOK, NEW r \in Runs, NEW x \in RunType, run' = [run EXCEPT ![r] = x]
    PROVE  run' \in [Runs -> RunType]
  BY DEF TypeOK

\* Proceed keeps the type of the runs.
LEMMA ProceedType ==
    ASSUME TypeOK, NEW r \in Runs, NEW pc \in Pcs, NEW res \in [Stages -> Results],
           Proceed(r, pc, res)
    PROVE  run' \in [Runs -> RunType]
<1>0. run[r] \in RunType
  BY DEF TypeOK
<1>1. [run[r] EXCEPT !.pc = pc, !.res = res] \in RunType
  BY <1>0 DEF RunType
<1>2. run' = [run EXCEPT ![r] = [run[r] EXCEPT !.pc = pc, !.res = res]]
  BY DEF TypeOK, Proceed
<1> QED
  BY <1>1, <1>2, Placed

\* Ends, the return of a branch, keeps it too.
LEMMA EndsType ==
    ASSUME TypeOK, NEW r \in Runs, NEW pc \in Pcs, NEW stages \in SUBSET Stages,
           NEW result \in Results, NEW outcome \in Outcomes, Ends(r, pc, stages, result, outcome)
    PROVE  run' \in [Runs -> RunType]
<1> DEFINE res == With(r, stages, result)
<1>1. res \in [Stages -> Results]
  BY WithType
<1>2. run' = [run EXCEPT ![r].pc = pc, ![r].outcome = outcome, ![r].res = res]
  BY DEF Ends
<1> HIDE DEF res
<1>0. run[r] \in RunType
  BY DEF TypeOK
<1>3. [run[r] EXCEPT !.pc = pc, !.outcome = outcome, !.res = res] \in RunType
  BY <1>0, <1>1 DEF RunType
<1>4. run' = [run EXCEPT ![r] = [run[r] EXCEPT !.pc = pc, !.outcome = outcome, !.res = res]]
  BY <1>2 DEF TypeOK
<1> QED
  BY <1>3, <1>4, Placed

\* The steps of the host and of build_pipeline.
LEMMA HostType ==
    ASSUME TypeOK, NEW r \in Runs, Host(r) \/ Build(r) PROVE run' \in [Runs -> RunType]
<1> USE Elements
<1>1. run[r] \in RunType
  BY DEF TypeOK
<1>2. ASSUME NEW args \in Calls, Call(r, args) PROVE run' \in [Runs -> RunType]
  <2>1. PICK pc \in {"approval", "build"} :
           run' = [run EXCEPT ![r].pc = pc, ![r].args = args, ![r].tainted = dirty]
    BY <1>2 DEF Call
  <2>2. args \in ArgType /\ dirty \in SUBSET Files
    BY PipelineAssumption DEF PipelineAssumption, TypeOK
  <2>3. [run[r] EXCEPT !.pc = pc, !.args = args, !.tainted = dirty] \in RunType
    BY <1>1, <2>2 DEF RunType
  <2>4. run' = [run EXCEPT ![r] = [run[r] EXCEPT !.pc = pc, !.args = args, !.tainted = dirty]]
    BY <2>1 DEF TypeOK
  <2> QED
    BY <2>3, <2>4, Placed
<1>3. CASE Approve(r)
  <2>1. [run[r] EXCEPT !.pc = "build", !.approved = TRUE] \in RunType
    BY <1>1 DEF RunType
  <2>2. run' = [run EXCEPT ![r] = [run[r] EXCEPT !.pc = "build", !.approved = TRUE]]
    BY <1>3 DEF Approve, TypeOK
  <2> QED
    BY <2>1, <2>2, Placed
<1>4. CASE Deny(r)
  <2>1. [run[r] EXCEPT !.pc = "end"] \in RunType
    BY <1>1 DEF RunType
  <2>2. run' = [run EXCEPT ![r] = [run[r] EXCEPT !.pc = "end"]]
    BY <1>4 DEF Deny, TypeOK
  <2> QED
    BY <2>1, <2>2, Placed
<1>5. CASE Crash(r)
  <2>1. [run[r] EXCEPT !.pc = "end", !.hit = TRUE] \in RunType
    BY <1>1 DEF RunType
  <2>2. run' = [run EXCEPT ![r] = [run[r] EXCEPT !.pc = "end", !.hit = TRUE]]
    BY <1>5 DEF Crash, TypeOK
  <2> QED
    BY <2>1, <2>2, Placed
<1>6. CASE Build(r)
  <2>1. config \in ConfigType
    BY DEF TypeOK
  <2>2. [run[r] EXCEPT !.pc = "evidence", !.cfg = config] \in RunType
    BY <1>1, <2>1 DEF RunType
  <2>3. run' = [run EXCEPT ![r] = [run[r] EXCEPT !.pc = "evidence", !.cfg = config]]
    BY <1>6 DEF Build, TypeOK
  <2> QED
    BY <2>2, <2>3, Placed
<1>7. ASSUME NEW args \in Calls, Command(r, args) PROVE run' \in [Runs -> RunType]
  <2> DEFINE typed == [run[r] EXCEPT !.pc = "build", !.approved = TRUE, !.args = args,
                                     !.tainted = dirty]
  <2>1. args \in ArgType /\ dirty \in SUBSET Files
    BY PipelineAssumption DEF PipelineAssumption, TypeOK
  <2>2. typed \in RunType
    BY <1>1, <2>1 DEF RunType
  <2>3. run' = [run EXCEPT ![r] = typed]
    BY <1>7 DEF Command, TypeOK
  <2> QED
    BY <2>2, <2>3, Placed
<1> QED
  BY <1>2, <1>3, <1>4, <1>5, <1>6, <1>7 DEF Host

\* The stages up to the fork.
LEMMA CommonType ==
    ASSUME TypeOK, NEW r \in Runs, Common(r) PROVE run' \in [Runs -> RunType]
<1> USE Elements, StageSets
<1>1. run[r] \in RunType
  BY DEF TypeOK
<1>2. CASE Evidence(r)
  <2>1. ASSUME NEW result \in Results, Proceed(r, "history", With(r, {"evidence"}, result))
        PROVE  run' \in [Runs -> RunType]
    BY <2>1, WithType, ProceedType
  <2>2. ASSUME NEW log \in Logs, NEW result \in Results,
               run' = [run EXCEPT ![r].pc = "history", ![r].log = log,
                                  ![r].res = With(r, {"evidence"}, result)]
        PROVE  run' \in [Runs -> RunType]
    <3> DEFINE res == With(r, {"evidence"}, result)
    <3>1. res \in [Stages -> Results]
      BY WithType
    <3> HIDE DEF res
    <3>2. [run[r] EXCEPT !.pc = "history", !.log = log, !.res = res] \in RunType
      BY <1>1, <3>1 DEF RunType
    <3>3. run' = [run EXCEPT ![r] = [run[r] EXCEPT !.pc = "history", !.log = log, !.res = res]]
      BY <2>2 DEF TypeOK, res
    <3> QED
      BY <3>2, <3>3, Placed
  <2>3. ASSUME NEW wrote \in BOOLEAN,
               run' = [run EXCEPT ![r].pc = "history", ![r].hit = ~wrote,
                            ![r].log = IF wrote THEN "spooled" ELSE "none",
                            ![r].res = With(r, {"evidence"}, IF wrote THEN "ok" ELSE "error")]
        PROVE  run' \in [Runs -> RunType]
    <3> DEFINE res == With(r, {"evidence"}, IF wrote THEN "ok" ELSE "error")
               log == IF wrote THEN "spooled" ELSE "none"
    <3>1. res \in [Stages -> Results]
      BY WithType
    <3>2. log \in Logs
      OBVIOUS
    <3>3. run' = [run EXCEPT ![r].pc = "history", ![r].hit = ~wrote, ![r].log = log,
                             ![r].res = res]
      BY <2>3
    <3> HIDE DEF res, log
    <3>4. [run[r] EXCEPT !.pc = "history", !.hit = ~wrote, !.log = log, !.res = res] \in RunType
      BY <1>1, <3>1, <3>2 DEF RunType
    <3>5. run' = [run EXCEPT ![r] =
                    [run[r] EXCEPT !.pc = "history", !.hit = ~wrote, !.log = log, !.res = res]]
      BY <3>3 DEF TypeOK
    <3> QED
      BY <3>4, <3>5, Placed
  <2>4. Works \subseteq BOOLEAN
    BY DEF Works
  <2> QED
    BY <1>2, <2>1, <2>2, <2>3, <2>4 DEF Evidence
<1>3. CASE History(r)
  <2>1. ASSUME NEW result \in Results, NEW flaky \in BOOLEAN,
               run' = [run EXCEPT ![r].pc = "triage", ![r].verdict = flaky,
                                   ![r].res = With(r, {"detective"}, result)]
        PROVE  run' \in [Runs -> RunType]
    <3> DEFINE res == With(r, {"detective"}, result)
    <3>1. res \in [Stages -> Results]
      BY WithType
    <3> HIDE DEF res
    <3>2. [run[r] EXCEPT !.pc = "triage", !.verdict = flaky, !.res = res] \in RunType
      BY <1>1, <3>1 DEF RunType
    <3>3. run' = [run EXCEPT ![r] = [run[r] EXCEPT !.pc = "triage", !.verdict = flaky, !.res = res]]
      BY <2>1 DEF TypeOK, res
    <3> QED
      BY <3>2, <3>3, Placed
  <2> QED
    BY <1>3, <2>1, WithType, ProceedType DEF History
<1>4. CASE Triage(r)
  <2>1. ASSUME NEW c \in {"heal", "bug"},
               run' = [run EXCEPT ![r].pc = "fork", ![r].category = c,
                                     ![r].res = With(r, {"triage"}, "ok")]
        PROVE  run' \in [Runs -> RunType]
    <3> DEFINE res == With(r, {"triage"}, "ok")
    <3>1. res \in [Stages -> Results]
      BY WithType
    <3> HIDE DEF res
    <3>2. [run[r] EXCEPT !.pc = "fork", !.category = c, !.res = res] \in RunType
      BY <1>1, <3>1 DEF RunType
    <3>3. run' = [run EXCEPT ![r] = [run[r] EXCEPT !.pc = "fork", !.category = c, !.res = res]]
      BY <2>1 DEF TypeOK, res
    <3> QED
      BY <3>2, <3>3, Placed
  <2> QED
    BY <1>4, <2>1, WithType, ProceedType DEF Triage
<1>5. CASE Fork(r)
  <2>0. PICK cat \in Categories(r) :
           run' = [run EXCEPT ![r].pc = Destination(cat), ![r].category = cat,
                              ![r].branch = cat, ![r].res = Skipped(r, cat)]
    BY <1>5 DEF Fork
  <2> DEFINE res == Skipped(r, cat)
             dest == Destination(cat)
  <2>1. cat \in {"none", "heal", "bug"}
    BY <1>1 DEF Categories, RunType, Branches
  <2>2. res \in [Stages -> Results]
    BY <2>1, WithType DEF Skipped
  <2>3. dest \in Pcs
    BY <2>1 DEF Destination
  <2>4. run' = [run EXCEPT ![r].pc = dest, ![r].category = cat, ![r].branch = cat, ![r].res = res]
    BY <2>0
  <2> HIDE DEF res, dest
  <2>5. [run[r] EXCEPT !.pc = dest, !.category = cat, !.branch = cat, !.res = res] \in RunType
    BY <1>1, <2>1, <2>2, <2>3 DEF RunType
  <2>6. run' = [run EXCEPT ![r] =
                  [run[r] EXCEPT !.pc = dest, !.category = cat, !.branch = cat, !.res = res]]
    BY <2>4 DEF TypeOK
  <2> QED
    BY <2>5, <2>6, Placed
<1> QED
  BY <1>2, <1>3, <1>4, <1>5, HostType DEF Common

\* The branches.
LEMMA BranchType ==
    ASSUME TypeOK, NEW r \in Runs, HealBranch(r) \/ BugBranch(r)
    PROVE  run' \in [Runs -> RunType]
<1> USE Elements, StageSets
<1>1. run[r].res \in [Stages -> Results] /\ Blocked(r) \in [Stages -> Results]
  BY WithType DEF TypeOK, RunType, Blocked
<1>2. CASE HealBranch(r)
  BY <1>2, EndsType DEF HealBranch, HealSkipped, HealFails, Heal
<1>3. CASE BugReport(r) \/ Dedup(r) \/ Tracker(r)
  BY <1>1, <1>3, WithType, ProceedType, EndsType DEF BugReport, Dedup, Tracker
<1>4. CASE Coerce(r) \/ Gate(r)
  BY <1>1, <1>4, WithType, ProceedType DEF Coerce, Gate
<1>5. CASE CheckWrite(r) \/ ScanAgain(r) \/ Post(r) \/ PostFails(r)
  BY <1>1, <1>5, ProceedType, EndsType DEF CheckWrite, ScanAgain, Post, PostFails, Refuse
<1> QED
  BY <1>2, <1>3, <1>4, <1>5 DEF BugBranch

\* The end of a run.
LEMMA ClosingType ==
    ASSUME TypeOK, NEW r \in Runs, Closing(r) PROVE run' \in [Runs -> RunType]
<1>1. PICK pc \in {"cleanup", "end"}, new \in BOOLEAN :
         run' = [run EXCEPT ![r].pc = pc, ![r].hit = @ \/ new]
  BY DEF Closing, Ledger, Cleanup, Works
<1> DEFINE hit == run[r].hit \/ new
<1>2. run[r] \in RunType
  BY DEF TypeOK
<1>3. hit \in BOOLEAN
  OBVIOUS
<1>4. run' = [run EXCEPT ![r].pc = pc, ![r].hit = hit]
  BY <1>1
<1> HIDE DEF hit
<1>5. [run[r] EXCEPT !.pc = pc, !.hit = hit] \in RunType
  BY <1>2, <1>3, Elements DEF RunType
<1>6. run' = [run EXCEPT ![r] = [run[r] EXCEPT !.pc = pc, !.hit = hit]]
  BY <1>4 DEF TypeOK
<1> QED
  BY <1>5, <1>6, Placed

\* Every step keeps the types.
LEMMA TypeStep == TypeOK /\ [Next]_vars => TypeOK'
<1> SUFFICES ASSUME TypeOK, [Next]_vars PROVE TypeOK'
  OBVIOUS
<1>1. ASSUME NEW c \in ConfigType, EditConfig(c) PROVE TypeOK'
  <2>1. \A r \in Runs : run[r] \in RunType
    BY DEF TypeOK
  <2>2. \A r \in Runs, b \in BOOLEAN : [run[r] EXCEPT !.edited = b] \in RunType
    BY <2>1 DEF RunType
  <2>3. \A r \in Runs : (run[r].edited \/ run[r].pc \in {"approval", "build"}) \in BOOLEAN
    OBVIOUS
  <2>4. run' \in [Runs -> RunType]
    BY <1>1, <2>2, <2>3 DEF EditConfig
  <2> QED
    BY <1>1, <2>4, PipelineAssumption DEF EditConfig, PipelineAssumption, TypeOK
<1>2. ASSUME NEW f \in Files, ChangeFile(f) PROVE TypeOK'
  <2>1. \A r \in Runs : run[r] \in RunType /\ run[r].tainted \in SUBSET Files
    BY DEF TypeOK, RunType
  <2>2. \A r \in Runs, t \in SUBSET Files : [run[r] EXCEPT !.tainted = t] \in RunType
    BY <2>1 DEF RunType
  <2>3. \A r \in Runs : (run[r].tainted \cap dirty') \in SUBSET Files
    BY <2>1
  <2>4. run' \in [Runs -> RunType]
    BY <1>2, <2>2, <2>3 DEF ChangeFile
  <2> QED
    BY <1>2, <2>4, PipelineAssumption DEF ChangeFile, PipelineAssumption, TypeOK
<1>3. ASSUME NEW r \in Runs, Host(r) PROVE TypeOK'
  BY <1>3, HostType DEF TypeOK, Host, Call, Command, Approve, Deny, Crash, world
<1>4. ASSUME NEW r \in Runs, Common(r) PROVE TypeOK'
  BY <1>4, CommonType DEF TypeOK, Common, Build, Evidence, History, Triage, Fork, world
<1>5. ASSUME NEW r \in Runs, HealBranch(r) PROVE TypeOK'
  BY <1>5, BranchType DEF TypeOK, HealBranch, HealSkipped, HealFails, Heal, world
<1>6. ASSUME NEW r \in Runs, BugBranch(r) PROVE TypeOK'
  BY <1>6, BranchType
  DEF TypeOK, BugBranch, BugReport, Dedup, Coerce, Gate, Tracker, CheckWrite, ScanAgain,
      Post, PostFails, world
<1>7. ASSUME NEW r \in Runs, Closing(r) PROVE TypeOK'
  BY <1>7, ClosingType DEF TypeOK, Closing, Ledger, Cleanup, Row, world
<1>8. CASE UNCHANGED vars
  BY <1>8 DEF TypeOK, vars, world
<1> QED
  BY <1>1, <1>2, <1>3, <1>4, <1>5, <1>6, <1>7, <1>8 DEF Next, World

\* Every variable keeps its type, and a row of the ledger belongs to a run.
THEOREM TypeCorrect == Spec => []TypeOK
  BY TypeInit, TypeStep, PTL DEF Spec

-----------------------------------------------------------------------------
(* The inductive invariant.                                                *)

\* Before the first call nothing was done and nothing is recorded.
LEMMA InvInit == Init => PipelineInv
<1> SUFFICES ASSUME Init PROVE PipelineInv
  OBVIOUS
<1>1. ASSUME NEW r \in Runs PROVE RunInv(r)
  <2>1. run[r] = NoRun \/ (r \in Dead /\ run[r] = [NoRun EXCEPT !.pc = "end", !.hit = TRUE])
    BY <1>1 DEF Init
  <2>2. r \in Dead => run[r].hit /\ run[r].pc = "end"
    BY <1>1 DEF Init, NoRun
  <2>3. run[r].pc \in {"idle", "end"} /\ run[r].tainted = {}
        /\ run[r].outcome = "needs_attention" /\ \A k \in Stages : run[r].res[k] = "fresh"
    <3>1. CASE run[r] = NoRun
      BY <3>1 DEF NoRun
    <3>2. CASE run[r] = [NoRun EXCEPT !.pc = "end", !.hit = TRUE]
      <4>1. [NoRun EXCEPT !.pc = "end", !.hit = TRUE] \in RunType
        BY NoRunType
      <4>2. /\ run[r].pc = "end" /\ run[r].tainted = NoRun.tainted
            /\ run[r].outcome = NoRun.outcome /\ run[r].res = NoRun.res
        BY <3>2, NoRunType DEF RunType
      <4> QED
        BY <4>2 DEF NoRun
    <3> QED
      BY <2>1, <3>1, <3>2
  <2> QED
    BY <1>1, <2>2, <2>3, StageSets
    DEF Init, RunInv, Passed, ScannedBeforePost, Effects, Way, SpoolKept, AfterBranch,
        OnBugBranch, BeforeFork
<1> QED
  BY <1>1 DEF Init, PipelineInv

\* What a step of run r leaves alone.
Only(r) ==
    /\ \A s \in Runs \ {r} :
         /\ run'[s] = run[s]
         /\ s \in issues' <=> s \in issues
         /\ s \in prs' <=> s \in prs
         /\ s \in fed' <=> s \in fed
         /\ s \in spool' => s \in spool
    /\ UNCHANGED <<config, token, dirty>>

\* The other runs keep their part of the invariant ...
LEMMA OthersKeep ==
    ASSUME NEW r \in Runs, NEW s \in Runs \ {r}, Only(r), RunInv(s)
    PROVE  RunInv(s)'
<1> USE DEF Only
<1>1. Passed(s)' /\ ScannedBeforePost(s)' /\ Effects(s)' /\ Way(s)' /\ SpoolKept(s)'
  BY DEF RunInv, Passed, Escalates, HealMode, ScannedBeforePost, EvidenceFiles, Local,
         Effects, Way, SpoolKept
<1>2. Row(s)' = Row(s) /\ Row(s).run = s
  BY DEF Row
<1>3. run'[s].pc = "ledger" => RowTrue(Row(s))'
  BY <1>2 DEF RunInv, RowTrue
<1> QED
  BY <1>1, <1>3 DEF RunInv

\* ... and the rows of the ledger theirs.
LEMMA RowsKeep ==
    ASSUME NEW r \in Runs, TypeOK, Only(r), NEW row \in ledger, RowInv(row),
           \/ run[r].pc \notin {"cleanup", "end"}
           \/ /\ run'[r].pc \in {"cleanup", "end"} /\ UNCHANGED <<issues, prs, fed>>
    PROVE  RowInv(row)'
  BY DEF TypeOK, Only, RowInv, RowTrue

\* So a step of run r that writes no row has to keep its own part only.
LEMMA StepOfRun ==
    ASSUME NEW r \in Runs, TypeOK, PipelineInv, Only(r), UNCHANGED ledger, RunInv(r)',
           \/ run[r].pc \notin {"cleanup", "end"}
           \/ /\ run'[r].pc \in {"cleanup", "end"} /\ UNCHANGED <<issues, prs, fed>>
    PROVE  PipelineInv'
  BY OthersKeep, RowsKeep DEF PipelineInv

\* What neither an edit of the configuration nor a change of a file touches.
Same(r) ==
    /\ run'[r].pc = run[r].pc /\ run'[r].args = run[r].args /\ run'[r].cfg = run[r].cfg
    /\ run'[r].approved = run[r].approved /\ run'[r].log = run[r].log
    /\ run'[r].category = run[r].category /\ run'[r].branch = run[r].branch
    /\ run'[r].outcome = run[r].outcome /\ run'[r].res = run[r].res
    /\ run'[r].hit = run[r].hit

\* Edits, losses and calls of the host keep the invariant.
LEMMA WorldStep == ASSUME TypeOK, PipelineInv, World PROVE PipelineInv'
<1> USE DEF TypeOK
<1>1. ASSUME NEW c \in ConfigType, EditConfig(c) PROVE PipelineInv'
  <2>1. ASSUME NEW r \in Runs PROVE RunInv(r)'
    <3>1. /\ run'[r] = [run[r] EXCEPT !.edited = @ \/ run[r].pc \in {"approval", "build"}]
          /\ RunInv(r) /\ run[r] \in RunType
      BY <1>1, <2>1 DEF EditConfig, PipelineInv
    <3>2. Same(r) /\ run'[r].tainted = run[r].tainted
          /\ run'[r].edited = (run[r].edited \/ run[r].pc \in {"approval", "build"})
      BY <3>1 DEF Same, RunType
    <3>3. Passed(r)'
      BY <1>1, <3>1, <3>2 DEF EditConfig, Same, RunInv, Passed, Escalates, HealMode
    <3>4. ScannedBeforePost(r)'
      BY <1>1, <3>1, <3>2
      DEF EditConfig, Same, RunInv, ScannedBeforePost, EvidenceFiles, Local
    <3>5. Effects(r)' /\ Way(r)' /\ SpoolKept(r)'
      BY <1>1, <3>1, <3>2 DEF EditConfig, Same, RunInv, Effects, Way, SpoolKept
    <3>6. Row(r)' = Row(r)
      BY <3>2 DEF Same, Row
    <3>7. run'[r].pc = "ledger" => RowTrue(Row(r))'
      BY <1>1, <3>1, <3>2, <3>6 DEF EditConfig, Same, RunInv, RowTrue
    <3> QED
      BY <3>3, <3>4, <3>5, <3>7 DEF RunInv
  <2>2. ASSUME NEW row \in ledger PROVE RowInv(row)'
    BY <1>1, <2>2 DEF EditConfig, PipelineInv, RowInv, RowTrue, RunType
  <2> QED
    BY <1>1, <2>1, <2>2 DEF EditConfig, PipelineInv
<1>2. ASSUME NEW f \in Files, ChangeFile(f) PROVE PipelineInv'
  <2>1. ASSUME NEW r \in Runs PROVE RunInv(r)'
    <3>1. /\ run'[r] = [run[r] EXCEPT !.tainted = @ \cap dirty']
          /\ RunInv(r) /\ run[r] \in RunType
      BY <1>2, <2>1 DEF ChangeFile, PipelineInv
    <3>2. Same(r) /\ run'[r].tainted = run[r].tainted \cap dirty'
          /\ run'[r].edited = run[r].edited
      BY <3>1 DEF Same, RunType
    <3>3. Passed(r)'
      BY <1>2, <3>1, <3>2 DEF ChangeFile, Same, RunInv, Passed, Escalates, HealMode
    <3>4. ScannedBeforePost(r)'
      <4>1. EvidenceFiles(r)' = EvidenceFiles(r)
        BY <3>2 DEF Same, EvidenceFiles, Local
      <4>2. run'[r].tainted \subseteq run[r].tainted /\ run'[r].tainted \subseteq dirty'
        BY <3>2
      <4>3. run'[r].pc = run[r].pc /\ issues' = issues /\ ScannedBeforePost(r)
        BY <1>2, <3>1, <3>2 DEF ChangeFile, Same, RunInv
      <4>4. run[r].pc = "post" \/ r \in issues
              => run'[r].tainted \cap EvidenceFiles(r) = {}
        BY <4>2, <4>3 DEF ScannedBeforePost
      <4> QED
        BY <4>1, <4>2, <4>3, <4>4 DEF ScannedBeforePost
    <3>5. Effects(r)' /\ Way(r)' /\ SpoolKept(r)'
      <4>1. UNCHANGED <<issues, prs, fed, spool>> /\ Effects(r) /\ Way(r) /\ SpoolKept(r)
        BY <1>2, <3>1 DEF ChangeFile, RunInv
      <4> QED
        BY <3>2, <4>1 DEF Same, Effects, Way, SpoolKept
    <3>6. Row(r)' = Row(r)
      BY <3>2 DEF Same, Row
    <3>7. run'[r].pc = "ledger" => RowTrue(Row(r))'
      BY <1>2, <3>1, <3>2, <3>6 DEF ChangeFile, Same, RunInv, RowTrue
    <3> QED
      BY <3>3, <3>4, <3>5, <3>7 DEF RunInv
  <2>2. ASSUME NEW row \in ledger PROVE RowInv(row)'
    BY <1>2, <2>2 DEF ChangeFile, PipelineInv, RowInv, RowTrue, RunType
  <2> QED
    BY <1>2, <2>1, <2>2 DEF ChangeFile, PipelineInv
<1> QED
  BY <1>1, <1>2 DEF World

\* A step of the host.
LEMMA HostStep == ASSUME TypeOK, PipelineInv, NEW r \in Runs, Host(r) PROVE PipelineInv'
<1> USE DEF TypeOK
<1>1. run[r] \in RunType /\ RunInv(r)
  BY DEF PipelineInv
<1>2. ASSUME NEW args \in Calls, Call(r, args) PROVE PipelineInv'
  <2>1. Only(r)
    BY <1>2 DEF Only, Call, world
  <2>2. RunInv(r)'
    BY <1>1, <1>2
    DEF Call, world, RunType, RunInv, Passed, Escalates, HealMode, ScannedBeforePost, Effects,
        Way, SpoolKept, BeforeFork, OnBugBranch, AfterBranch
  <2> QED
    BY <1>2, <2>1, <2>2, StepOfRun DEF Call
<1>3. CASE Approve(r)
  <2>1. Only(r)
    BY <1>3 DEF Only, Approve, world
  <2>2. run'[r] = [run[r] EXCEPT !.pc = "build", !.approved = TRUE]
    BY <1>3 DEF Approve
  <2>3. /\ run[r].pc = "approval" /\ run'[r].pc = "build" /\ run'[r].approved
        /\ run'[r].log = run[r].log /\ run'[r].args = run[r].args
        /\ run'[r].tainted = run[r].tainted /\ run'[r].hit = run[r].hit
        /\ run'[r].res = run[r].res /\ run'[r].outcome = run[r].outcome
    BY <1>1, <1>3, <2>2 DEF Approve, RunType
  <2>4. RunInv(r)'
    BY <1>1, <1>3, <2>3
    DEF Approve, world, RunInv, Passed, ScannedBeforePost,
        EvidenceFiles, Local, Effects, Way, SpoolKept, BeforeFork, OnBugBranch, AfterBranch
  <2> QED
    BY <1>3, <2>1, <2>3, <2>4, StepOfRun DEF Approve
<1>5. CASE Deny(r)
  <2>1. Only(r)
    BY <1>5 DEF Only, Deny, world
  <2>2. run'[r] = [run[r] EXCEPT !.pc = "end"]
    BY <1>5 DEF Deny
  <2>3. /\ run[r].pc = "approval" /\ run'[r].pc = "end"
        /\ run'[r].edited = run[r].edited /\ run'[r].approved = run[r].approved
        /\ run'[r].log = run[r].log /\ run'[r].args = run[r].args
        /\ run'[r].tainted = run[r].tainted /\ run'[r].hit = run[r].hit
        /\ run'[r].res = run[r].res /\ run'[r].outcome = run[r].outcome
    BY <1>1, <1>5, <2>2 DEF Deny, RunType
  <2>4. RunInv(r)'
    BY <1>1, <1>5, <2>3
    DEF Deny, world, RunInv, Passed, ScannedBeforePost,
        EvidenceFiles, Local, Effects, Way, SpoolKept, BeforeFork, OnBugBranch, AfterBranch
  <2> QED
    BY <1>5, <2>1, <2>3, <2>4, StepOfRun DEF Deny
<1>4. CASE Crash(r)
  <2>1. Only(r)
    BY <1>4 DEF Only, Crash, world
  <2>2. RunInv(r)'
    BY <1>1, <1>4
    DEF Crash, world, RunType, RunInv, Passed, ScannedBeforePost,
        EvidenceFiles, Local, Effects, Way, SpoolKept, BeforeFork, OnBugBranch, AfterBranch
  <2>3. run'[r].pc = "end" /\ UNCHANGED <<issues, prs, fed, ledger>>
    BY <1>4 DEF Crash, RunType
  <2> QED
    BY <2>1, <2>2, <2>3, StepOfRun
<1>6. ASSUME NEW args \in Calls, Command(r, args) PROVE PipelineInv'
  <2>1. Only(r)
    BY <1>6 DEF Only, Command, world
  <2>2. /\ run[r].pc = "idle" /\ run'[r].pc = "build" /\ run'[r].approved
        /\ run'[r].args = args /\ run'[r].tainted = dirty /\ run'[r].log = run[r].log
        /\ run'[r].hit = run[r].hit /\ run'[r].res = run[r].res
        /\ run'[r].outcome = run[r].outcome
    BY <1>1, <1>6 DEF Command, RunType
  <2>3. RunInv(r)'
    BY <1>1, <1>6, <2>2
    DEF Command, world, RunInv, Passed, ScannedBeforePost, Effects, Way, SpoolKept, BeforeFork,
        OnBugBranch, AfterBranch
  <2> QED
    BY <1>6, <2>1, <2>2, <2>3, StepOfRun DEF Command
<1> QED
  BY <1>2, <1>3, <1>4, <1>5, <1>6 DEF Host

\* A run on its way, from the evidence to the ledger, that goes on to `pc'.
OnItsWay == {"evidence", "history", "triage", "fork", "heal", "ledger"} \cup OnBugBranch

\* What the stages leave alone.
Kept(r) ==
    /\ run'[r].args = run[r].args /\ run'[r].cfg = run[r].cfg
    /\ run'[r].approved = run[r].approved /\ run'[r].edited = run[r].edited
    /\ run'[r].tainted = run[r].tainted

\* What Proceed changes, field by field.
LEMMA ProceedFields ==
    ASSUME TypeOK, NEW r \in Runs, NEW pc, NEW res, Proceed(r, pc, res)
    PROVE  /\ \A s \in Runs \ {r} : run'[s] = run[s]
           /\ Kept(r) /\ run'[r].pc = pc /\ run'[r].res = res
           /\ run'[r].log = run[r].log /\ run'[r].hit = run[r].hit
           /\ run'[r].outcome = run[r].outcome
           /\ run'[r].category = run[r].category /\ run'[r].branch = run[r].branch
  BY DEF TypeOK, RunType, Proceed, Kept

\* What Ends changes, field by field.
LEMMA EndsFields ==
    ASSUME TypeOK, NEW r \in Runs, NEW pc, NEW stages, NEW result, NEW outcome,
           Ends(r, pc, stages, result, outcome)
    PROVE  /\ \A s \in Runs \ {r} : run'[s] = run[s]
           /\ Kept(r) /\ run'[r].pc = pc /\ run'[r].res = With(r, stages, result)
           /\ run'[r].log = run[r].log /\ run'[r].hit = run[r].hit
           /\ run'[r].outcome = outcome
           /\ run'[r].category = run[r].category /\ run'[r].branch = run[r].branch
<1> DEFINE res == With(r, stages, result)
<1>1. run' = [run EXCEPT ![r].pc = pc, ![r].outcome = outcome, ![r].res = res]
  BY DEF Ends
<1> HIDE DEF res
<1>2. /\ \A s \in Runs \ {r} : run'[s] = run[s]
      /\ Kept(r) /\ run'[r].pc = pc /\ run'[r].res = res
      /\ run'[r].log = run[r].log /\ run'[r].hit = run[r].hit
      /\ run'[r].outcome = outcome
      /\ run'[r].category = run[r].category /\ run'[r].branch = run[r].branch
  BY <1>1 DEF TypeOK, RunType, Kept
<1> QED
  BY <1>2 DEF res

\* What is left to show of a stage that has no effect outside: the results, and
\* what the request needs.
LEMMA StageStep ==
    ASSUME NEW r \in Runs, TypeOK, PipelineInv, Kept(r),
           \A s \in Runs \ {r} : run'[s] = run[s],
           UNCHANGED <<world, issues, prs, fed, ledger, spool>>,
           run'[r].log = run[r].log, run'[r].hit = run[r].hit,
           run[r].pc \in OnItsWay \ {"evidence", "ledger"}, run'[r].pc \in OnItsWay \ {"evidence"},
           run'[r].pc \in {"file", "scan", "post"} => run[r].cfg.write,
           run'[r].pc = "post" => Clean(r),
           Way(r)', run'[r].pc = "ledger" => RowTrue(Row(r))'
    PROVE  PipelineInv'
<1>1. Only(r)
  BY DEF Only, world
<1>2. RunInv(r)
  BY DEF PipelineInv
<1>3. r \notin issues /\ r \notin prs /\ r \notin fed
  BY <1>2 DEF RunInv, Effects, OnItsWay, OnBugBranch, AfterBranch
<1>4. Passed(r)'
  BY <1>2, <1>3 DEF RunInv, Passed, Escalates, HealMode, world, Kept, OnItsWay, OnBugBranch
<1>5. ScannedBeforePost(r)'
  <2>1. EvidenceFiles(r)' = EvidenceFiles(r)
    BY DEF Kept, EvidenceFiles, Local
  <2>2. run[r].tainted \subseteq dirty /\ dirty' = dirty
    BY <1>2 DEF RunInv, ScannedBeforePost, world
  <2>3. run'[r].pc = "post" => run[r].tainted \cap EvidenceFiles(r) = {}
    BY <2>2 DEF Clean
  <2> QED
    BY <1>3, <2>1, <2>2, <2>3 DEF ScannedBeforePost, Kept
<1>6. Effects(r)' /\ SpoolKept(r)'
  BY <1>2, <1>3 DEF RunInv, Effects, SpoolKept, OnItsWay, OnBugBranch
<1>7. RunInv(r)'
  BY <1>4, <1>5, <1>6 DEF RunInv
<1> QED
  BY <1>1, <1>7, StepOfRun DEF OnItsWay, OnBugBranch

\* What the stages before the fork do to their run.
LEMMA EvidenceFields ==
    ASSUME TypeOK, NEW r \in Runs, Evidence(r)
    PROVE  /\ Kept(r) /\ run[r].pc = "evidence" /\ run'[r].pc = "history"
           /\ run'[r].outcome = run[r].outcome
           /\ UNCHANGED <<world, issues, prs, fed, ledger>>
           /\ \A s \in Runs \ {r} : run'[s] = run[s] /\ (s \in spool' => s \in spool)
           /\ \A k \in BugStages \cup {"healer"} : run'[r].res[k] = run[r].res[k]
           /\ r \in spool' => r \in spool \/ run'[r].log = "spooled" \/ run'[r].hit
<1> USE DEF TypeOK
<1> DEFINE res(x) == With(r, {"evidence"}, x)
<1>1. \A x : \A k \in BugStages \cup {"healer"} : res(x)[k] = run[r].res[k]
  BY DEF With, BugStages, Stages
<1>2. run[r].pc = "evidence" /\ UNCHANGED <<world, issues, prs, fed, ledger>>
  BY DEF Evidence
<1> HIDE DEF res
<1>3. CASE run' = [run EXCEPT ![r].pc = "history", ![r].log = run[r].args.log,
                              ![r].res = res("ok")] /\ UNCHANGED spool
  BY <1>1, <1>2, <1>3 DEF Kept, RunType
<1>4. ASSUME NEW x, run' = [run EXCEPT ![r].pc = "history", ![r].res = res(x)], UNCHANGED spool
      PROVE  /\ Kept(r) /\ run'[r].pc = "history" /\ run'[r].outcome = run[r].outcome
             /\ \A s \in Runs \ {r} : run'[s] = run[s]
             /\ \A k \in BugStages \cup {"healer"} : run'[r].res[k] = run[r].res[k]
  BY <1>1, <1>4 DEF Kept, RunType
<1>5. ASSUME NEW x, NEW log, NEW hit,
             run' = [run EXCEPT ![r].pc = "history", ![r].hit = hit, ![r].log = log,
                                ![r].res = res(x)]
      PROVE  /\ Kept(r) /\ run'[r].pc = "history" /\ run'[r].outcome = run[r].outcome
             /\ run'[r].hit = hit /\ run'[r].log = log
             /\ \A s \in Runs \ {r} : run'[s] = run[s]
             /\ \A k \in BugStages \cup {"healer"} : run'[r].res[k] = run[r].res[k]
  BY <1>1, <1>5 DEF Kept, RunType
<1>6. CASE \E x \in {"skipped", "error"} : Proceed(r, "history", res(x)) /\ UNCHANGED spool
  BY <1>2, <1>4, <1>6 DEF Proceed
<1>7. CASE \E old \in SUBSET {s \in spool : run[s].pc = "end"}, wrote \in Works :
               /\ spool' = (spool \ old) \cup {r}
               /\ run' = [run EXCEPT ![r].pc = "history", ![r].hit = ~wrote,
                            ![r].log = IF wrote THEN "spooled" ELSE "none",
                            ![r].res = res(IF wrote THEN "ok" ELSE "error")]
  <2>1. PICK old \in SUBSET {s \in spool : run[s].pc = "end"}, wrote \in Works :
               /\ spool' = (spool \ old) \cup {r}
               /\ run' = [run EXCEPT ![r].pc = "history", ![r].hit = ~wrote,
                            ![r].log = IF wrote THEN "spooled" ELSE "none",
                            ![r].res = res(IF wrote THEN "ok" ELSE "error")]
    BY <1>7
  <2>2. wrote \in BOOLEAN
    BY DEF Works
  <2>3. CASE wrote
    <3>1. run' = [run EXCEPT ![r].pc = "history", ![r].hit = FALSE,
                             ![r].log = "spooled", ![r].res = res("ok")]
      BY <2>1, <2>3
    <3>2. /\ Kept(r) /\ run'[r].pc = "history" /\ run'[r].outcome = run[r].outcome
          /\ run'[r].hit = FALSE /\ run'[r].log = "spooled"
          /\ \A s \in Runs \ {r} : run'[s] = run[s]
          /\ \A k \in BugStages \cup {"healer"} : run'[r].res[k] = run[r].res[k]
      BY <1>5, <3>1
    <3> QED
      BY <1>2, <2>1, <3>2
  <2>4. CASE ~wrote
    <3>1. run' = [run EXCEPT ![r].pc = "history", ![r].hit = TRUE,
                             ![r].log = "none", ![r].res = res("error")]
      BY <2>1, <2>4
    <3>2. /\ Kept(r) /\ run'[r].pc = "history" /\ run'[r].outcome = run[r].outcome
          /\ run'[r].hit = TRUE /\ run'[r].log = "none"
          /\ \A s \in Runs \ {r} : run'[s] = run[s]
          /\ \A k \in BugStages \cup {"healer"} : run'[r].res[k] = run[r].res[k]
      BY <1>5, <3>1
    <3> QED
      BY <1>2, <2>1, <3>2
  <2> QED
    BY <2>2, <2>3, <2>4
<1>8. \/ run' = [run EXCEPT ![r].pc = "history", ![r].log = run[r].args.log,
                              ![r].res = res("ok")] /\ UNCHANGED spool
      \/ \E x \in {"skipped", "error"} : Proceed(r, "history", res(x)) /\ UNCHANGED spool
      \/ \E old \in SUBSET {s \in spool : run[s].pc = "end"}, wrote \in Works :
               /\ spool' = (spool \ old) \cup {r}
               /\ run' = [run EXCEPT ![r].pc = "history", ![r].hit = ~wrote,
                            ![r].log = IF wrote THEN "spooled" ELSE "none",
                            ![r].res = res(IF wrote THEN "ok" ELSE "error")]
  BY ZenonT(30) DEF Evidence, res
<1> QED
  BY <1>3, <1>6, <1>7, <1>8

LookedUp(r) ==
    /\ Kept(r) /\ run'[r].log = run[r].log /\ run'[r].hit = run[r].hit
    /\ run'[r].outcome = run[r].outcome
    /\ run'[r].pc \in {"triage", "fork"}
    /\ \A s \in Runs \ {r} : run'[s] = run[s]
    /\ \A k \in BugStages \cup {"healer"} : run'[r].res[k] = run[r].res[k]

\* What _history and _triage change: their own results and the category.
LEMMA LookupFields ==
    ASSUME TypeOK, NEW r \in Runs, History(r) \/ Triage(r)
    PROVE  /\ LookedUp(r) /\ run[r].pc \in {"history", "triage"}
           /\ UNCHANGED <<world, issues, prs, fed, ledger, spool>>
<1> DEFINE res(stage, x) == With(r, {stage}, x)
<1>1. \A x : \A stage \in {"detective", "triage"}, k \in BugStages \cup {"healer"} :
         res(stage, x)[k] = run[r].res[k]
  BY DEF With, BugStages, Stages
<1>2. /\ run[r].pc \in {"history", "triage"}
      /\ UNCHANGED <<world, issues, prs, fed, ledger, spool>>
  BY DEF History, Triage
<1> HIDE DEF res
<1>3. ASSUME NEW x, NEW stage \in {"detective", "triage"}, NEW pc \in {"triage", "fork"},
             Proceed(r, pc, res(stage, x))
      PROVE  LookedUp(r)
  <2>1. /\ \A s \in Runs \ {r} : run'[s] = run[s]
        /\ Kept(r) /\ run'[r].pc = pc /\ run'[r].res = res(stage, x)
        /\ run'[r].log = run[r].log /\ run'[r].hit = run[r].hit
        /\ run'[r].outcome = run[r].outcome
    BY <1>3, ProceedFields
  <2> QED
    BY <1>1, <2>1 DEF LookedUp
<1>4. ASSUME NEW x, NEW v, run' = [run EXCEPT ![r].pc = "triage", ![r].verdict = v,
                                              ![r].res = res("detective", x)]
      PROVE  LookedUp(r)
  BY <1>1, <1>4 DEF TypeOK, LookedUp, Kept, RunType
<1>5. ASSUME NEW x, NEW c, run' = [run EXCEPT ![r].pc = "fork", ![r].category = c,
                                              ![r].res = res("triage", x)]
      PROVE  LookedUp(r)
  BY <1>1, <1>5 DEF TypeOK, LookedUp, Kept, RunType
<1>6. CASE History(r)
  <2>1. ASSUME NEW x \in {"ok", "error"}, NEW v \in BOOLEAN,
               run' = [run EXCEPT ![r].pc = "triage", ![r].verdict = v,
                                  ![r].res = With(r, {"detective"}, x)]
        PROVE  LookedUp(r)
    BY <1>4, <2>1 DEF res
  <2>2. Proceed(r, "triage", With(r, {"detective"}, "skipped")) => LookedUp(r)
    BY <1>3 DEF res
  <2> QED
    BY <1>2, <1>6, <2>1, <2>2 DEF History
<1>7. CASE Triage(r)
  <2>1. CASE \E x \in {"skipped", "error"} : Proceed(r, "fork", res("triage", x))
    BY <1>2, <1>3, <2>1
  <2>2. CASE \E c \in {"heal", "bug"} :
          run' = [run EXCEPT ![r].pc = "fork", ![r].category = c, ![r].res = res("triage", "ok")]
    BY <1>2, <1>5, <2>2
  <2> QED
    BY <1>7, <2>1, <2>2 DEF Triage, res
<1> QED
  BY <1>2, <1>6, <1>7

\* _evidence keeps the invariant, a write that fails included.
LEMMA EvidenceStep == ASSUME TypeOK, PipelineInv, NEW r \in Runs, Evidence(r) PROVE PipelineInv'
<1>1. RunInv(r) /\ r \notin spool
  BY EvidenceFields DEF PipelineInv, RunInv, SpoolKept
<1>2. Only(r)
  BY EvidenceFields DEF Only, world
<1>3. Passed(r)'
  BY <1>1, EvidenceFields
  DEF Kept, RunInv, Passed, Escalates, HealMode, world, Effects, AfterBranch
<1>4. ScannedBeforePost(r)' /\ Effects(r)' /\ SpoolKept(r)'
  BY <1>1, EvidenceFields
  DEF Kept, world, RunInv, ScannedBeforePost, Effects, AfterBranch, SpoolKept
<1>5. Way(r)'
  BY <1>1, EvidenceFields DEF RunInv, Way, BeforeFork, AfterBranch, OnBugBranch
<1> QED
  BY <1>2, <1>3, <1>4, <1>5, EvidenceFields, StepOfRun DEF RunInv

\* The stages up to the fork keep the invariant.
LEMMA CommonStep == ASSUME TypeOK, PipelineInv, NEW r \in Runs, Common(r) PROVE PipelineInv'
<1> USE DEF TypeOK
<1>1. run[r] \in RunType /\ RunInv(r)
  BY DEF PipelineInv
<1>2. CASE Build(r)
  <2>1. Only(r)
    BY <1>2 DEF Only, Build, world
  <2>2. /\ run[r].pc = "build" /\ run'[r].pc = "evidence" /\ run'[r].cfg = config
        /\ run'[r].edited = run[r].edited /\ run'[r].approved = run[r].approved
        /\ run'[r].log = run[r].log /\ run'[r].args = run[r].args
        /\ run'[r].tainted = run[r].tainted /\ run'[r].hit = run[r].hit
        /\ run'[r].res = run[r].res /\ run'[r].outcome = run[r].outcome
    BY <1>1, <1>2 DEF Build, RunType
  <2>3. Passed(r)'
    BY <1>1, <1>2, <2>2 DEF Build, world, RunInv, Passed, Escalates, HealMode, Effects,
                           AfterBranch
  <2>4. ScannedBeforePost(r)' /\ Effects(r)' /\ SpoolKept(r)'
    BY <1>1, <1>2, <2>2
    DEF Build, world, RunInv, ScannedBeforePost, EvidenceFiles, Local, Effects, AfterBranch,
        SpoolKept
  <2>5. Way(r)'
    BY <1>1, <2>2 DEF RunInv, Way, BeforeFork, AfterBranch, OnBugBranch
  <2> QED
    BY <1>2, <2>1, <2>2, <2>3, <2>4, <2>5, StepOfRun DEF Build, RunInv
<1>3. CASE Evidence(r)
  BY <1>3, EvidenceStep
<1>4. CASE History(r) \/ Triage(r)
  <2>1. Way(r)'
    BY <1>1, <1>4, LookupFields DEF LookedUp, RunInv, Way, BeforeFork, AfterBranch, OnBugBranch
  <2> QED
    BY <1>4, <2>1, LookupFields, StageStep DEF LookedUp, OnItsWay, OnBugBranch
<1>5. CASE Fork(r)
  <2>0. PICK cat \in Categories(r) :
           run' = [run EXCEPT ![r].pc = Destination(cat), ![r].category = cat,
                              ![r].branch = cat, ![r].res = Skipped(r, cat)]
    BY <1>5 DEF Fork
  <2> DEFINE res == Skipped(r, cat)
             dest == Destination(cat)
  <2>1. run' = [run EXCEPT ![r].pc = dest, ![r].category = cat, ![r].branch = cat, ![r].res = res]
    BY <2>0
  <2>2. /\ cat \in {"none", "heal", "bug"}
        /\ dest \in {"ledger", "heal", "bug"} /\ (dest = "ledger" <=> cat = "none")
        /\ cat # "none" => dest = cat
    BY DEF Categories, Destination, RunType, Branches
  <2>3. /\ cat = "heal" => res = With(r, BugStages, "skipped")
        /\ cat = "bug" => res = With(r, {"healer"}, "skipped")
        /\ cat = "none" => res = With(r, {"healer"} \cup BugStages, "skipped")
    BY <2>2 DEF Skipped
  <2>4. \A k \in {"healer"} \cup BugStages : run[r].res[k] = "fresh"
    BY <1>1, <1>5 DEF Fork, RunInv, Way, BeforeFork
  <2> HIDE DEF res, dest
  <2>5. /\ Kept(r) /\ run'[r].log = run[r].log /\ run'[r].hit = run[r].hit
        /\ run'[r].outcome = run[r].outcome /\ run[r].pc = "fork" /\ run'[r].pc = dest
        /\ run'[r].category = cat /\ run'[r].branch = cat /\ run'[r].res = res
        /\ UNCHANGED <<world, issues, prs, fed, ledger, spool>>
        /\ \A s \in Runs \ {r} : run'[s] = run[s]
    BY <1>5, <2>1 DEF Fork, RunType, Kept
  <2>6. /\ cat \in {"heal", "none"} => \A k \in BugStages : res[k] = "skipped"
        /\ cat = "bug" => /\ res["healer"] = "skipped"
                          /\ \A k \in BugStages : res[k] = "fresh"
    BY <2>2, <2>3, <2>4 DEF With, BugStages, Stages
  <2>7. run[r].outcome = "needs_attention"
    BY <1>1, <2>5 DEF RunInv, Way, AfterBranch
  <2>8. Way(r)'
    BY <2>2, <2>5, <2>6, <2>7 DEF Way, BeforeFork, AfterBranch, OnBugBranch, BugStages
  <2>9. run'[r].pc = "ledger" => RowTrue(Row(r))'
    BY <1>1, <2>2, <2>5, <2>6, <2>7
    DEF RowTrue, Row, RunInv, Effects, AfterBranch, BugStages
  <2> QED
    BY <2>2, <2>5, <2>8, <2>9, StageStep DEF OnItsWay, OnBugBranch
<1> QED
  BY <1>2, <1>3, <1>4, <1>5 DEF Common

\* The results with those of some stages set.
LEMMA WithValues ==
    ASSUME NEW r \in Runs, NEW stages \in SUBSET Stages, NEW result
    PROVE  /\ \A k \in stages : With(r, stages, result)[k] = result
           /\ \A k \in Stages \ stages : With(r, stages, result)[k] = run[r].res[k]
  BY DEF With

\* What holds on the branch of a run at one of its stages.
LEMMA BranchFacts ==
    ASSUME PipelineInv, NEW r \in Runs, run[r].pc \in {"heal"} \cup OnBugBranch
    PROVE  /\ r \notin issues /\ r \notin prs /\ r \notin fed
           /\ run[r].outcome = "needs_attention" /\ run[r].branch = run[r].category
           /\ run[r].pc = "heal" =>
                run[r].branch = "heal" /\ \A k \in BugStages : run[r].res[k] = "skipped"
           /\ run[r].pc # "heal" => run[r].branch = "bug" /\ run[r].res["healer"] = "skipped"
           /\ run[r].pc \in {"bug", "dedup", "gate"} => run[r].res["pii"] = "fresh"
           /\ run[r].pc \notin {"heal", "bug"} => run[r].res["bugreport"] # "fresh"
           /\ run[r].pc \in {"tracker", "file", "scan", "post"} =>
                run[r].res["pii"] \in {"ok", "skipped"}
  BY DEF PipelineInv, RunInv, Effects, Way, AfterBranch, OnBugBranch

\* The stages of the heal branch keep the invariant.
LEMMA HealStep == ASSUME TypeOK, PipelineInv, NEW r \in Runs, HealBranch(r) PROVE PipelineInv'
<1>1. run[r].pc = "heal" /\ RunInv(r)
  BY DEF HealBranch, HealSkipped, HealFails, Heal, PipelineInv
<1>2. /\ r \notin issues /\ run[r].branch = "heal" /\ run[r].category = "heal"
      /\ \A k \in BugStages : run[r].res[k] = "skipped"
  BY <1>1, BranchFacts
<1>3. \E result, outcome : Ends(r, "ledger", {"healer"}, result, outcome)
  BY DEF HealBranch, HealSkipped, HealFails, Heal
<1>4. PICK result, outcome : Ends(r, "ledger", {"healer"}, result, outcome)
  BY <1>3
<1>5. /\ \A s \in Runs \ {r} : run'[s] = run[s]
      /\ Kept(r) /\ run'[r].pc = "ledger" /\ run'[r].res = With(r, {"healer"}, result)
      /\ run'[r].log = run[r].log /\ run'[r].hit = run[r].hit
      /\ run'[r].outcome = outcome
      /\ run'[r].category = "heal" /\ run'[r].branch = "heal"
  BY <1>2, <1>4, EndsFields
<1>6. \A k \in BugStages : run'[r].res[k] = "skipped"
  <2>1. BugStages \subseteq Stages \ {"healer"} /\ {"healer"} \subseteq Stages
    BY DEF BugStages, Stages
  <2>2. \A k \in Stages \ {"healer"} : run'[r].res[k] = run[r].res[k]
    BY <1>5, <2>1, WithValues
  <2> QED
    BY <1>2, <2>1, <2>2
<1>7. UNCHANGED <<world, spool, issues, ledger>> /\ prs \subseteq prs' /\ prs' \subseteq prs \cup {r}
      /\ fed \subseteq fed' /\ fed' \subseteq fed \cup {r}
  BY DEF HealBranch, HealSkipped, HealFails, Heal
<1>8. Only(r)
  BY <1>5, <1>7 DEF Only, world
<1>9. /\ r \in prs' => HealMode(run[r].args, run[r].cfg) = "pr"
      /\ outcome = "pr_opened" => r \in prs'
      /\ r \in fed' => outcome \in {"healed", "pr_opened"}
      /\ outcome \in {"needs_attention", "healed", "pr_opened"}
  <2>1. r \notin prs /\ r \notin fed
    BY <1>1, BranchFacts
  <2>2. CASE UNCHANGED <<prs, fed>> /\ outcome = "needs_attention"
    BY <2>1, <2>2
  <2>3. CASE Heal(r)
    <3>1. PICK told \in {TRUE, "lost" \notin Troubles} :
            \/ /\ HealMode(run[r].args, run[r].cfg) = "pr"
               /\ prs' = prs \cup {r}
               /\ Ends(r, "ledger", {"healer"}, "ok", IF told THEN "pr_opened" ELSE "healed")
            \/ /\ Ends(r, "ledger", {"healer"}, "ok", "healed")
               /\ UNCHANGED prs
      BY <2>3 DEF Heal
    <3>2. \A x, y : Ends(r, "ledger", {"healer"}, x, y) => run'[r].outcome = y
      BY EndsFields
    <3> QED
      BY <1>5, <2>1, <3>1, <3>2
  <2>4. CASE HealSkipped(r) \/ HealFails(r)
    <3>1. \A x, y : Ends(r, "ledger", {"healer"}, x, y) => run'[r].outcome = y
      BY EndsFields
    <3> QED
      BY <1>5, <2>2, <2>4, <3>1 DEF HealSkipped, HealFails
  <2> QED
    BY <2>3, <2>4 DEF HealBranch
<1>10. Passed(r)'
  BY <1>1, <1>2, <1>5, <1>7, <1>9 DEF Kept, RunInv, Passed, Escalates, HealMode, world
<1>11. ScannedBeforePost(r)' /\ Effects(r)' /\ SpoolKept(r)'
  BY <1>1, <1>2, <1>5, <1>7
  DEF Kept, world, RunInv, ScannedBeforePost, Effects, AfterBranch, SpoolKept
<1>12. Way(r)'
  BY <1>5 DEF Way, BeforeFork, AfterBranch, OnBugBranch
<1>13. RowTrue(Row(r))'
  BY <1>2, <1>5, <1>6, <1>7, <1>9 DEF RowTrue, Row, BugStages
<1>14. RunInv(r)'
  BY <1>10, <1>11, <1>12, <1>13 DEF RunInv
<1> QED
  BY <1>1, <1>7, <1>8, <1>14, StepOfRun

\* A stage of the bug branch that goes on, or is refused.
LEMMA BugStep == ASSUME TypeOK, PipelineInv, NEW r \in Runs, BugBranch(r), ~Post(r)
                 PROVE  PipelineInv'
<1>1. run[r].pc \in OnBugBranch /\ UNCHANGED <<world, spool, issues, prs, fed, ledger>>
  BY DEF BugBranch, BugReport, Dedup, Coerce, Gate, Tracker, CheckWrite, ScanAgain,
         PostFails, OnBugBranch
<1>2. RunInv(r)
  BY DEF PipelineInv
<1>3. ASSUME NEW pc, NEW res, Proceed(r, pc, res),
             /\ pc \in OnBugBranch \ {"bug"}
             /\ res["healer"] = "skipped" /\ res["bugreport"] # "fresh"
             /\ pc \in {"dedup", "gate"} => res["pii"] = "fresh"
             /\ pc \notin {"dedup", "gate"} => res["pii"] \in {"ok", "skipped"}
             /\ pc \in {"file", "scan", "post"} => run[r].cfg.write
             /\ pc = "post" => Clean(r)
      PROVE  PipelineInv'
  <2>1. /\ \A s \in Runs \ {r} : run'[s] = run[s]
        /\ Kept(r) /\ run'[r].pc = pc /\ run'[r].res = res
        /\ run'[r].log = run[r].log /\ run'[r].hit = run[r].hit
        /\ run'[r].outcome = run[r].outcome
        /\ run'[r].category = run[r].category /\ run'[r].branch = run[r].branch
    BY <1>3, ProceedFields
  <2>2. Way(r)'
    BY <1>1, <1>3, <2>1, BranchFacts DEF Way, OnBugBranch, BeforeFork, AfterBranch
  <2> QED
    BY <1>1, <1>3, <2>1, <2>2, StageStep DEF OnItsWay, OnBugBranch
<1>4. ASSUME /\ \A s \in Runs \ {r} : run'[s] = run[s]
             /\ Kept(r) /\ run'[r].pc = "ledger"
             /\ run'[r].log = run[r].log /\ run'[r].hit = run[r].hit
             /\ run'[r].category = run[r].category /\ run'[r].branch = run[r].branch,
             run'[r].outcome \in {"needs_attention", "ticket_ready"},
             /\ run'[r].res["healer"] = "skipped" /\ run'[r].res["bugreport"] # "fresh"
             /\ run'[r].res["pii"] = "error" =>
                  run'[r].res["tracker"] = "skipped" /\ run'[r].outcome = "needs_attention"
             /\ run'[r].outcome = "ticket_ready" => run'[r].res["pii"] \in {"ok", "skipped"}
      PROVE  PipelineInv'
  <2>1. Way(r)'
    BY <1>4 DEF Way, OnBugBranch, BeforeFork, AfterBranch
  <2>2. RowTrue(Row(r))'
    BY <1>1, <1>4, BranchFacts DEF RowTrue, Row, OnBugBranch
  <2> QED
    BY <1>1, <1>4, <2>1, <2>2, StageStep DEF OnItsWay, OnBugBranch
<1>5. ASSUME NEW stages \in SUBSET Stages, NEW result,
             NEW outcome \in {"needs_attention", "ticket_ready"},
             Ends(r, "ledger", stages, result, outcome),
             /\ With(r, stages, result)["healer"] = "skipped"
             /\ With(r, stages, result)["bugreport"] # "fresh"
             /\ With(r, stages, result)["pii"] # "error"
             /\ outcome = "ticket_ready" => With(r, stages, result)["pii"] \in {"ok", "skipped"}
      PROVE  PipelineInv'
  BY <1>4, <1>5, EndsFields
<1>6. \A k \in {"bugreport", "dedup", "pii", "tracker", "healer"} : k \in Stages
  BY DEF Stages, BugStages
<1>7. ASSUME NEW k \in {"bugreport", "dedup", "pii", "tracker"}, NEW result
      PROVE  /\ With(r, {k}, result)[k] = result
             /\ \A l \in {"bugreport", "dedup", "pii", "tracker", "healer"} \ {k} :
                  With(r, {k}, result)[l] = run[r].res[l]
  <2>1. {k} \in SUBSET Stages /\ k \in {k}
    BY <1>6, <1>7
  <2>2. \A l \in {"bugreport", "dedup", "pii", "tracker", "healer"} \ {k} : l \in Stages \ {k}
    BY <1>6
  <2> QED
    BY <2>1, <2>2, WithValues
<1>8. CASE BugReport(r)
  <2>1. run[r].pc = "bug"
    BY <1>8 DEF BugReport
  <2>2. CASE Ends(r, "ledger", {"bugreport"}, "error", "needs_attention")
    BY <1>5, <1>6, <1>7, <2>1, <2>2, BranchFacts DEF OnBugBranch
  <2>3. CASE Proceed(r, "dedup", With(r, {"bugreport"}, "ok"))
    BY <1>3, <1>7, <2>1, <2>3, BranchFacts DEF OnBugBranch
  <2> QED
    BY <1>8, <2>2, <2>3 DEF BugReport
<1>9. CASE Dedup(r)
  <2>1. run[r].pc = "dedup"
    BY <1>9 DEF Dedup
  <2>2. PICK result \in {"ok", "error", "skipped"} :
            Proceed(r, "gate", With(r, {"dedup"}, result))
    BY <1>9 DEF Dedup
  <2> QED
    BY <1>3, <1>7, <2>1, <2>2, BranchFacts DEF OnBugBranch
<1>10. CASE Coerce(r) \/ Gate(r)
  <2>1. run[r].pc = "gate" /\ "pii" \in Stages /\ "tracker" \in Stages
    BY <1>6, <1>10 DEF Coerce, Gate
  <2>2. CASE Proceed(r, "ledger", Blocked(r))
    <3>1. /\ Blocked(r)["pii"] = "error" /\ Blocked(r)["tracker"] = "skipped"
          /\ Blocked(r)["healer"] = run[r].res["healer"]
          /\ Blocked(r)["bugreport"] = run[r].res["bugreport"]
      BY <1>6 DEF Blocked, With
    <3>2. run[r].outcome = "needs_attention"
      BY <1>1, BranchFacts
    <3> QED
      BY <1>4, <2>1, <2>2, <3>1, <3>2, ProceedFields, BranchFacts DEF OnBugBranch
  <2>3. ASSUME NEW result \in {"ok", "skipped"},
               Proceed(r, "tracker", With(r, {"pii"}, result))
        PROVE  PipelineInv'
    BY <1>3, <1>7, <2>1, <2>3, BranchFacts DEF OnBugBranch
  <2> QED
    BY <1>10, <2>2, <2>3 DEF Coerce, Gate
<1>11. CASE Tracker(r)
  <2>1. run[r].pc = "tracker"
    BY <1>11 DEF Tracker
  <2>2. CASE Ends(r, "ledger", {"tracker"}, "skipped", "ticket_ready")
    BY <1>5, <1>6, <1>7, <2>1, <2>2, BranchFacts DEF OnBugBranch
  <2>3. CASE run[r].cfg.write /\ Proceed(r, "file", run[r].res)
    BY <1>3, <2>1, <2>3, BranchFacts DEF OnBugBranch
  <2> QED
    BY <1>11, <2>2, <2>3 DEF Tracker
<1>12. CASE CheckWrite(r) \/ ScanAgain(r) \/ PostFails(r)
  <2>1. run[r].pc \in {"file", "scan", "post"} /\ run[r].cfg.write
    BY <1>2, <1>12 DEF CheckWrite, ScanAgain, PostFails, RunInv, Passed
  <2>2. CASE Refuse(r)
    BY <1>5, <1>6, <1>7, <2>1, <2>2, BranchFacts DEF OnBugBranch, Refuse
  <2>3. ASSUME NEW pc \in {"scan", "post"}, pc = "post" => Clean(r),
               Proceed(r, pc, run[r].res)
        PROVE  PipelineInv'
    BY <1>3, <2>1, <2>3, BranchFacts DEF OnBugBranch
  <2> QED
    BY <1>12, <2>2, <2>3 DEF CheckWrite, ScanAgain, PostFails
<1> QED
  BY <1>8, <1>9, <1>10, <1>11, <1>12 DEF BugBranch

\* The request itself.
LEMMA PostStep == ASSUME TypeOK, PipelineInv, NEW r \in Runs, Post(r) PROVE PipelineInv'
<1>1. /\ run[r].pc = "post" /\ token /\ issues' = issues \cup {r} /\ RunInv(r)
      /\ UNCHANGED <<world, spool, prs, fed, ledger>>
  BY DEF Post, PipelineInv
<1>2. PICK result \in {"ok", "error"}, outcome \in {"ticket_created", "needs_attention"} :
         Ends(r, "ledger", {"tracker"}, result, outcome)
  BY DEF Post, Refuse
<1>3. /\ \A s \in Runs \ {r} : run'[s] = run[s]
      /\ Kept(r) /\ run'[r].pc = "ledger" /\ run'[r].res = With(r, {"tracker"}, result)
      /\ run'[r].log = run[r].log /\ run'[r].hit = run[r].hit
      /\ run'[r].outcome = outcome
      /\ run'[r].category = run[r].category /\ run'[r].branch = run[r].branch
  BY <1>2, EndsFields
<1>4. \A k \in {"bugreport", "pii", "healer"} : run'[r].res[k] = run[r].res[k]
  <2>1. {"bugreport", "pii", "healer"} \subseteq Stages \ {"tracker"} /\ {"tracker"} \subseteq Stages
    BY DEF BugStages, Stages
  <2> QED
    BY <1>3, <2>1, WithValues
<1>5. Only(r)
  BY <1>1, <1>3 DEF Only, world
<1>6. Passed(r)'
  BY <1>1, <1>3
  DEF RunInv, Passed, Escalates, HealMode, Kept, world
<1>7. ScannedBeforePost(r)'
  <2>1. EvidenceFiles(r)' = EvidenceFiles(r)
    BY <1>3 DEF Kept, EvidenceFiles, Local
  <2> QED
    BY <1>1, <1>3, <2>1 DEF RunInv, ScannedBeforePost, Kept, world
<1>8. Effects(r)' /\ Way(r)' /\ SpoolKept(r)'
  BY <1>1, <1>3, BranchFacts
  DEF RunInv, SpoolKept, Effects, Way, AfterBranch, BeforeFork, OnBugBranch
<1>9. RowTrue(Row(r))'
  BY <1>1, <1>3, <1>4, BranchFacts DEF RowTrue, Row, OnBugBranch
<1>10. RunInv(r)'
  BY <1>6, <1>7, <1>8, <1>9 DEF RunInv
<1> QED
  BY <1>1, <1>5, <1>10, StepOfRun

\* The row is written, the spool is cleaned.
LEMMA ClosingStep == ASSUME TypeOK, PipelineInv, NEW r \in Runs, Closing(r) PROVE PipelineInv'
<1>1. RunInv(r) /\ \A s \in Runs : RunInv(s)
  BY DEF PipelineInv
<1>2. CASE Ledger(r)
  <2>1. PICK wrote \in Works :
         /\ ledger' = IF wrote THEN ledger \cup {Row(r)} ELSE ledger
         /\ run' = [run EXCEPT ![r].pc = "cleanup", ![r].hit = @ \/ ~wrote]
    BY <1>2 DEF Ledger
  <2>2. /\ run[r].pc = "ledger" /\ run'[r].pc = "cleanup" /\ Kept(r)
        /\ run'[r].log = run[r].log /\ (run[r].hit => run'[r].hit)
        /\ run'[r].branch = run[r].branch
        /\ \A s \in Runs \ {r} : run'[s] = run[s]
        /\ UNCHANGED <<world, spool, issues, prs, fed>>
    BY <1>2, <2>1 DEF Ledger, TypeOK, RunType, Kept
  <2>3. Only(r)
    BY <2>2 DEF Only, world
  <2>4. Passed(r)' /\ Effects(r)' /\ Way(r)' /\ SpoolKept(r)'
    BY <1>1, <2>2
    DEF Kept, RunInv, Passed, Escalates, HealMode, world, Effects, Way, SpoolKept, AfterBranch,
        BeforeFork, OnBugBranch
  <2>5. ScannedBeforePost(r)'
    BY <1>1, <2>2 DEF Kept, RunInv, ScannedBeforePost, EvidenceFiles, Local, world
  <2>6. \A s \in Runs : RunInv(s)'
    BY <1>1, <2>2, <2>3, <2>4, <2>5, OthersKeep DEF RunInv
  <2>7. RowTrue(Row(r)) /\ Row(r).run = r
    BY <1>1, <2>2 DEF RunInv, Row
  <2>8. ASSUME NEW row \in ledger' PROVE RowInv(row)'
    <3>1. CASE row \in ledger
      BY <2>2, <2>3, <3>1, RowsKeep DEF PipelineInv
    <3>2. CASE row = Row(r)
      BY <2>2, <2>7, <3>2 DEF RowInv, RowTrue
    <3> QED
      BY <2>1, <3>1, <3>2
  <2> QED
    BY <2>6, <2>8 DEF PipelineInv
<1>3. CASE Cleanup(r)
  <2>1. PICK removed \in Works :
         /\ spool' = IF removed THEN spool \ Spooled(r) ELSE spool
         /\ run' = [run EXCEPT ![r].pc = "end",
                               ![r].hit = @ \/ (~removed /\ Spooled(r) # {})]
    BY <1>3 DEF Cleanup
  <2>2. /\ run[r].pc = "cleanup" /\ run'[r].pc = "end" /\ Kept(r)
        /\ run'[r].log = run[r].log /\ (run[r].hit => run'[r].hit)
        /\ (~removed /\ Spooled(r) # {} => run'[r].hit)
        /\ run'[r].branch = run[r].branch
        /\ \A s \in Runs \ {r} : run'[s] = run[s]
        /\ UNCHANGED <<world, issues, prs, fed, ledger>>
    BY <1>3, <2>1 DEF Cleanup, TypeOK, RunType, Kept
  <2>3. Only(r)
    BY <2>1, <2>2 DEF Only, world
  <2>4. Passed(r)' /\ Effects(r)' /\ Way(r)'
    BY <1>1, <2>2
    DEF Kept, RunInv, Passed, Escalates, HealMode, world, Effects, Way, AfterBranch,
        BeforeFork, OnBugBranch
  <2>5. ScannedBeforePost(r)'
    BY <1>1, <2>2 DEF Kept, RunInv, ScannedBeforePost, EvidenceFiles, Local, world
  <2>6. SpoolKept(r)'
    BY <1>1, <2>1, <2>2 DEF RunInv, SpoolKept, Spooled
  <2>7. RunInv(r)'
    BY <2>2, <2>4, <2>5, <2>6 DEF RunInv
  <2> QED
    BY <2>2, <2>3, <2>7, StepOfRun
<1> QED
  BY <1>2, <1>3 DEF Closing

\* Every step keeps the invariant.
LEMMA InvStep == TypeOK /\ PipelineInv /\ [Next]_vars => PipelineInv'
<1> SUFFICES ASSUME TypeOK, PipelineInv, [Next]_vars PROVE PipelineInv'
  OBVIOUS
<1>1. CASE World
  BY <1>1, WorldStep
<1>2. ASSUME NEW r \in Runs,
             Host(r) \/ Common(r) \/ HealBranch(r) \/ BugBranch(r) \/ Closing(r)
      PROVE  PipelineInv'
  BY <1>2, HostStep, CommonStep, HealStep, BugStep, PostStep, ClosingStep
<1>3. CASE UNCHANGED vars
  <2>1. \A r \in Runs : RunInv(r)' <=> RunInv(r)
    BY <1>3
    DEF vars, world, RunInv, Passed, Escalates, HealMode, ScannedBeforePost, EvidenceFiles,
        Local, Effects, Way, SpoolKept, RowTrue, Row
  <2>2. \A row : RowInv(row)' <=> RowInv(row)
    BY <1>3 DEF vars, RowInv, RowTrue
  <2> QED
    BY <1>3, <2>1, <2>2 DEF vars, PipelineInv
<1> QED
  BY <1>1, <1>2, <1>3 DEF Next

-----------------------------------------------------------------------------
(* The theorems.                                                           *)

\* A run stands where build_pipeline puts it, with the results, effects, spooled
\* file and ledger row of the stages behind it (PipelineInv).
THEOREM InvCorrect == Spec => []PipelineInv
<1>1. TypeOK /\ TypeOK' /\ PipelineInv /\ [Next]_vars => PipelineInv'
  BY InvStep
<1> QED
  BY <1>1, InvInit, TypeCorrect, PTL DEF Spec

\* No issue is filed and no pull request opened without approval, unless
\* config.json was edited between the hook and the run (hooks.py).
THEOREM WritesApprovedCorrect == Spec => []WritesApproved
<1>1. TypeOK /\ PipelineInv => WritesApproved
  BY DEF TypeOK, PipelineInv, RunInv, Passed, WritesApproved
<1> QED
  BY <1>1, InvCorrect, TypeCorrect, PTL

\* No issue is filed on evidence that has been dirty since the call (the gate
\* of handle_create_incident).
THEOREM TicketEvidenceCleanCorrect == Spec => []TicketEvidenceClean
<1>1. TypeOK /\ PipelineInv => TicketEvidenceClean
  BY DEF TypeOK, PipelineInv, RunInv, ScannedBeforePost, TicketEvidenceClean
<1> QED
  BY <1>1, InvCorrect, TypeCorrect, PTL

\* The ledger claims nothing that did not happen, and tells the branch (_ledger).
THEOREM LedgerTrueCorrect == Spec => []LedgerTrue
<1>1. TypeOK /\ PipelineInv => LedgerTrue
  <2> SUFFICES ASSUME TypeOK, PipelineInv PROVE LedgerTrue
    OBVIOUS
  <2>1. issues \cap prs = {}
    <3>1. \A r \in issues \cap prs : r \in Runs /\ run[r].branch = "bug" /\ run[r].branch = "heal"
      BY DEF TypeOK, PipelineInv, RunInv, Effects
    <3> QED
      BY <3>1
  <2>2. \A row \in ledger : RowTrue(row)
    BY DEF PipelineInv, RowInv
  <2>3. OutcomesTrue
    BY <2>1, <2>2 DEF RowTrue, OutcomesTrue
  <2>4. LedgerTellsBranch
    BY <2>2 DEF RowTrue, LedgerTellsBranch
  <2> QED
    BY <2>3, <2>4 DEF LedgerTrue
<1> QED
  BY <1>1, InvCorrect, TypeCorrect, PTL

\* A run that ended without a fault leaves no file in the spool
\* (_cleanup_spooled_evidence).
THEOREM SpoolOwnedCorrect == Spec => []SpoolOwned
<1>1. TypeOK /\ PipelineInv => SpoolOwned
  BY DEF TypeOK, PipelineInv, RunInv, SpoolKept, SpoolOwned
<1> QED
  BY <1>1, InvCorrect, TypeCorrect, PTL

-----------------------------------------------------------------------------
(* The scan behind the gate and behind validate_no_pii: PiiScan, for every   *)
(* tree, every limit, every call and all that changes or fails meanwhile.    *)
CONSTANTS Nothing, Order, Confidence, Maximal, Tree, Images, Root, Outside, FileSystems,
          Changes, ScanCalls, Questions, DefaultFiles, MostFiles, MaxFindings, MaxTouches,
          MaxFaults

VARIABLES files, dirs, ocr, call, asked, touched, read, changes, mishaps

Pii == INSTANCE PiiScan WITH None <- Nothing, Calls <- ScanCalls, MaxChanges <- MaxTouches,
                             faults <- mishaps

Given == Pii!ScanAssumption /\ Pii!DetectorsAssumption

\* The sizes PiiScan speaks of.
LEMMA SameSizes ==
    \A S : /\ Pii!Cardinality(S) = Cardinality(S)
           /\ Pii!IsFiniteSet(S) <=> IsFiniteSet(S)
  BY DEF Pii!Cardinality, Cardinality, Pii!IsFiniteSet, IsFiniteSet

\* The first of a sequence, and the others.
LEMMA HeadAndTail ==
    ASSUME NEW S, NEW s \in Seq(S), s # <<>>
    PROVE  /\ Head(s) \in S /\ Tail(s) \in Seq(S) /\ Len(Tail(s)) = Len(s) - 1
           /\ Pii!ToSet(s) = {Head(s)} \cup Pii!ToSet(Tail(s))
<1>1. /\ Len(s) \in Nat \ {0} /\ DOMAIN s = 1..Len(s)
      /\ Head(s) = s[1] /\ Head(s) \in S
      /\ Tail(s) \in Seq(S) /\ Len(Tail(s)) = Len(s) - 1
      /\ DOMAIN Tail(s) = 1..(Len(s) - 1)
      /\ \A i \in 1..(Len(s) - 1) : Tail(s)[i] = s[i + 1]
  BY HeadTailProperties, LenProperties, EmptySeq
<1>2. \A i \in 1..Len(s) : s[i] = Head(s) \/ s[i] \in Pii!ToSet(Tail(s))
  <2> SUFFICES ASSUME NEW i \in 1..Len(s), i # 1 PROVE s[i] \in Pii!ToSet(Tail(s))
    BY <1>1
  <2>1. i - 1 \in 1..(Len(s) - 1) /\ Tail(s)[i - 1] = s[i]
    BY <1>1
  <2> QED
    BY <1>1, <2>1 DEF Pii!ToSet
<1>3. Pii!ToSet(Tail(s)) \subseteq Pii!ToSet(s)
  <2> SUFFICES ASSUME NEW i \in 1..(Len(s) - 1) PROVE Tail(s)[i] \in Pii!ToSet(s)
    BY <1>1 DEF Pii!ToSet
  <2>1. i + 1 \in 1..Len(s) /\ Tail(s)[i] = s[i + 1]
    BY <1>1
  <2> QED
    BY <1>1, <2>1 DEF Pii!ToSet
<1>4. Head(s) \in Pii!ToSet(s)
  BY <1>1 DEF Pii!ToSet
<1> QED
  BY <1>1, <1>2, <1>3, <1>4 DEF Pii!ToSet

\* What is in a sequence and one after it.
LEMMA BothIn ==
    ASSUME NEW S, NEW s \in Seq(S), NEW t \in Seq(S)
    PROVE  /\ s \o t \in Seq(S) /\ Pii!ToSet(s \o t) = Pii!ToSet(s) \cup Pii!ToSet(t)
           /\ s \o t = <<>> => s = <<>> /\ t = <<>>
<1>1. /\ Len(s) \in Nat /\ Len(t) \in Nat /\ s \o t \in Seq(S)
      /\ DOMAIN s = 1..Len(s) /\ DOMAIN t = 1..Len(t)
      /\ DOMAIN (s \o t) = 1..(Len(s) + Len(t))
      /\ \A i \in 1..(Len(s) + Len(t)) :
            (s \o t)[i] = IF i <= Len(s) THEN s[i] ELSE t[i - Len(s)]
  BY ConcatProperties, LenProperties
<1>2. \A i \in 1..(Len(s) + Len(t)) : (s \o t)[i] \in Pii!ToSet(s) \cup Pii!ToSet(t)
  <2> SUFFICES ASSUME NEW i \in 1..(Len(s) + Len(t))
               PROVE  (s \o t)[i] \in Pii!ToSet(s) \cup Pii!ToSet(t)
    OBVIOUS
  <2>1. CASE i <= Len(s)
    <3>1. i \in DOMAIN s /\ (s \o t)[i] = s[i]
      BY <1>1, <2>1
    <3> QED
      BY <3>1 DEF Pii!ToSet
  <2>2. CASE ~(i <= Len(s))
    <3>1. i - Len(s) \in DOMAIN t /\ (s \o t)[i] = t[i - Len(s)]
      BY <1>1, <2>2
    <3> QED
      BY <3>1 DEF Pii!ToSet
  <2> QED
    BY <2>1, <2>2
<1>3. \A i \in 1..Len(s) : s[i] \in Pii!ToSet(s \o t)
  <2> SUFFICES ASSUME NEW i \in 1..Len(s) PROVE s[i] \in Pii!ToSet(s \o t)
    OBVIOUS
  <2>1. i \in 1..(Len(s) + Len(t)) /\ (s \o t)[i] = s[i]
    BY <1>1
  <2> QED
    BY <1>1, <2>1 DEF Pii!ToSet
<1>4. \A i \in 1..Len(t) : t[i] \in Pii!ToSet(s \o t)
  <2> SUFFICES ASSUME NEW i \in 1..Len(t) PROVE t[i] \in Pii!ToSet(s \o t)
    OBVIOUS
  <2>1. i + Len(s) \in 1..(Len(s) + Len(t)) /\ (s \o t)[i + Len(s)] = t[i]
    BY <1>1
  <2> QED
    BY <1>1, <2>1 DEF Pii!ToSet
<1>5. Pii!ToSet(s \o t) = Pii!ToSet(s) \cup Pii!ToSet(t)
  BY <1>1, <1>2, <1>3, <1>4 DEF Pii!ToSet
<1>6. s \o t = <<>> => s = <<>> /\ t = <<>>
  BY ConcatEqualIffEmpty
<1> QED
  BY <1>1, <1>5, <1>6

\* One value is a sequence of what it is.
LEMMA OneOf ==
    ASSUME NEW S, NEW x \in S
    PROVE  <<x>> \in Seq(S) /\ Pii!ToSet(<<x>>) = {x} /\ <<x>> # <<>>
  BY DEF Pii!ToSet

LEMMA EmptyOf == ASSUME NEW S PROVE <<>> \in Seq(S) /\ Pii!ToSet(<<>>) = {}
  BY DEF Pii!ToSet

\* The beginning of a sequence.
LEMMA CutOf ==
    ASSUME NEW S, NEW s \in Seq(S), NEW n \in Int
    PROVE  /\ Pii!Cut(s, n) \in Seq(S)
           /\ n >= 0 => Len(Pii!Cut(s, n)) <= n
           /\ n > 0 /\ Pii!Cut(s, n) = <<>> => s = <<>>
<1>1. Len(s) \in Nat /\ \A i \in 1..Len(s) : s[i] \in S
  BY LenProperties, ElementOfSeq
<1> DEFINE m == Pii!Min({n, Len(s)})
<1>2. \E x \in {n, Len(s)} : \A y \in {n, Len(s)} : x <= y
  BY <1>1
<1>3. m \in {n, Len(s)} /\ m <= n /\ m <= Len(s)
  BY <1>2 DEF Pii!Min
<1> HIDE DEF m
<1>4. m \in Int /\ \A i \in 1..m : s[i] \in S
  BY <1>1, <1>3
<1>5. /\ SubSeq(s, 1, m) \in Seq(S)
      /\ Len(SubSeq(s, 1, m)) = IF 1 <= m THEN m - 1 + 1 ELSE 0
  BY <1>4, SubSeqProperties
<1>6. Pii!Cut(s, n) = SubSeq(s, 1, m)
  BY DEF Pii!Cut, m
<1>7. ASSUME n > 0, Pii!Cut(s, n) = <<>> PROVE s = <<>>
  <2>1. ~(1 <= m)
    BY <1>4, <1>5, <1>6, <1>7
  <2>2. Len(s) = 0
    BY <1>1, <1>3, <1>7, <2>1
  <2> QED
    BY <2>2, EmptySeq
<1> QED
  BY <1>3, <1>4, <1>5, <1>6, <1>7

\* In a finite set of numbers each has as many at or below it as its place
\* says, no two have the same, and every place is taken.
LEMMA PlacesOf ==
    ASSUME NEW n \in Nat, NEW S \in SUBSET (1..n)
    PROVE  /\ IsFiniteSet(S) /\ Cardinality(S) \in Nat
           /\ \A i \in S : Cardinality({j \in S : j <= i}) \in 1..Cardinality(S)
           /\ \A i, k \in S : Cardinality({j \in S : j <= i}) = Cardinality({j \in S : j <= k})
                                => i = k
           /\ \A k \in 1..Cardinality(S) : \E i \in S : Cardinality({j \in S : j <= i}) = k
<1> DEFINE UpTo(i) == {j \in S : j <= i}
           place == [i \in S |-> Cardinality(UpTo(i))]
<1>1. IsFiniteSet(S) /\ Cardinality(S) \in Nat
  <2>1. IsFiniteSet(1..n)
    BY FS_Interval
  <2> QED
    BY <2>1, FS_Subset, FS_CardinalityType
<1>2. \A i \in S : /\ IsFiniteSet(UpTo(i)) /\ Cardinality(UpTo(i)) \in Nat
                   /\ Cardinality(UpTo(i)) <= Cardinality(S) /\ UpTo(i) # {}
  <2> SUFFICES ASSUME NEW i \in S
               PROVE  /\ IsFiniteSet(UpTo(i)) /\ Cardinality(UpTo(i)) \in Nat
                      /\ Cardinality(UpTo(i)) <= Cardinality(S) /\ UpTo(i) # {}
    OBVIOUS
  <2>1. UpTo(i) \in SUBSET S /\ i \in UpTo(i)
    OBVIOUS
  <2> HIDE DEF UpTo
  <2> QED
    BY <1>1, <2>1, FS_Subset, FS_CardinalityType
<1>3. \A i \in S : Cardinality(UpTo(i)) \in 1..Cardinality(S)
  <2> SUFFICES ASSUME NEW i \in S PROVE Cardinality(UpTo(i)) # 0
    BY <1>1, <1>2
  <2> HIDE DEF UpTo
  <2> QED
    BY <1>2, FS_EmptySet
<1>4. \A i, k \in S : Cardinality(UpTo(i)) = Cardinality(UpTo(k)) => i = k
  <2>1. ASSUME NEW i \in S, NEW k \in S, i < k
        PROVE  Cardinality(UpTo(i)) # Cardinality(UpTo(k))
    <3>1. /\ \A j \in S : j <= i => j <= k
          /\ k <= k /\ ~(k <= i)
      BY <2>1
    <3>2. UpTo(i) \in SUBSET UpTo(k) /\ k \in UpTo(k) /\ k \notin UpTo(i)
      BY <3>1
    <3> HIDE DEF UpTo
    <3>3. UpTo(i) # UpTo(k)
      BY <3>2
    <3> QED
      BY <1>2, <3>2, <3>3, FS_Subset
  <2> SUFFICES ASSUME NEW i \in S, NEW k \in S, i # k
               PROVE  Cardinality(UpTo(i)) # Cardinality(UpTo(k))
    OBVIOUS
  <2> HIDE DEF UpTo
  <2>2. i < k \/ k < i
    OBVIOUS
  <2> QED
    BY <2>1, <2>2
<1>5. \A k \in 1..Cardinality(S) : \E i \in S : Cardinality(UpTo(i)) = k
  <2>1. place \in Injection(S, 1..Cardinality(S))
    <3> HIDE DEF UpTo
    <3>1. place \in [S -> 1..Cardinality(S)]
      BY <1>3
    <3>2. \A i, k \in S : place[i] = place[k] => i = k
      BY <1>4
    <3> HIDE DEF place
    <3> QED
      BY <3>1, <3>2 DEF Injection, IsInjective
  <2> HIDE DEF UpTo
  <2>2. /\ IsFiniteSet(1..Cardinality(S))
        /\ Cardinality(1..Cardinality(S)) = Cardinality(S)
    BY <1>1, FS_Interval
  <2>3. place \in Surjection(S, 1..Cardinality(S))
    <3> HIDE DEF place
    <3> QED
      BY <2>1, <2>2, FS_Injection
  <2> QED
    BY <2>3 DEF Surjection
<1> QED
  BY <1>1, <1>3, <1>4, <1>5

\* The least of some places is one of them.
LEMMA LeastIn ==
    ASSUME NEW n \in Nat, NEW S \in SUBSET (1..n), S # {}
    PROVE  Pii!Min(S) \in S /\ \A x \in S : Pii!Min(S) <= x
<1> DEFINE UpTo(i) == {j \in S : j <= i}
<1>1. Cardinality(S) # 0 /\ Cardinality(S) \in Nat
  BY PlacesOf, FS_EmptySet
<1>2. PICK i \in S : Cardinality(UpTo(i)) = 1
  <2>1. 1 \in 1..Cardinality(S)
    BY <1>1
  <2>2. \A k \in 1..Cardinality(S) : \E i \in S : Cardinality(UpTo(i)) = k
    BY PlacesOf
  <2> HIDE DEF UpTo
  <2> QED
    BY <2>1, <2>2
<1>3. IsFiniteSet(UpTo(i)) /\ i \in UpTo(i)
  <2>1. UpTo(i) \in SUBSET S /\ i \in UpTo(i)
    OBVIOUS
  <2>2. IsFiniteSet(S)
    BY PlacesOf
  <2> HIDE DEF UpTo
  <2> QED
    BY <2>1, <2>2, FS_Subset
<1>4. \A j \in S : j <= i => j = i
  <2>1. PICK x : UpTo(i) = {x}
    <3> HIDE DEF UpTo
    <3> QED
      BY <1>2, <1>3, FS_Singleton
  <2> QED
    BY <1>3, <2>1
<1>5. \A j \in S : i <= j
  BY <1>4
<1> QED
  BY <1>5 DEF Pii!Min

\* What is listed of a directory: names of it, and every one that is there.
LEMMA ListedOf ==
    ASSUME Given, NEW d \in DOMAIN Tree
    PROVE  /\ Pii!Listed(d) \in Seq(Pii!Known)
           /\ \A f \in Pii!ToSet(Tree[d]) : f \in Pii!ToSet(Pii!Listed(d)) \/ files[f].kind = "none"
<1> DEFINE there == {i \in DOMAIN Tree[d] : files[Tree[d][i]].kind # "none"}
           UpTo(i) == {j \in there : j <= i}
           Place(k) == CHOOSE i \in there : Pii!Cardinality(UpTo(i)) = k
<1>1. /\ Tree[d] \in Seq(Pii!Names) /\ DOMAIN Tree[d] = 1..Len(Tree[d]) /\ Len(Tree[d]) \in Nat
      /\ Pii!Names \subseteq Pii!Known
  BY LenProperties, ElementOfSeq DEF Given, Pii!ScanAssumption, Pii!Known
<1>2. \A i \in DOMAIN Tree[d] : Tree[d][i] \in Pii!Known
  BY <1>1, ElementOfSeq
<1>3. Pii!Listed(d) = [k \in 1..Pii!Cardinality(there) |-> Tree[d][Place(k)]]
  BY DEF Pii!Listed
<1>4. there \in SUBSET (1..Len(Tree[d]))
  BY <1>1
<1>5. \A f \in Pii!ToSet(Tree[d]) : files[f].kind = "none" \/ \E i \in there : f = Tree[d][i]
  BY DEF Pii!ToSet
<1>6. \A i \in there : i \in DOMAIN Tree[d]
  OBVIOUS
<1> HIDE DEF there
<1>7. /\ Pii!Cardinality(there) \in Nat
      /\ \A i \in there : Pii!Cardinality(UpTo(i)) \in 1..Pii!Cardinality(there)
      /\ \A i, k \in there : Pii!Cardinality(UpTo(i)) = Pii!Cardinality(UpTo(k)) => i = k
      /\ \A k \in 1..Pii!Cardinality(there) : \E i \in there : Pii!Cardinality(UpTo(i)) = k
  <2>1. /\ Cardinality(there) \in Nat
        /\ \A i \in there : Cardinality(UpTo(i)) \in 1..Cardinality(there)
        /\ \A i, k \in there : Cardinality(UpTo(i)) = Cardinality(UpTo(k)) => i = k
        /\ \A k \in 1..Cardinality(there) : \E i \in there : Cardinality(UpTo(i)) = k
    BY <1>1, <1>4, PlacesOf
  <2> HIDE DEF UpTo
  <2>2. /\ Pii!Cardinality(there) = Cardinality(there)
        /\ \A i \in there : Pii!Cardinality(UpTo(i)) = Cardinality(UpTo(i))
    BY SameSizes
  <2> QED
    BY <2>1, <2>2
<1> HIDE DEF UpTo
<1>8. \A k \in 1..Pii!Cardinality(there) : Place(k) \in there /\ Pii!Cardinality(UpTo(Place(k))) = k
  BY <1>7
<1> HIDE DEF Place
<1>9. Pii!Listed(d) \in Seq(Pii!Known)
  <2>1. \A k \in 1..Pii!Cardinality(there) : Tree[d][Place(k)] \in Pii!Known
    BY <1>2, <1>6, <1>8
  <2>2. [k \in 1..Pii!Cardinality(there) |-> Tree[d][Place(k)]] \in [1..Pii!Cardinality(there) -> Pii!Known]
    BY <2>1
  <2> QED
    BY <1>3, <1>7, <2>2, SeqDef
<1>10. \A i \in there : Tree[d][i] \in Pii!ToSet(Pii!Listed(d))
  <2> SUFFICES ASSUME NEW i \in there PROVE Tree[d][i] \in Pii!ToSet(Pii!Listed(d))
    OBVIOUS
  <2> DEFINE k == Pii!Cardinality(UpTo(i))
  <2>1. k \in 1..Pii!Cardinality(there) /\ Place(k) = i
    BY <1>7, <1>8
  <2> HIDE DEF k
  <2>2. k \in DOMAIN Pii!Listed(d) /\ Pii!Listed(d)[k] = Tree[d][i]
    BY <1>3, <2>1
  <2> QED
    BY <2>2 DEF Pii!ToSet
<1> QED
  BY <1>5, <1>9, <1>10

-----------------------------------------------------------------------------
(* What does not change what is known of a call.                             *)

\* The fields of a scan and of a call.
LEMMA ScanFields ==
    /\ DOMAIN Pii!NoScan = {"todo", "list", "path", "late", "truncated", "skipped", "findings"}
    /\ DOMAIN Pii!Idle = {"pc", "paths", "all", "types", "max", "byGate", "ok", "scan"}
    /\ Pii!NoScan.todo = {} /\ Pii!NoScan.list = <<>> /\ Pii!NoScan.path = Nothing /\ Pii!NoScan.late = FALSE
    /\ Pii!NoScan.truncated = FALSE /\ Pii!NoScan.skipped = <<>> /\ Pii!NoScan.findings = <<>>
    /\ Pii!Idle.pc = "idle" /\ Pii!Idle.paths = <<>> /\ Pii!Idle.all = {} /\ Pii!Idle.max = 0
    /\ Pii!Idle.ok = TRUE /\ Pii!Idle.scan = Pii!NoScan
  BY DEF Pii!NoScan, Pii!Idle

\* A scan that has not begun.
LEMMA NoScanOK == ASSUME Given PROVE Pii!ScanOK(Pii!NoScan) /\ Pii!Sure(Pii!NoScan)
<1>1. MaxFindings \in Nat /\ Len(<<>>) = 0
  BY DEF Given, Pii!ScanAssumption
<1>2. /\ <<>> \in Seq(Pii!Known) /\ <<>> \in Seq((Pii!Known \cup {Root}) \X Pii!Reasons)
      /\ <<>> \in Seq(Pii!Known \X UNION Pii!Contents)
  BY EmptyOf
<1>3. {Pii!NoScan.late, Pii!NoScan.truncated} \subseteq BOOLEAN
  BY DEF Pii!NoScan
<1>4. Len(Pii!NoScan.findings) <= MaxFindings
  BY <1>1 DEF Pii!NoScan
<1> HIDE DEF Pii!NoScan
<1>5. Pii!ScanOK(Pii!NoScan)
  BY <1>2, <1>3, <1>4, ScanFields DEF Pii!ScanOK
<1> QED
  BY <1>5, ScanFields DEF Pii!Sure, Pii!Clean, Pii!Complete

\* The value of a call while a scan goes on, with the scan changed.
LEMMA WithScan ==
    ASSUME Pii!CallOK, NEW scan, NEW pc, call' = [call EXCEPT !.pc = pc, !.scan = scan]
    PROVE  /\ call'.pc = pc /\ call'.scan = scan /\ call'.paths = call.paths
           /\ call'.all = call.all /\ call'.types = call.types /\ call'.max = call.max
           /\ call'.ok = call.ok /\ DOMAIN call' = DOMAIN Pii!Idle
  BY ScanFields DEF Pii!CallOK

\* What is vouched for depends on the files, the directories, what was touched
\* and the types asked for.
LEMMA SameFiles ==
    ASSUME UNCHANGED <<files, dirs, touched>>, call'.types = call.types
    PROVE  /\ \A f : Pii!Fine(f)' <=> Pii!Fine(f)
           /\ \A p : Pii!Vouched(p)' <=> Pii!Vouched(p)
           /\ \A p : Pii!Resolved(p)' = Pii!Resolved(p)
<1>1. \A f : Pii!Fine(f)' <=> Pii!Fine(f)
  BY DEF Pii!Fine
<1>2. \A p : Pii!Resolved(p)' = Pii!Resolved(p)
  BY DEF Pii!Resolved
<1> QED
  BY <1>1, <1>2 DEF Pii!Vouched

\* A scan that goes on: what is left to show is that it is the right kind of
\* scan and knows what is behind it.
Steps == {"walk", "collect", "file", "read", "verdict"}

LEMMA ScanStep ==
    ASSUME Pii!ScanInv, call.pc \notin {"idle", "answered"},
           NEW pc \in Steps, NEW scan, Pii!ScanOK(scan),
           pc = "collect" => scan.path \in Pii!Known, pc = "read" => scan.list # <<>>,
           call' = [call EXCEPT !.pc = pc, !.scan = scan],
           UNCHANGED <<files, dirs, touched>>, Pii!Sure(scan) => Pii!Behind(pc, scan)
    PROVE  Pii!ScanInv'
<1>1. /\ call'.pc = pc /\ call'.scan = scan /\ call'.paths = call.paths
      /\ call'.all = call.all /\ call'.types = call.types /\ call'.max = call.max
      /\ call'.ok = call.ok /\ DOMAIN call' = DOMAIN Pii!Idle
  BY WithScan DEF Pii!ScanInv, Pii!TypeOK
<1>2. Pii!CallOK'
  BY <1>1 DEF Pii!ScanInv, Pii!TypeOK, Pii!CallOK, Steps
<1>3. Pii!TypeOK'
  <2>1. Pii!ScanOK(call.scan)'
    BY <1>1 DEF Pii!ScanOK
  <2>2. files # Nothing
    BY ScanFields DEF Pii!ScanInv, Pii!TypeOK
  <2> QED
    BY <1>2, <2>1, <2>2 DEF Pii!ScanInv, Pii!TypeOK
<1>4. \A p : Pii!Vouched(p)' <=> Pii!Vouched(p)
  BY <1>1, SameFiles
<1>5. \A f : Pii!Fine(f)' <=> Pii!Fine(f)
  BY <1>1, SameFiles
<1>6. Pii!Behind(pc, scan) => Pii!Behind(call.pc, call.scan)'
  BY <1>1, <1>5 DEF Pii!Behind, Pii!OfTree, Pii!OfFile, Pii!Covered, Pii!Resolved
<1>7. Pii!Underway'
  <2>1. Pii!Sure(call.scan)' <=> Pii!Sure(scan)
    BY <1>1 DEF Pii!Sure, Pii!Clean, Pii!Complete
  <2> QED
    BY <1>6, <2>1 DEF Pii!Underway
<1> QED
  BY <1>1, <1>3, <1>4, <1>7 DEF Pii!ScanInv, Steps

\* What is there while a call goes on.
LEMMA InCall ==
    ASSUME Given, Pii!TypeOK, call.pc # "idle"
    PROVE  /\ files # Nothing /\ files \in [Pii!Known -> Pii!Entries]
           /\ dirs \in [Pii!Below -> {"open", "closed", "linked"}]
           /\ \A f \in Pii!Known : Pii!Resolved(f) \in Pii!Known
           /\ Root \notin Pii!Known /\ Pii!Names \subseteq Pii!Known
<1>1. /\ files # Nothing /\ files \in [Pii!Known -> Pii!Entries]
      /\ dirs \in [Pii!Below -> {"open", "closed", "linked"}]
  BY ScanFields DEF Pii!TypeOK
<1>2. \A f \in Pii!Known : Pii!Resolved(f) \in Pii!Known
  BY <1>1 DEF Pii!Resolved, Given, Pii!ScanAssumption
<1> QED
  BY <1>1, <1>2 DEF Given, Pii!ScanAssumption, Pii!Known

\* A scan that noted something is no longer sure.
LEMMA SkipOK ==
    ASSUME NEW scan, Pii!ScanOK(scan), NEW what \in Pii!Known \cup {Root},
           NEW reason \in Pii!Reasons
    PROVE  Pii!ScanOK(Pii!Skip(scan, what, reason)) /\ ~Pii!Sure(Pii!Skip(scan, what, reason))
<1> DEFINE new == Append(scan.skipped, <<what, reason>>)
<1>1. /\ new \in Seq((Pii!Known \cup {Root}) \X Pii!Reasons) /\ new # <<>>
  <2>1. <<what, reason>> \in (Pii!Known \cup {Root}) \X Pii!Reasons
    OBVIOUS
  <2>2. scan.skipped \in Seq((Pii!Known \cup {Root}) \X Pii!Reasons)
    BY DEF Pii!ScanOK
  <2> QED
    BY <2>1, <2>2, AppendProperties
<1> HIDE DEF new
<1>2. Pii!Skip(scan, what, reason) = [scan EXCEPT !.skipped = new]
  BY DEF Pii!Skip, new
<1>3. Pii!ScanOK([scan EXCEPT !.skipped = new])
  BY <1>1, ScanFields DEF Pii!ScanOK
<1>4. ~Pii!Sure([scan EXCEPT !.skipped = new])
  BY <1>1, ScanFields DEF Pii!ScanOK, Pii!Sure, Pii!Complete
<1> QED
  BY <1>2, <1>3, <1>4

\* A step that changes only where the call is, or only its scan.
LEMMA OnlyOne ==
    ASSUME Pii!CallOK
    PROVE  /\ \A pc : [call EXCEPT !.pc = pc] = [call EXCEPT !.pc = pc, !.scan = call.scan]
           /\ \A scan : [call EXCEPT !.scan = scan] = [call EXCEPT !.pc = call.pc, !.scan = scan]
  BY ScanFields DEF Pii!CallOK

-----------------------------------------------------------------------------
(* The steps of a scan.                                                      *)

\* A directory of a tree that is listed.
LEMMA WalkedOK ==
    ASSUME Given, Pii!ScanInv, call.pc = "walk", call.scan.todo # {},
           NEW d, d = Pii!Min(call.scan.todo)
    PROVE  /\ Pii!ScanOK(Pii!Walked(d))
           /\ Pii!Sure(Pii!Walked(d)) =>
                /\ Pii!Sure(call.scan)
                /\ d # 1 => dirs[d] # "closed" /\ 1 \notin call.scan.todo
                /\ d = 1 => \A e \in Pii!Below : dirs[e] # "linked"
                /\ Pii!Walked(d).todo = call.scan.todo \ {d} /\ Pii!Walked(d).path = call.scan.path
                /\ Pii!ToSet(Pii!Walked(d).list) = Pii!ToSet(call.scan.list) \cup Pii!ToSet(Pii!Listed(d))
<1> DEFINE old == call.scan
           scan == [old EXCEPT !.todo = old.todo \ {d}]
           linked == {e \in Pii!Below : dirs[e] = "linked"}
           note == [i \in 1..Cardinality(linked) |-> <<Root, "symlink_escape">>]
           passed == old.skipped \o note
           seen == IF d # 1 THEN scan
                   ELSE [scan EXCEPT !.todo = scan.todo \ linked, !.skipped = passed]
           room == call.max - Len(scan.list)
           some == old.list \o Pii!Cut(Pii!Listed(d), room)
           every == old.list \o Pii!Listed(d)
           Notes == Seq((Pii!Known \cup {Root}) \X Pii!Reasons)
<1>1. Pii!ScanOK(old) /\ Pii!CallOK /\ Len(Tree) \in Nat /\ DOMAIN Tree = 1..Len(Tree)
  BY LenProperties DEF Pii!ScanInv, Pii!TypeOK, Given, Pii!ScanAssumption
<1>2. d \in old.todo /\ d \in DOMAIN Tree /\ (d # 1 => 1 \notin old.todo)
  <2>1. old.todo \in SUBSET (1..Len(Tree))
    BY <1>1 DEF Pii!ScanOK
  <2>2. Pii!Min(old.todo) \in old.todo /\ \A x \in old.todo : Pii!Min(old.todo) <= x
    <3> HIDE DEF old
    <3>1. old.todo # {}
      BY DEF old
    <3> QED
      BY <1>1, <2>1, <3>1, LeastIn
  <2> QED
    BY <1>1, <2>1, <2>2
<1>3. Pii!Listed(d) \in Seq(Pii!Known)
  BY <1>2, ListedOf
<1>4. room \in Int
  BY <1>1, LenProperties, ScanFields DEF Pii!ScanOK, Pii!CallOK
<1>5. note \in Notes /\ (note = <<>> => linked = {})
  <2>1. linked \in SUBSET (2..Len(Tree)) /\ IsFiniteSet(2..Len(Tree))
    BY <1>1, FS_Interval DEF Pii!Below
  <2>2. IsFiniteSet(linked) /\ Cardinality(linked) \in Nat
    BY <2>1, FS_Subset, FS_CardinalityType
  <2>3. Cardinality(linked) = 0 => linked = {}
    BY <2>2, FS_EmptySet
  <2> HIDE DEF linked
  <2>4. note \in [1..Cardinality(linked) -> (Pii!Known \cup {Root}) \X Pii!Reasons]
    <3>1. <<Root, "symlink_escape">> \in (Pii!Known \cup {Root}) \X Pii!Reasons
      BY DEF Pii!Reasons
    <3> QED
      BY <3>1
  <2>5. note \in Notes
    BY <2>2, <2>4, SeqDef
  <2>6. note = <<>> => Cardinality(linked) = 0
    <3>1. DOMAIN note = 1..Cardinality(linked)
      OBVIOUS
    <3> HIDE DEF note
    <3> QED
      BY <2>2, <3>1
  <2> QED
    BY <2>3, <2>5, <2>6
<1>6. passed \in Notes /\ (passed = <<>> => old.skipped = <<>> /\ linked = {})
  <2>1. old.skipped \in Notes
    BY <1>1 DEF Pii!ScanOK
  <2> HIDE DEF note, linked
  <2> QED
    BY <1>5, <2>1, BothIn
<1>7. some \in Seq(Pii!Known) /\ every \in Seq(Pii!Known)
      /\ Pii!ToSet(every) = Pii!ToSet(old.list) \cup Pii!ToSet(Pii!Listed(d))
  BY <1>1, <1>3, <1>4, CutOf, BothIn DEF Pii!ScanOK
<1> HIDE DEF note, linked, some, every
<1>8. /\ Pii!ScanOK(scan) /\ Pii!ScanOK(seen) /\ DOMAIN seen = DOMAIN Pii!NoScan
      /\ seen.todo \subseteq old.todo /\ seen.path = old.path
      /\ seen.truncated = old.truncated /\ seen.findings = old.findings
      /\ Pii!Sure(seen) => /\ Pii!Sure(old) /\ seen.todo = old.todo \ {d}
                           /\ d = 1 => linked = {}
  <2> HIDE DEF passed
  <2>1. CASE d # 1
    BY <1>1, <2>1, ScanFields DEF Pii!ScanOK, Pii!Sure, Pii!Clean, Pii!Complete
  <2>2. CASE d = 1
    BY <1>1, <1>6, <2>2, ScanFields DEF Pii!ScanOK, Pii!Sure, Pii!Clean, Pii!Complete
  <2> QED
    BY <2>1, <2>2
<1>9. CASE d # 1 /\ dirs[d] = "closed"
  <2>1. Pii!Walked(d) = Pii!Skip(scan, Root, "unreadable_directory")
    BY <1>9, SameSizes DEF Pii!Walked
  <2> HIDE DEF scan
  <2>2. /\ Pii!ScanOK(Pii!Skip(scan, Root, "unreadable_directory"))
        /\ ~Pii!Sure(Pii!Skip(scan, Root, "unreadable_directory"))
    BY <1>8, SkipOK DEF Pii!Reasons
  <2> QED
    BY <2>1, <2>2
<1>10. CASE ~(d # 1 /\ dirs[d] = "closed") /\ scan.late
  <2>1. Pii!Walked(d) = [scan EXCEPT !.truncated = TRUE, !.todo = {}]
    BY <1>10, SameSizes DEF Pii!Walked
  <2> HIDE DEF scan
  <2>2. Pii!ScanOK(Pii!Walked(d)) /\ Pii!Walked(d).truncated
    BY <1>8, <2>1, ScanFields DEF Pii!ScanOK
  <2> QED
    BY <2>2 DEF Pii!Sure, Pii!Complete
<1>11. CASE /\ ~(d # 1 /\ dirs[d] = "closed") /\ ~scan.late
            /\ Len(Pii!Listed(d)) > room
  <2>1. Pii!Walked(d) = [seen EXCEPT !.list = some, !.truncated = TRUE, !.todo = {}]
    BY <1>1, <1>11, ScanFields, SameSizes DEF Pii!Walked, some, passed, note, linked,
       Pii!ScanOK
  <2> HIDE DEF seen
  <2>2. Pii!ScanOK(Pii!Walked(d)) /\ Pii!Walked(d).truncated
    BY <1>7, <1>8, <2>1, ScanFields DEF Pii!ScanOK
  <2> QED
    BY <2>2 DEF Pii!Sure, Pii!Complete
<1>12. CASE /\ ~(d # 1 /\ dirs[d] = "closed") /\ ~scan.late
            /\ ~(Len(Pii!Listed(d)) > room)
  <2>1. Pii!Walked(d) = [seen EXCEPT !.list = every]
    BY <1>1, <1>12, ScanFields, SameSizes DEF Pii!Walked, every, passed, note, linked,
       Pii!ScanOK
  <2> HIDE DEF seen
  <2>2. /\ Pii!ScanOK(Pii!Walked(d)) /\ (Pii!Sure(Pii!Walked(d)) => Pii!Sure(seen))
        /\ Pii!Walked(d).todo = seen.todo /\ Pii!Walked(d).path = old.path /\ Pii!Walked(d).list = every
    BY <1>7, <1>8, <2>1, ScanFields DEF Pii!ScanOK, Pii!Sure, Pii!Clean, Pii!Complete
  <2>3. linked = {} => \A e \in Pii!Below : dirs[e] # "linked"
    BY DEF linked
  <2> QED
    BY <1>2, <1>7, <1>8, <1>12, <2>2, <2>3
<1> QED
  BY <1>9, <1>10, <1>11, <1>12

\* A directory is walked.
LEMMA WalkDirStep == ASSUME Given, Pii!ScanInv, Pii!WalkDir PROVE Pii!ScanInv'
<1>1. /\ call.pc = "walk" /\ Pii!ScanOK(call.scan) /\ Pii!CallOK /\ UNCHANGED <<files, dirs, touched>>
      /\ {"walk", "file"} \subseteq Steps
      /\ Pii!Sure(call.scan) => Pii!Behind("walk", call.scan)
  BY DEF Pii!WalkDir, Pii!ScanInv, Pii!TypeOK, Steps, Pii!Underway
<1>2. CASE call.scan.todo = {}
  <2>1. call' = [call EXCEPT !.pc = "file", !.scan = call.scan]
    BY <1>1, <1>2, OnlyOne DEF Pii!WalkDir, Pii!Go
  <2>2. Pii!Sure(call.scan) => Pii!Behind("file", call.scan)
    BY <1>1, <1>2 DEF Pii!Behind, Pii!OfTree, Pii!OfFile
  <2> QED
    BY <1>1, <2>1, <2>2, ScanStep
<1>3. CASE call.scan.todo # {}
  <2> DEFINE d == Pii!Min(call.scan.todo)
             scan == Pii!Walked(d)
  <2>1. call' = [call EXCEPT !.pc = "walk", !.scan = scan]
    BY <1>1, <1>3, OnlyOne DEF Pii!WalkDir, Pii!Scan
  <2>2. /\ Pii!ScanOK(scan)
        /\ Pii!Sure(scan) =>
             /\ Pii!Sure(call.scan)
             /\ d # 1 => dirs[d] # "closed" /\ 1 \notin call.scan.todo
             /\ d = 1 => \A e \in Pii!Below : dirs[e] # "linked"
             /\ scan.todo = call.scan.todo \ {d} /\ scan.path = call.scan.path
             /\ Pii!ToSet(scan.list) = Pii!ToSet(call.scan.list) \cup Pii!ToSet(Pii!Listed(d))
    BY <1>1, <1>3, WalkedOK
  <2>3. \A e \in Pii!Below : dirs[e] \in {"open", "closed", "linked"}
    BY <1>1, InCall DEF Pii!ScanInv
  <2>4. DOMAIN Tree \subseteq {1} \cup Pii!Below
    BY LenProperties DEF Given, Pii!ScanAssumption, Pii!Below
  <2>5. d \in DOMAIN Tree =>
            \A f \in Pii!ToSet(Tree[d]) : f \in Pii!ToSet(Pii!Listed(d)) \/ files[f].kind = "none"
    BY ListedOf
  <2> HIDE DEF d, scan
  <2>6. ASSUME Pii!Sure(scan) PROVE Pii!Behind("walk", scan)
    <3>1. Pii!OfTree("walk", call.scan) /\ scan.path = Root
      BY <1>1, <2>2, <2>6 DEF Pii!Behind, Pii!OfFile
    <3>2. 1 \in scan.todo \/ \A e \in Pii!Below : dirs[e] # "linked"
      BY <2>2, <2>6, <3>1 DEF Pii!OfTree
    <3>3. d = 1 \/ (d \in DOMAIN Tree => dirs[d] = "open")
      BY <2>2, <2>3, <2>4, <2>6, <3>1 DEF Pii!OfTree
    <3>4. d \in DOMAIN Tree => Pii!Covered(d, scan.list)
      BY <2>2, <2>5, <2>6, <3>3 DEF Pii!Covered, Pii!Fine
    <3>5. \A e \in DOMAIN Tree : Pii!Covered(e, call.scan.list) => Pii!Covered(e, scan.list)
      BY <2>2, <2>6 DEF Pii!Covered
    <3>6. \A e \in DOMAIN Tree : e \in scan.todo \/ Pii!Covered(e, scan.list)
      BY <2>2, <2>6, <3>1, <3>4, <3>5 DEF Pii!OfTree
    <3> QED
      BY <3>1, <3>2, <3>6 DEF Pii!OfTree, Pii!Behind
  <2> QED
    BY <1>1, <2>1, <2>2, <2>6, ScanStep
<1> QED
  BY <1>2, <1>3

\* The file that was asked for is listed.
LEMMA CollectStep == ASSUME Pii!ScanInv, Pii!Collect PROVE Pii!ScanInv'
<1> DEFINE old == call.scan
           scan == IF Pii!IsFile(old.path) THEN [old EXCEPT !.list = <<old.path>>]
                   ELSE Pii!Skip(old, old.path, "unreadable_directory")
<1>1. /\ call.pc = "collect" /\ Pii!ScanOK(old) /\ Pii!CallOK /\ UNCHANGED <<files, dirs, touched>>
      /\ "file" \in Steps /\ old.path \in Pii!Known
      /\ Pii!Sure(old) => Pii!Behind("collect", old)
      /\ call' = [call EXCEPT !.pc = "file", !.scan = scan]
  BY DEF Pii!Collect, Pii!Go, Pii!ScanInv, Pii!TypeOK, Pii!CallOK, Steps, Pii!Underway
<1> HIDE DEF scan
<1>2. CASE Pii!IsFile(old.path)
  <2>1. <<old.path>> \in Seq(Pii!Known) /\ Pii!ToSet(<<old.path>>) = {old.path}
    BY <1>1, OneOf
  <2>2. scan = [old EXCEPT !.list = <<old.path>>]
    BY <1>2 DEF scan
  <2>3. /\ Pii!ScanOK(scan) /\ scan.path = old.path /\ scan.todo = old.todo
        /\ scan.list = <<old.path>> /\ (Pii!Sure(scan) => Pii!Sure(old))
    BY <1>1, <2>1, <2>2, ScanFields DEF Pii!ScanOK, Pii!Sure, Pii!Clean, Pii!Complete
  <2>4. Pii!Sure(scan) => Pii!Behind("file", scan)
    BY <1>1, <2>1, <2>3 DEF Pii!Behind, Pii!OfTree, Pii!OfFile
  <2> QED
    BY <1>1, <2>3, <2>4, ScanStep
<1>3. CASE ~Pii!IsFile(old.path)
  <2>1. scan = Pii!Skip(old, old.path, "unreadable_directory")
    BY <1>3 DEF scan
  <2>2. Pii!ScanOK(scan) /\ ~Pii!Sure(scan)
    <3> HIDE DEF old
    <3> QED
      BY <1>1, <2>1, SkipOK DEF Pii!Reasons
  <2> QED
    BY <1>1, <2>2, ScanStep
<1> QED
  BY <1>2, <1>3

\* The list without its first name.
LEMMA RestOK ==
    ASSUME Pii!ScanOK(call.scan), call.scan.list # <<>>
    PROVE  /\ Pii!ScanOK(Pii!Rest) /\ Head(call.scan.list) \in Pii!Known
           /\ Pii!Rest.path = call.scan.path /\ Pii!Rest.todo = call.scan.todo
           /\ Pii!Rest.findings = call.scan.findings
           /\ Pii!ToSet(call.scan.list) = {Head(call.scan.list)} \cup Pii!ToSet(Pii!Rest.list)
           /\ Pii!Rest.list = Tail(call.scan.list) /\ DOMAIN Pii!Rest = DOMAIN Pii!NoScan
           /\ Pii!Sure(Pii!Rest) => Pii!Sure(call.scan)
<1>1. /\ Head(call.scan.list) \in Pii!Known /\ Tail(call.scan.list) \in Seq(Pii!Known)
      /\ Pii!ToSet(call.scan.list) = {Head(call.scan.list)} \cup Pii!ToSet(Tail(call.scan.list))
  BY HeadAndTail DEF Pii!ScanOK
<1> QED
  BY <1>1, ScanFields DEF Pii!Rest, Pii!ScanOK, Pii!Sure, Pii!Clean, Pii!Complete

\* A file that is passed over.
LEMMA PassedStep ==
    ASSUME Pii!ScanInv, call.pc \notin {"idle", "answered"}, UNCHANGED <<files, dirs,
           touched>>,
           NEW scan, Pii!ScanOK(scan), NEW name \in Pii!Known, NEW reason \in Pii!Reasons,
           call' = Pii!NextFile(Pii!Skip(scan, name, reason))
    PROVE  Pii!ScanInv'
<1>1. Pii!ScanOK(Pii!Skip(scan, name, reason)) /\ ~Pii!Sure(Pii!Skip(scan, name, reason))
  BY SkipOK
<1>2. "file" \in Steps /\ call' = [call EXCEPT !.pc = "file", !.scan = Pii!Skip(scan, name, reason)]
  BY DEF Steps, Pii!NextFile
<1> QED
  BY <1>1, <1>2, ScanStep

\* A file is checked.
LEMMA CheckFileStep == ASSUME Given, Pii!ScanInv, Pii!CheckFile PROVE Pii!ScanInv'
<1> DEFINE scan == call.scan
           name == Head(scan.list)
           real == IF scan.path = Root THEN Pii!Resolved(name) ELSE name
<1>1. /\ call.pc = "file" /\ Pii!ScanOK(scan) /\ Pii!CallOK /\ UNCHANGED <<files, dirs, touched>>
      /\ {"file", "read", "verdict"} \subseteq Steps
      /\ Pii!Sure(scan) => Pii!Behind("file", scan)
  BY DEF Pii!CheckFile, Pii!ScanInv, Pii!TypeOK, Steps, Pii!Underway
<1>2. CASE scan.list = <<>>
  <2>1. call' = [call EXCEPT !.pc = "verdict", !.scan = scan]
    BY <1>1, <1>2, OnlyOne DEF Pii!CheckFile, Pii!Go
  <2>2. Pii!Sure(scan) => Pii!Behind("verdict", scan)
    BY <1>1, <1>2 DEF Pii!Behind, Pii!OfTree, Pii!OfFile
  <2> QED
    BY <1>1, <2>1, <2>2, ScanStep
<1>3. CASE scan.list # <<>> /\ scan.late
  <2> DEFINE new == [scan EXCEPT !.truncated = TRUE]
  <2>1. call' = [call EXCEPT !.pc = "verdict", !.scan = new]
    BY <1>3 DEF Pii!CheckFile, Pii!Go
  <2>2. Pii!ScanOK(new) /\ ~Pii!Sure(new)
    BY <1>1, ScanFields DEF Pii!ScanOK, Pii!Sure, Pii!Complete
  <2> HIDE DEF new
  <2> QED
    BY <1>1, <2>1, <2>2, ScanStep
<1>4. CASE scan.list # <<>> /\ ~scan.late
  <2>1. /\ Pii!ScanOK(Pii!Rest) /\ name \in Pii!Known /\ Pii!Rest.list = Tail(scan.list)
        /\ Pii!ToSet(scan.list) = {name} \cup Pii!ToSet(Pii!Rest.list)
        /\ Pii!Rest.list \in Seq(Pii!Known)
    BY <1>1, <1>4, RestOK DEF Pii!ScanOK
  <2>2. real \in Pii!Known
    BY <1>1, <2>1, InCall DEF Pii!ScanInv
  <2>3. CASE scan.path = Root /\ real \notin Pii!Names
    <3>1. call' = Pii!NextFile(Pii!Skip(Pii!Rest, name, "symlink_escape")) /\ "symlink_escape" \in Pii!Reasons
      BY <1>4, <2>3 DEF Pii!CheckFile, Pii!Go, Pii!Passed, Pii!Reasons
    <3> QED
      BY <1>1, <2>1, <3>1, PassedStep
  <2>4. CASE ~(scan.path = Root /\ real \notin Pii!Names) /\ ~Pii!IsFile(Pii!Resolved(real))
    <3>1. call' = Pii!NextFile(Pii!Skip(Pii!Rest, name, "not_regular_file")) /\ "not_regular_file" \in Pii!Reasons
      BY <1>4, <2>4 DEF Pii!CheckFile, Pii!Go, Pii!Passed, Pii!Reasons
    <3> QED
      BY <1>1, <2>1, <3>1, PassedStep
  <2>5. CASE ~(scan.path = Root /\ real \notin Pii!Names) /\ Pii!IsFile(Pii!Resolved(real))
    <3> DEFINE new == [scan EXCEPT !.list = <<real>> \o Pii!Rest.list]
    <3>1. call' = [call EXCEPT !.pc = "read", !.scan = new]
      BY <1>4, <2>1, <2>5 DEF Pii!CheckFile, Pii!Go
    <3>2. /\ <<real>> \o Pii!Rest.list \in Seq(Pii!Known) /\ <<real>> \o Pii!Rest.list # <<>>
          /\ Pii!ToSet(<<real>> \o Pii!Rest.list) = {real} \cup Pii!ToSet(Pii!Rest.list)
      <4> DEFINE one == <<real>>
      <4>1. one \in Seq(Pii!Known) /\ Pii!ToSet(one) = {real} /\ one # <<>>
        BY <2>2, OneOf
      <4> HIDE DEF one, real
      <4>2. one \o Pii!Rest.list \in Seq(Pii!Known) /\ one \o Pii!Rest.list # <<>>
            /\ Pii!ToSet(one \o Pii!Rest.list) = {real} \cup Pii!ToSet(Pii!Rest.list)
        <5> DEFINE rest == Pii!Rest.list
        <5>1. rest \in Seq(Pii!Known)
          BY <2>1
        <5> HIDE DEF rest
        <5>2. /\ one \o rest \in Seq(Pii!Known) /\ (one \o rest = <<>> => one = <<>>)
              /\ Pii!ToSet(one \o rest) = {real} \cup Pii!ToSet(rest)
          BY <4>1, <5>1, BothIn
        <5> QED
          BY <4>1, <5>2 DEF rest
      <4> QED
        BY <4>2 DEF one
    <3>3. /\ Pii!ScanOK(new) /\ new.path = scan.path /\ new.todo = scan.todo
          /\ new.list = <<real>> \o Pii!Rest.list /\ (Pii!Sure(new) => Pii!Sure(scan))
      BY <1>1, <3>2, ScanFields DEF Pii!ScanOK, Pii!Sure, Pii!Clean, Pii!Complete
    <3> HIDE DEF new
    <3>4. scan.path = Root => name = real \/ Pii!Fine(name)
      BY <2>5 DEF Pii!Resolved, Pii!Fine
    <3>5. ASSUME Pii!Sure(new) PROVE Pii!Behind("read", new)
      <4>1. CASE scan.path = Root
        <5>1. \A d \in DOMAIN Tree : Pii!Covered(d, scan.list) => Pii!Covered(d, new.list)
          BY <2>1, <3>2, <3>3, <3>4, <4>1 DEF Pii!Covered
        <5> QED
          BY <1>1, <3>3, <3>5, <4>1, <5>1 DEF Pii!Behind, Pii!OfTree
      <4>2. CASE scan.path # Root
        <5>1. Pii!ToSet(new.list) = Pii!ToSet(scan.list)
          BY <2>1, <3>2, <3>3, <4>2
        <5> QED
          BY <1>1, <3>3, <3>5, <4>2, <5>1 DEF Pii!Behind, Pii!OfFile
      <4> QED
        BY <4>1, <4>2
    <3>6. new.list # <<>>
      BY <3>2, <3>3
    <3> HIDE DEF scan
    <3> QED
      BY <1>1, <3>1, <3>3, <3>5, <3>6, ScanStep
  <2> QED
    BY <2>3, <2>4, <2>5
<1> QED
  BY <1>2, <1>3, <1>4

\* What a file's findings are, and what it means that there are none.
LEMMA FindingsOf ==
    ASSUME Given, Pii!CallOK, call.pc # "idle", NEW text \in Pii!Contents,
           NEW n \in Nat, n <= MaxFindings
    PROVE  LET got == Pii!FindingsForFile(text, n)
           IN  /\ got.rows \in Seq(text) /\ Len(got.rows) <= n
               /\ got.capped \in BOOLEAN
               /\ n > 0 /\ got.rows = <<>> /\ ~got.capped =>
                    \A h \in text : ~(h.ok /\ h.type \in call.types)
<1> DEFINE found == Pii!RunDetectors(text, call.types, n + 1)
           got == Pii!FindingsForFile(text, n)
<1>1. n + 1 \in 1..(MaxFindings + 1)
  BY DEF Given, Pii!ScanAssumption
<1>2. PICK c \in ScanCalls : call.types = c.types
  BY DEF Pii!CallOK
<1>3. /\ found \in Seq(text)
      /\ found = <<>> => \A h \in text : ~(h.ok /\ h.type \in call.types)
  BY <1>1, <1>2 DEF Given, Pii!DetectorsAssumption
<1>4. got.rows = Pii!Cut(found, n) /\ got.capped = (Len(found) > n)
  BY DEF Pii!FindingsForFile
<1> HIDE DEF found, got
<1>5. /\ Pii!Cut(found, n) \in Seq(text) /\ Len(Pii!Cut(found, n)) <= n
      /\ n > 0 /\ Pii!Cut(found, n) = <<>> => found = <<>>
  BY <1>3, CutOf
<1>6. /\ got.rows \in Seq(text) /\ Len(got.rows) <= n
      /\ got.capped \in BOOLEAN
      /\ n > 0 /\ got.rows = <<>> => \A h \in text : ~(h.ok /\ h.type \in call.types)
  BY <1>3, <1>4, <1>5
<1> QED
  BY <1>6 DEF got

\* A file is read.
LEMMA ReadFileStep == ASSUME Given, Pii!ScanInv, Pii!ReadFile PROVE Pii!ScanInv'
<1> DEFINE scan == call.scan
           real == Head(scan.list)
           file == files[real]
           left == MaxFindings - Len(scan.findings)
           got == Pii!FindingsForFile(file.text, left)
           cut == file.rest # Nothing /\ real \notin Images
           rows == [i \in DOMAIN got.rows |-> <<real, got.rows[i]>>]
           done == [Pii!Rest EXCEPT !.findings = scan.findings \o rows,
                                !.truncated = scan.truncated \/ cut \/ got.capped]
           pc == IF got.capped THEN "verdict" ELSE "file"
<1>1. /\ call.pc = "read" /\ Pii!ScanOK(scan) /\ Pii!CallOK /\ UNCHANGED <<files, dirs, touched>>
      /\ scan.list # <<>> /\ pc \in Steps
      /\ Pii!Sure(scan) => Pii!Behind("read", scan)
  BY DEF Pii!ReadFile, Pii!ScanInv, Pii!TypeOK, Pii!CallOK, Steps, Pii!Underway
<1>2. /\ Pii!ScanOK(Pii!Rest) /\ real \in Pii!Known
      /\ Pii!Rest.path = scan.path /\ Pii!Rest.todo = scan.todo /\ Pii!Rest.findings = scan.findings
      /\ Pii!ToSet(scan.list) = {real} \cup Pii!ToSet(Pii!Rest.list)
      /\ DOMAIN Pii!Rest = DOMAIN Pii!NoScan /\ (Pii!Sure(Pii!Rest) => Pii!Sure(scan))
  BY <1>1, RestOK
<1>3. CASE Pii!Unread(real) # Nothing
  <2>1. call' = Pii!NextFile(Pii!Skip(Pii!Rest, real, Pii!Unread(real)))
    BY <1>3 DEF Pii!ReadFile, Pii!Go, Pii!Passed
  <2>2. Pii!Unread(real) \in Pii!Reasons
    BY <1>3 DEF Pii!Unread, Pii!Reasons
  <2> HIDE DEF real
  <2> QED
    BY <1>1, <1>2, <2>1, <2>2, PassedStep
<1>4. CASE Pii!Unread(real) = Nothing
  <2>1. call' = [call EXCEPT !.pc = pc, !.scan = done]
    BY <1>4 DEF Pii!ReadFile, Pii!Go, Pii!NextFile
  <2>2. file.text \in Pii!Contents /\ file.kind = "text"
    <3>1. file.text \in Pii!Contents
      <4>1. file \in Pii!Entries
        BY <1>1, <1>2, InCall DEF Pii!ScanInv
      <4> HIDE DEF file
      <4> QED
        BY <4>1 DEF Pii!Contents
    <3>2. file.kind = "text"
      BY <1>4 DEF Pii!Unread, Pii!IsFile, Pii!Reasons, Given, Pii!ScanAssumption
    <3> QED
      BY <3>1, <3>2
  <2>3. /\ scan.findings \in Seq(Pii!Known \X UNION Pii!Contents) /\ Len(scan.findings) \in Nat
        /\ MaxFindings \in Nat \ {0} /\ left \in Nat /\ left <= MaxFindings
    BY <1>1, LenProperties DEF Pii!ScanOK, Given, Pii!ScanAssumption
  <2>4. /\ got.rows \in Seq(file.text) /\ Len(got.rows) <= left /\ got.capped \in BOOLEAN
        /\ left > 0 /\ got.rows = <<>> /\ ~got.capped =>
             \A h \in file.text : ~(h.ok /\ h.type \in call.types)
    BY <1>1, <2>2, <2>3, FindingsOf
  <2> HIDE DEF got
  <2>5. /\ rows \in Seq(Pii!Known \X UNION Pii!Contents) /\ Len(rows) = Len(got.rows)
        /\ rows = <<>> => got.rows = <<>>
    <3>1. /\ Len(got.rows) \in Nat /\ DOMAIN got.rows = 1..Len(got.rows)
          /\ \A i \in DOMAIN got.rows : got.rows[i] \in file.text
      BY <2>4, LenProperties, ElementOfSeq
    <3>2. \A i \in DOMAIN got.rows : <<real, got.rows[i]>> \in Pii!Known \X UNION Pii!Contents
      BY <1>2, <2>2, <3>1
    <3> HIDE DEF real, file
    <3>3. rows \in [1..Len(got.rows) -> Pii!Known \X UNION Pii!Contents]
      BY <3>1, <3>2
    <3> HIDE DEF rows
    <3>4. rows \in Seq(Pii!Known \X UNION Pii!Contents) /\ Len(rows) = Len(got.rows)
      BY <3>1, <3>3, SeqDef, LenProperties
    <3> QED
      BY <2>4, <3>4, EmptySeq
  <2> HIDE DEF rows
  <2>6. /\ scan.findings \o rows \in Seq(Pii!Known \X UNION Pii!Contents)
        /\ Len(scan.findings \o rows) <= MaxFindings
        /\ scan.findings \o rows = <<>> => scan.findings = <<>> /\ rows = <<>>
    <3>1. Len(scan.findings \o rows) = Len(scan.findings) + Len(rows)
      BY <2>3, <2>5, ConcatProperties
    <3>2. Len(rows) \in Nat
      BY <2>5, LenProperties
    <3> DEFINE a == Len(scan.findings)
               b == Len(rows)
    <3>3. a + b <= MaxFindings
      <4>1. a \in Nat /\ b \in Nat /\ MaxFindings \in Nat /\ b <= MaxFindings - a
        BY <2>3, <2>4, <2>5, <3>2
      <4> HIDE DEF a, b
      <4> QED
        BY <4>1
    <3>4. /\ scan.findings \o rows \in Seq(Pii!Known \X UNION Pii!Contents)
          /\ scan.findings \o rows = <<>> => scan.findings = <<>> /\ rows = <<>>
      BY <2>3, <2>5, BothIn
    <3> QED
      BY <3>1, <3>3, <3>4
  <2> DEFINE all == scan.findings \o rows
             missed == scan.truncated \/ cut \/ got.capped
  <2>7. missed \in BOOLEAN /\ (~missed => ~scan.truncated /\ ~cut /\ ~got.capped)
    OBVIOUS
  <2>8. done = [Pii!Rest EXCEPT !.findings = all, !.truncated = missed]
    OBVIOUS
  <2> HIDE DEF all, missed, done
  <2>9. /\ Pii!ScanOK(done) /\ done.path = scan.path /\ done.todo = scan.todo
        /\ done.list = Pii!Rest.list
        /\ done.findings = all /\ done.truncated = missed /\ done.skipped = Pii!Rest.skipped
    BY <1>2, <2>6, <2>7, <2>8, ScanFields DEF Pii!ScanOK, all
  <2>10. Pii!Sure(done) => Pii!Sure(scan) /\ rows = <<>> /\ ~cut /\ ~got.capped
    BY <1>2, <2>6, <2>7, <2>9 DEF Pii!Sure, Pii!Clean, Pii!Complete, all, Pii!Rest
  <2>11. ASSUME Pii!Sure(done) PROVE Pii!Fine(real) /\ pc = "file"
    <3>1. Pii!Sure(scan) /\ rows = <<>> /\ ~cut /\ ~got.capped
      BY <2>10, <2>11
    <3>2. left > 0
      BY <2>3, <3>1, EmptySeq DEF Pii!Sure, Pii!Clean
    <3>3. \A h \in file.text : ~(h.ok /\ h.type \in call.types)
      BY <2>4, <2>5, <3>1, <3>2
    <3> QED
      BY <2>2, <3>1, <3>3 DEF Pii!Fine
  <2>12. ASSUME Pii!Sure(done) PROVE Pii!Behind("file", done)
    <3>1. Pii!Behind("read", scan) /\ Pii!Fine(real)
      BY <1>1, <2>10, <2>11, <2>12
    <3>2. \A d \in DOMAIN Tree : Pii!Covered(d, scan.list) => Pii!Covered(d, done.list)
      BY <1>2, <2>9, <3>1 DEF Pii!Covered
    <3> QED
      BY <1>2, <2>9, <3>1, <3>2 DEF Pii!Behind, Pii!OfTree, Pii!OfFile
  <2> HIDE DEF scan, pc
  <2> QED
    BY <1>1, <2>1, <2>9, <2>11, <2>12, ScanStep DEF pc
<1> QED
  BY <1>3, <1>4

\* Masking, tesseract or a detector fails on a file.
LEMMA FileFailsStep == ASSUME Pii!ScanInv, Pii!FileFails PROVE Pii!ScanInv'
<1> DEFINE real == Head(call.scan.list)
           cut == call.scan.truncated \/ files[real].rest # Nothing
           scan == [Pii!Rest EXCEPT !.truncated = cut]
<1>1. /\ call.pc = "read" /\ Pii!ScanOK(call.scan) /\ call.scan.list # <<>>
      /\ UNCHANGED <<files, dirs, touched>>
      /\ call' = Pii!NextFile(Pii!Skip(scan, real, "scan_failed"))
  BY DEF Pii!FileFails, Pii!Go, Pii!ScanInv, Pii!TypeOK, Pii!CallOK
<1>2. Pii!ScanOK(Pii!Rest) /\ real \in Pii!Known
  BY <1>1, RestOK
<1>3. cut \in BOOLEAN
  OBVIOUS
<1> HIDE DEF cut
<1>4. Pii!ScanOK(scan)
  BY <1>2, <1>3, ScanFields DEF Pii!ScanOK
<1> HIDE DEF scan, real
<1> QED
  BY <1>1, <1>2, <1>4, PassedStep DEF Pii!Reasons

\* The deadline passes.
LEMMA TimePassesStep == ASSUME Pii!ScanInv, Pii!TimePasses PROVE Pii!ScanInv'
<1> DEFINE scan == [call.scan EXCEPT !.late = TRUE]
<1>1. /\ call.pc \in {"walk", "file", "read"} /\ Pii!ScanOK(call.scan) /\ Pii!CallOK
      /\ call.pc = "read" => call.scan.list # <<>>
      /\ UNCHANGED <<files, dirs, touched>> /\ call.pc \in Steps
      /\ call' = [call EXCEPT !.pc = call.pc, !.scan = scan]
      /\ Pii!Sure(call.scan) => Pii!Behind(call.pc, call.scan)
  BY OnlyOne DEF Pii!TimePasses, Pii!Scan, Pii!ScanInv, Pii!TypeOK, Pii!CallOK, Steps,
     Pii!Underway
<1>2. /\ Pii!ScanOK(scan) /\ (Pii!Sure(scan) => Pii!Sure(call.scan))
      /\ scan.path = call.scan.path /\ scan.todo = call.scan.todo /\ scan.list = call.scan.list
  BY <1>1, ScanFields DEF Pii!ScanOK, Pii!Sure, Pii!Clean, Pii!Complete
<1> HIDE DEF scan
<1>3. Pii!Sure(scan) => Pii!Behind(call.pc, scan)
  BY <1>1, <1>2 DEF Pii!Behind, Pii!OfTree, Pii!OfFile
<1> QED
  BY <1>1, <1>2, <1>3, ScanStep

-----------------------------------------------------------------------------
(* The steps from one path to the next.                                      *)

\* A call that goes on to its next path, or answers.
LEMMA NextPath ==
    ASSUME Given, Pii!ScanInv, call.pc \notin {"idle", "answered"}, UNCHANGED <<files, dirs,
           touched>>,
           NEW ok \in BOOLEAN, ok => call.ok /\ Pii!Vouched(Head(call.paths)),
           call' = [call EXCEPT !.ok = ok, !.scan = Pii!NoScan, !.paths = Tail(call.paths),
                      !.pc = IF Len(call.paths) = 1 THEN "answered" ELSE "target"]
    PROVE  Pii!ScanInv'
<1>1. /\ call.paths \in Seq(Pii!Known \cup {Root}) /\ call.paths # <<>> /\ Pii!CallOK
  BY DEF Pii!ScanInv, Pii!TypeOK, Pii!CallOK
<1>2. /\ Tail(call.paths) \in Seq(Pii!Known \cup {Root})
      /\ Len(Tail(call.paths)) = Len(call.paths) - 1 /\ Len(call.paths) \in Nat
      /\ Pii!ToSet(call.paths) = {Head(call.paths)} \cup Pii!ToSet(Tail(call.paths))
  BY <1>1, HeadAndTail, LenProperties
<1> DEFINE rest == Tail(call.paths)
           pc == IF Len(call.paths) = 1 THEN "answered" ELSE "target"
<1>3. rest = <<>> <=> pc = "answered"
  <2>1. Len(rest) = 0 <=> rest = <<>>
    BY <1>2, EmptySeq
  <2>2. Len(call.paths) = 1 <=> Len(rest) = 0
    BY <1>2
  <2> QED
    BY <2>1, <2>2
<1> HIDE DEF rest, pc
<1>4. /\ call'.pc = pc /\ call'.ok = ok /\ call'.scan = Pii!NoScan /\ call'.paths = rest
      /\ call'.all = call.all /\ call'.types = call.types /\ call'.max = call.max
      /\ DOMAIN call' = DOMAIN Pii!Idle
  BY <1>1, ScanFields DEF Pii!CallOK, rest, pc
<1>5. pc \in {"answered", "target"}
  BY DEF pc
<1>6. Pii!CallOK'
  BY <1>1, <1>2, <1>3, <1>4, <1>5 DEF Pii!CallOK, rest
<1>7. Pii!TypeOK'
  <2>1. Pii!ScanOK(call.scan)'
    BY <1>4, NoScanOK DEF Pii!ScanOK
  <2>2. files # Nothing
    BY InCall DEF Pii!ScanInv
  <2> QED
    BY <1>6, <2>1, <2>2 DEF Pii!ScanInv, Pii!TypeOK
<1>8. Pii!Underway'
  BY <1>4, <1>5 DEF Pii!Underway
<1>9. \A p : Pii!Vouched(p)' <=> Pii!Vouched(p)
  BY <1>4, SameFiles
<1> QED
  BY <1>2, <1>3, <1>4, <1>7, <1>8, <1>9 DEF Pii!ScanInv, rest

\* A path that cannot be resolved or is no file.
LEMMA FailedStep ==
    ASSUME Given, Pii!ScanInv, call.pc = "target", UNCHANGED <<files, dirs, touched>>,
           call' = Pii!Failed
    PROVE  Pii!ScanInv'
<1>1. FALSE \in BOOLEAN
  OBVIOUS
<1> QED
  BY <1>1, NextPath DEF Pii!Failed

\* The next path is found.
LEMMA TargetStep == ASSUME Given, Pii!ScanInv, Pii!Target PROVE Pii!ScanInv'
<1> DEFINE path == Head(call.paths)
           real == Pii!Resolved(path)
<1>1. /\ call.pc = "target" /\ Pii!CallOK /\ UNCHANGED <<files, dirs, touched>>
      /\ {"walk", "collect"} \subseteq Steps /\ call.paths \in Seq(Pii!Known \cup {Root})
      /\ call.paths # <<>>
  BY DEF Pii!Target, Pii!ScanInv, Pii!TypeOK, Pii!CallOK, Steps
<1>2. path \in Pii!Known \cup {Root} /\ Root \notin Pii!Known /\ (path \in Pii!Known => real \in Pii!Known)
  BY <1>1, HeadAndTail, InCall DEF Pii!ScanInv
<1>3. CASE path = Root
  <2> DEFINE scan == [Pii!NoScan EXCEPT !.path = Root, !.todo = DOMAIN Tree]
  <2>1. call' = [call EXCEPT !.pc = "walk", !.scan = scan]
    BY <1>3 DEF Pii!Target, Pii!Go
  <2>2. scan.todo = DOMAIN Tree /\ scan.path = Root /\ Pii!ScanOK(scan)
    BY NoScanOK, ScanFields DEF Pii!ScanOK
  <2>3. 1 \in DOMAIN Tree
    BY EmptySeq, LenProperties DEF Given, Pii!ScanAssumption
  <2> HIDE DEF scan
  <2>4. Pii!Behind("walk", scan)
    BY <1>3, <2>2, <2>3 DEF Pii!Behind, Pii!OfTree
  <2> QED
    BY <1>1, <2>1, <2>2, <2>4, ScanStep
<1>4. CASE path # Root /\ ~Pii!IsFile(real)
  <2>1. call' = Pii!Failed
    BY <1>4 DEF Pii!Target, Pii!Go
  <2> QED
    BY <1>1, <2>1, FailedStep
<1>5. CASE path # Root /\ Pii!IsFile(real)
  <2> DEFINE scan == [Pii!NoScan EXCEPT !.path = real]
  <2>1. call' = [call EXCEPT !.pc = "collect", !.scan = scan]
    BY <1>5 DEF Pii!Target, Pii!Go
  <2>2. scan.todo = {} /\ scan.path = real /\ Pii!ScanOK(scan) /\ real \in Pii!Known
    BY <1>2, <1>5, NoScanOK, ScanFields DEF Pii!ScanOK
  <2> HIDE DEF scan
  <2>3. Pii!Behind("collect", scan)
    BY <1>2, <1>5, <2>2 DEF Pii!Behind, Pii!OfFile
  <2> QED
    BY <1>1, <2>1, <2>2, <2>3, ScanStep
<1> QED
  BY <1>3, <1>4, <1>5

\* What a sure scan vouches for when it is through.
LEMMA VerdictStep == ASSUME Given, Pii!ScanInv, Pii!Verdict PROVE Pii!ScanInv'
<1> DEFINE path == Head(call.paths)
           sure == Pii!Clean(call.scan) /\ Pii!Complete(call.scan)
           ok == call.ok /\ sure
<1>1. /\ call.pc = "verdict" /\ Pii!ScanOK(call.scan) /\ Pii!CallOK /\ UNCHANGED <<files, dirs, touched>>
      /\ call.paths \in Seq(Pii!Known \cup {Root}) /\ call.paths # <<>>
      /\ sure => Pii!Behind("verdict", call.scan)
      /\ call' = [call EXCEPT !.ok = ok, !.scan = Pii!NoScan, !.paths = Tail(call.paths),
                    !.pc = IF Len(call.paths) = 1 THEN "answered" ELSE "target"]
  BY DEF Pii!Verdict, Pii!Go, Pii!ScanInv, Pii!TypeOK, Pii!CallOK, Pii!Underway, Pii!Sure
<1>2. ok \in BOOLEAN /\ (ok => call.ok /\ sure)
  BY DEF Pii!Clean, Pii!Complete
<1> HIDE DEF ok, sure
<1>3. ASSUME sure PROVE Pii!Vouched(path)
  <2>1. Pii!Behind("verdict", call.scan) /\ Pii!ToSet(call.scan.list) = {} /\ call.scan.todo = {}
    BY <1>1, <1>3, EmptyOf DEF Pii!Behind
  <2>2. CASE call.scan.path = Root
    <3>1. /\ path = Root /\ \A d \in Pii!Below : dirs[d] # "linked"
          /\ \A d \in DOMAIN Tree : Pii!Covered(d, call.scan.list)
      BY <2>1, <2>2 DEF Pii!Behind, Pii!OfTree
    <3>2. \A d \in Pii!Below : d \in DOMAIN Tree /\ d # 1
      BY LenProperties DEF Given, Pii!ScanAssumption, Pii!Below
    <3>3. \A d \in Pii!Below : dirs[d] = "open"
      BY <3>1, <3>2 DEF Pii!Covered
    <3>4. \A f \in Pii!Names \ touched : Pii!Fine(f)
      BY <2>1, <3>1 DEF Pii!Covered, Pii!Names
    <3> QED
      BY <3>1, <3>3, <3>4 DEF Pii!Vouched
  <2>3. CASE call.scan.path # Root
    <3>1. /\ path # Root /\ (path \in touched \/ Pii!Resolved(path) = call.scan.path)
          /\ call.scan.path \in touched \/ Pii!Fine(call.scan.path)
      BY <2>1, <2>3 DEF Pii!Behind, Pii!OfFile
    <3> QED
      BY <3>1 DEF Pii!Vouched
  <2> QED
    BY <2>2, <2>3
<1> QED
  BY <1>1, <1>2, <1>3, NextPath

\* A call begins: all its paths are still to come.
LEMMA StartStep == ASSUME Given, Pii!ScanInv, NEW c \in ScanCalls, Pii!Start(c) PROVE Pii!ScanInv'
<1>1. /\ call.pc = "idle" /\ files # Nothing /\ UNCHANGED <<files, dirs>> /\ touched' = {}
      /\ call' = [Pii!Idle EXCEPT !.pc = IF Pii!Refused(c) THEN "answered" ELSE "target",
                    !.ok = ~Pii!Refused(c), !.paths = c.paths, !.all = Pii!ToSet(c.paths),
                    !.types = c.types, !.max = Pii!FileCap(c), !.byGate = c.byGate]
  BY DEF Pii!Start, Pii!Go
<1>2. c.paths \in Seq(Pii!Known \cup {Root}) /\ c.paths # <<>> /\ Pii!ToSet(c.paths) \subseteq Pii!Known \cup {Root}
  <2>1. c.paths \in Seq(Pii!Known \cup {Root}) /\ c.paths # <<>>
    BY DEF Given, Pii!ScanAssumption
  <2> QED
    BY <2>1, LenProperties, ElementOfSeq DEF Pii!ToSet
<1>3. Pii!FileCap(c) \in Int
  <2>1. /\ c.cap = Nothing \/ c.cap \in Int
        /\ DefaultFiles \in Int /\ MostFiles \in Int
    BY DEF Given, Pii!ScanAssumption
  <2>2. c.cap \in Int => Pii!Min({c.cap, MostFiles}) \in Int
    <3> SUFFICES ASSUME c.cap \in Int PROVE Pii!Min({c.cap, MostFiles}) \in Int
      OBVIOUS
    <3>1. \E x \in {c.cap, MostFiles} : \A y \in {c.cap, MostFiles} : x <= y
      BY <2>1
    <3> QED
      BY <2>1, <3>1 DEF Pii!Min
  <2> QED
    BY <2>1, <2>2 DEF Pii!FileCap
<1>4. Pii!Refused(c) \in BOOLEAN
  BY DEF Pii!Refused
<1> DEFINE no == Pii!Refused(c)
           pc == IF no THEN "answered" ELSE "target"
<1> HIDE DEF no
<1>5. /\ call'.pc = pc /\ call'.ok = ~no /\ call'.paths = c.paths /\ call'.all = Pii!ToSet(c.paths)
      /\ call'.types = c.types /\ call'.max = Pii!FileCap(c) /\ call'.scan = Pii!NoScan
      /\ DOMAIN call' = DOMAIN Pii!Idle
  BY <1>1, ScanFields DEF no
<1>6. Pii!CallOK'
  BY <1>2, <1>3, <1>5 DEF Pii!CallOK
<1>7. Pii!TypeOK'
  <2>1. Pii!ScanOK(call.scan)'
    BY <1>5, NoScanOK DEF Pii!ScanOK
  <2> QED
    BY <1>1, <1>6, <2>1 DEF Pii!ScanInv, Pii!TypeOK
<1> QED
  BY <1>5, <1>7 DEF Pii!ScanInv, Pii!Underway

\* A file changes: it counts as touched, and every other is as it was.
LEMMA ChangeStep == ASSUME Given, Pii!ScanInv, Pii!Change PROVE Pii!ScanInv'
<1>1. PICK f \in Pii!Names, to \in Changes :
        /\ files' = [files EXCEPT ![f] = to]
        /\ touched' = touched \cup {f}
  BY DEF Pii!Change
<1>2. call.pc \notin {"idle", "answered"} /\ UNCHANGED <<dirs, call>>
  BY DEF Pii!Change
<1>3. /\ files \in [Pii!Known -> Pii!Entries]
      /\ dirs \in [Pii!Below -> {"open", "closed", "linked"}] /\ Pii!Names \subseteq Pii!Known
  BY <1>2, InCall DEF Pii!ScanInv
<1>4. \A g : g # f => files'[g] = files[g]
  BY <1>1
<1>5. \A g : g \notin touched' => (Pii!Fine(g)' <=> Pii!Fine(g)) /\ Pii!Resolved(g)' = Pii!Resolved(g)
  BY <1>1, <1>2, <1>4 DEF Pii!Fine, Pii!Resolved
<1>6. Pii!TypeOK'
  <2>1. /\ files' \in [Pii!Known -> Pii!Entries]
        /\ touched' \subseteq Pii!Names
    <3>1. to \in Pii!Entries /\ f \in Pii!Known
      BY <1>1, <1>3 DEF Pii!Entries
    <3> QED
      BY <1>1, <1>3, <3>1 DEF Pii!ScanInv, Pii!TypeOK
  <2>2. files' # Nothing
    BY <2>1 DEF Given, Pii!ScanAssumption
  <2> QED
    BY <1>2, <1>3, <2>1, <2>2 DEF Pii!ScanInv, Pii!TypeOK, Pii!CallOK, Pii!ScanOK
<1>7. Pii!Behind(call.pc, call.scan) => Pii!Behind(call.pc, call.scan)'
  <2>1. \A d, list : Pii!Covered(d, list) => Pii!Covered(d, list)'
    BY <1>1, <1>2, <1>5 DEF Pii!Covered
  <2>2. Pii!OfTree(call.pc, call.scan) => Pii!OfTree(call.pc, call.scan)'
    BY <1>2, <2>1 DEF Pii!OfTree
  <2>3. Pii!OfFile(call.pc, call.scan) => Pii!OfFile(call.pc, call.scan)'
    BY <1>1, <1>2, <1>5 DEF Pii!OfFile
  <2> QED
    BY <1>2, <2>2, <2>3 DEF Pii!Behind
<1>8. Pii!Underway'
  BY <1>2, <1>7 DEF Pii!ScanInv, Pii!Underway, Pii!Sure, Pii!Clean, Pii!Complete
<1>9. \A p : Pii!Vouched(p) => Pii!Vouched(p)'
  BY <1>1, <1>2, <1>5 DEF Pii!Vouched
<1> QED
  BY <1>2, <1>6, <1>8, <1>9 DEF Pii!ScanInv

\* An answered call is over, and nothing else changes what is known.
LEMMA DoneStep == ASSUME Given, Pii!ScanInv, Pii!Done PROVE Pii!ScanInv'
<1>1. /\ call.pc = "answered" /\ call' = Pii!Idle /\ UNCHANGED <<files, dirs, touched>>
  BY DEF Pii!Done, Pii!Go
<1>2. Pii!CallOK'
  <2>1. <<>> \in Seq(Pii!Known \cup {Root}) /\ 0 \in Int
    BY EmptyOf
  <2> QED
    BY <1>1, <2>1, ScanFields DEF Pii!CallOK
<1>3. Pii!TypeOK'
  <2>1. Pii!ScanOK(call.scan)'
    BY <1>1, NoScanOK, ScanFields DEF Pii!ScanOK
  <2>2. files # Nothing
    BY <1>1, InCall DEF Pii!ScanInv
  <2> QED
    BY <1>1, <1>2, <2>1, <2>2 DEF Pii!ScanInv, Pii!TypeOK
<1> QED
  BY <1>1, <1>3, ScanFields DEF Pii!ScanInv, Pii!Underway

\* The evidence is there.
LEMMA CollectedStep == ASSUME Given, Pii!ScanInv, Pii!Collected PROVE Pii!ScanInv'
<1>1. /\ files = Nothing /\ files' \in FileSystems /\ dirs' \in [Pii!Below -> {"open", "closed", "linked"}]
      /\ UNCHANGED <<call, touched>>
  BY DEF Pii!Collected
<1>2. call = Pii!Idle
  BY <1>1 DEF Pii!ScanInv, Pii!TypeOK
<1>3. files' # Nothing /\ files' \in [Pii!Known -> Pii!Entries]
  BY <1>1 DEF Given, Pii!ScanAssumption
<1>4. Pii!TypeOK'
  BY <1>1, <1>3 DEF Pii!ScanInv, Pii!TypeOK, Pii!CallOK, Pii!ScanOK
<1> QED
  BY <1>1, <1>2, <1>4, ScanFields DEF Pii!ScanInv, Pii!Underway

\* At the start nothing is known.
LEMMA ScanInit == ASSUME Given PROVE Pii!Init => Pii!ScanInv
<1> SUFFICES ASSUME Pii!Init PROVE Pii!ScanInv
  OBVIOUS
<1>1. files = Nothing /\ call = Pii!Idle /\ touched = {}
  BY DEF Pii!Init
<1>2. Pii!CallOK
  <2>1. <<>> \in Seq(Pii!Known \cup {Root}) /\ 0 \in Int
    BY EmptyOf
  <2> QED
    BY <1>1, <2>1, ScanFields DEF Pii!CallOK
<1>3. Pii!ScanOK(call.scan)
  BY <1>1, NoScanOK, ScanFields
<1>4. Pii!TypeOK
  BY <1>1, <1>2, <1>3 DEF Pii!TypeOK
<1> QED
  BY <1>1, <1>4, ScanFields DEF Pii!ScanInv, Pii!Underway

\* The gate could not resolve the path.
LEMMA ScanRaisesStep == ASSUME Given, Pii!ScanInv, Pii!ScanRaises PROVE Pii!ScanInv'
<1>1. call.pc = "target" /\ UNCHANGED <<files, dirs, touched>> /\ call' = Pii!Failed
  BY DEF Pii!ScanRaises, Pii!Go
<1> QED
  BY <1>1, FailedStep

\* ScanInv is inductive.
LEMMA ScanNext == ASSUME Given, Pii!ScanInv, [Pii!Next]_Pii!vars PROVE Pii!ScanInv'
<1>1. ASSUME Pii!Next PROVE Pii!ScanInv'
  <2>1. ASSUME Pii!Ask PROVE Pii!ScanInv'
    <3>1. UNCHANGED <<files, dirs, call, touched>>
      BY <2>1 DEF Pii!Ask
    <3> QED
      BY <3>1 DEF Pii!ScanInv, Pii!TypeOK, Pii!CallOK, Pii!ScanOK, Pii!Underway, Pii!Sure,
         Pii!Clean, Pii!Complete, Pii!Behind,
                  Pii!OfTree, Pii!OfFile, Pii!Covered, Pii!Vouched, Pii!Fine, Pii!Resolved
  <2>2. ASSUME NEW c \in ScanCalls, Pii!Start(c) PROVE Pii!ScanInv'
    BY <2>2, StartStep
  <2> QED
    BY <1>1, <2>1, <2>2, CollectedStep, TargetStep, CollectStep, WalkDirStep, CheckFileStep,
       ReadFileStep, FileFailsStep, VerdictStep, ScanRaisesStep, TimePassesStep, ChangeStep,
       DoneStep DEF Pii!Next
<1>2. ASSUME UNCHANGED Pii!vars PROVE Pii!ScanInv'
  <2>1. UNCHANGED <<files, dirs, call, touched>>
    BY <1>2 DEF Pii!vars
  <2> QED
    BY <2>1 DEF Pii!ScanInv, Pii!TypeOK, Pii!CallOK, Pii!ScanOK, Pii!Underway, Pii!Sure,
       Pii!Clean, Pii!Complete, Pii!Behind,
                Pii!OfTree, Pii!OfFile, Pii!Covered, Pii!Vouched, Pii!Fine, Pii!Resolved
<1> QED
  BY <1>1, <1>2

\* A scan in good order vouches for all that is behind it, in every reachable
\* state (scanner.py, gate.py).
THEOREM ScanInvCorrect == ASSUME Pii!ScanAssumption, Pii!DetectorsAssumption PROVE Pii!Spec => []Pii!ScanInv
<1>1. Pii!Init => Pii!ScanInv
  BY ScanInit DEF Given
<1>2. Pii!ScanInv /\ [Pii!Next]_Pii!vars => Pii!ScanInv'
  BY ScanNext DEF Given
<1> QED
  BY <1>1, <1>2, PTL DEF Pii!Spec

\* A call that passes was read to its end and is clean, whatever the limits, the
\* kinds of file, the failures and the changes in between (gate.py).
THEOREM PassedIsCleanCorrect ==
    ASSUME Pii!ScanAssumption, Pii!DetectorsAssumption PROVE Pii!Spec => []Pii!PassedIsClean
<1>1. Pii!ScanInv => Pii!PassedIsClean
  <2>1. call.pc = "answered" /\ call.ok /\ Pii!ScanInv => Pii!ToSet(call.paths) = {}
    BY EmptyOf DEF Pii!ScanInv
  <2> QED
    BY <2>1 DEF Pii!ScanInv, Pii!PassedIsClean
<1> QED
  BY <1>1, ScanInvCorrect, PTL
=============================================================================
