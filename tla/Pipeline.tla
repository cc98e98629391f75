------------------------------ MODULE Pipeline ------------------------------
(***************************************************************************)
(* stabilize_test_failure (orchestrator/pipeline.py): the approval hook    *)
(* that sees the call before it runs (orchestrator/hooks.py), the stages,  *)
(* the fork into a heal and a bug branch, the PII gate (pii/gate.py), the  *)
(* handler that files an issue (incidents/write.py) and the ledger         *)
(* (storage/pipeline_runs.py), while the operator edits config.json and    *)
(* the evidence files change.                                              *)
(*                                                                         *)
(* What a stage finds is chosen freely.  Texts and their redaction are     *)
(* left out: an evidence file is dirty, because of PII or because the scan *)
(* cannot complete, or it is not.                                          *)
(*                                                                         *)
(* A definition named ...Slip is the next one with a plausible mistake.    *)
(***************************************************************************)
EXTENDS Naturals, FiniteSets

CONSTANTS
    Runs,
    Dead,      \* runs killed earlier, whose file is still in the spool
    Calls,     \* the arguments calls are made with, a set of ArgType
    MaxEdits,  \* bound: edits of config.json
    MaxChanges, \* bound: changes of an evidence file
    Troubles   \* what may go wrong outside: "lost" answers, "disk" errors,
               \* "crash" of the process

ArgType == [log : {"none", "local", "remote", "build"}, test : BOOLEAN,
            repo : BOOLEAN, mode : {"none", "suggest", "pr"},
            extra : {"none", "list", "bad"}]

\* jira.enable_write, pipeline.require_pii_gate, pipeline.default_heal_mode
ConfigType == [write : BOOLEAN, gate : BOOLEAN, mode : {"suggest", "pr"}]

ASSUME PipelineAssumption ==
    /\ Dead \subseteq Runs /\ Calls \subseteq ArgType /\ Calls # {}
    /\ MaxEdits \in Nat /\ MaxChanges \in Nat
    /\ Troubles \subseteq {"lost", "disk", "crash"}

BugStages == {"bugreport", "dedup", "pii", "tracker"}
Stages == {"evidence", "detective", "triage", "healer"} \cup BugStages
Results == {"fresh", "skipped", "error", "ok"}
Files == {"log", "extra"}

VARIABLES
    config,   \* config.json
    token,    \* JIRA_API_TOKEN is set
    dirty,    \* the evidence files that do not pass a scan
    budget,
    run,
    spool,    \* the runs with a file in pipeline-evidence/
    issues,   \* the runs that filed an issue
    prs,      \* the runs that opened a pull request
    fed,      \* the runs whose burn-in reached the test history
    ledger    \* the rows of pipeline_runs

world == <<config, token, dirty, budget>>
vars == <<world, run, spool, issues, prs, fed, ledger>>

NoRun == [pc |-> "idle", args |-> CHOOSE a \in Calls : TRUE,
          cfg |-> [write |-> FALSE, gate |-> TRUE, mode |-> "suggest"],
          approved |-> FALSE, log |-> "none", verdict |-> FALSE,
          category |-> "none", branch |-> "none", outcome |-> "needs_attention",
          res |-> [k \in Stages |-> "fresh"],
          edited |-> FALSE, \* config.json was edited between the hook and build_pipeline
          tainted |-> {},   \* the files that have been dirty since the call
          hit |-> FALSE]    \* a write or an unlink failed, or the run was killed

Init ==
    /\ config \in ConfigType /\ token \in BOOLEAN
    /\ dirty \in SUBSET Files
    /\ budget = [edits |-> MaxEdits, changes |-> MaxChanges]
    /\ run = [r \in Runs |-> IF r \in Dead THEN [NoRun EXCEPT !.pc = "end", !.hit = TRUE]
                                        ELSE NoRun]
    /\ spool = Dead /\ issues = {} /\ prs = {} /\ fed = {} /\ ledger = {}

-----------------------------------------------------------------------------
(* The world around a run.                                                 *)

EditConfig(c) ==
    /\ c # config /\ budget.edits > 0
    /\ config' = c
    /\ run' = [r \in Runs |-> [run[r] EXCEPT !.edited = @ \/ run[r].pc \in {"approval", "build"}]]
    /\ budget' = [budget EXCEPT !.edits = @ - 1]
    /\ UNCHANGED <<token, dirty, spool, issues, prs, fed, ledger>>

ChangeFile(f) ==
    /\ budget.changes > 0
    /\ dirty' = IF f \in dirty THEN dirty \ {f} ELSE dirty \cup {f}
    /\ run' = [r \in Runs |-> [run[r] EXCEPT !.tainted = @ \cap dirty']]
    /\ budget' = [budget EXCEPT !.changes = @ - 1]
    /\ UNCHANGED <<config, token, spool, issues, prs, fed, ledger>>

-----------------------------------------------------------------------------
(* The hook and the approval.                                              *)

\* _pipeline_heal_mode, and _heal_branch in the run itself.
HealMode(args, c) == IF args.mode # "none" THEN args.mode ELSE c.mode

\* The hook sees the argument only.
EscalatesSlip(args, c) == args.mode = "pr" \/ (token /\ c.write)

\* pre_tool_call, with _jira_write_live
Escalates(args, c) == HealMode(args, c) = "pr" \/ (token /\ c.write)

Call(r, args) ==
    /\ run[r].pc = "idle"
    /\ run' = [run EXCEPT ![r].pc = IF Escalates(args, config) THEN "approval"
                                                               ELSE "build",
                          ![r].args = args, ![r].tainted = dirty]
    /\ UNCHANGED <<world, spool, issues, prs, fed, ledger>>

\* /stabilize: what the user types calls the handler without the hook, and is its
\* own approval; its list of files is one.
Command(r, args) ==
    /\ run[r].pc = "idle" /\ args.extra # "bad"
    /\ run' = [run EXCEPT ![r].pc = "build", ![r].approved = TRUE,
                          ![r].args = args, ![r].tainted = dirty]
    /\ UNCHANGED <<world, spool, issues, prs, fed, ledger>>

Approve(r) ==
    /\ run[r].pc = "approval"
    /\ run' = [run EXCEPT ![r].pc = "build", ![r].approved = TRUE]
    /\ UNCHANGED <<world, spool, issues, prs, fed, ledger>>

Deny(r) ==
    /\ run[r].pc = "approval"
    /\ run' = [run EXCEPT ![r].pc = "end"]
    /\ UNCHANGED <<world, spool, issues, prs, fed, ledger>>

\* build_pipeline loads the configuration of the run.
Build(r) ==
    /\ run[r].pc = "build"
    /\ run' = [run EXCEPT ![r].pc = "evidence", ![r].cfg = config]
    /\ UNCHANGED <<world, spool, issues, prs, fed, ledger>>

-----------------------------------------------------------------------------
(* The stages up to the fork.                                              *)

\* The results of run r with those of `stages' set.
With(r, stages, result) ==
    [k \in Stages |-> IF k \in stages THEN result ELSE run[r].res[k]]

\* Run r goes on at `pc' with the results `res'.
Proceed(r, pc, res) == run' = [run EXCEPT ![r].pc = pc, ![r].res = res]

Works == IF "disk" \in Troubles THEN BOOLEAN ELSE {TRUE}

Local(r) == run[r].log \in {"local", "spooled"}

\* _evidence: a log that is given, or fetched into the spool; what killed runs
\* left there a day ago goes.  A write that fails leaves its file behind.
Evidence(r) ==
    /\ run[r].pc = "evidence"
    /\ \/ /\ run[r].args.log \in {"local", "remote"}
          /\ run' = [run EXCEPT ![r].pc = "history", ![r].log = run[r].args.log,
                                ![r].res = With(r, {"evidence"}, "ok")]
          /\ UNCHANGED spool
       \/ /\ run[r].args.log = "none"
          /\ Proceed(r, "history", With(r, {"evidence"}, "skipped"))
          /\ UNCHANGED spool
       \/ /\ run[r].args.log = "build"
          /\ Proceed(r, "history", With(r, {"evidence"}, "error"))
          /\ UNCHANGED spool
       \/ /\ run[r].args.log = "build"
          /\ \E old \in SUBSET {s \in spool : run[s].pc = "end"}, wrote \in Works :
               /\ spool' = (spool \ old) \cup {r}
               /\ run' = [run EXCEPT ![r].pc = "history", ![r].hit = ~wrote,
                            ![r].log = IF wrote THEN "spooled" ELSE "none",
                            ![r].res = With(r, {"evidence"}, IF wrote THEN "ok" ELSE "error")]
    /\ UNCHANGED <<world, issues, prs, fed, ledger>>

\* _history: the detective's verdict; of the lookup beside it nothing depends.
History(r) ==
    /\ run[r].pc = "history"
    /\ \/ /\ ~run[r].args.test
          /\ Proceed(r, "triage", With(r, {"detective"}, "skipped"))
       \/ /\ run[r].args.test
          /\ \E asked \in {"ok", "error"}, flaky \in BOOLEAN :
               /\ flaky => asked = "ok"
               /\ run' = [run EXCEPT ![r].pc = "triage", ![r].verdict = flaky,
                                   ![r].res = With(r, {"detective"}, asked)]
    /\ UNCHANGED <<world, spool, issues, prs, fed, ledger>>

\* _triage; a category is one the healer takes ("heal") or another ("bug").
Triage(r) ==
    /\ run[r].pc = "triage"
    /\ \/ /\ run[r].log = "none"
          /\ Proceed(r, "fork", With(r, {"triage"}, "skipped"))
       \/ /\ run[r].log # "none"
          /\ \/ Proceed(r, "fork", With(r, {"triage"}, "error"))
             \/ \E c \in {"heal", "bug"} :
                  run' = [run EXCEPT ![r].pc = "fork", ![r].category = c,
                                     ![r].res = With(r, {"triage"}, "ok")]
    /\ UNCHANGED <<world, spool, issues, prs, fed, ledger>>

\* What the run may fork on: "flaky" without a category, if that is the verdict,
\* and heal_categories need not have it.
Categories(r) == IF run[r].category = "none" /\ run[r].verdict
                   THEN {"heal", "bug"} ELSE {run[r].category}

Skipped(r, c) ==
    CASE c = "heal" -> With(r, BugStages, "skipped")
      [] c = "bug" -> With(r, {"healer"}, "skipped")
      [] OTHER -> With(r, {"healer"} \cup BugStages, "skipped")

Destination(c) == IF c = "none" THEN "ledger" ELSE c

Fork(r) ==
    /\ run[r].pc = "fork"
    /\ \E c \in Categories(r) :
         run' = [run EXCEPT ![r].pc = Destination(c), ![r].category = c, ![r].branch = c,
                            ![r].res = Skipped(r, c)]
    /\ UNCHANGED <<world, spool, issues, prs, fed, ledger>>

-----------------------------------------------------------------------------
(* The heal branch.                                                        *)

\* Run r reaches `pc' with the result of one stage and an outcome.
Ends(r, pc, stages, result, outcome) ==
    run' = [run EXCEPT ![r].pc = pc, ![r].outcome = outcome,
                       ![r].res = With(r, stages, result)]

Healable(r) == run[r].args.repo /\ run[r].args.test

HealSkipped(r) ==
    /\ run[r].pc = "heal" /\ ~Healable(r)
    /\ Ends(r, "ledger", {"healer"}, "skipped", "needs_attention")
    /\ UNCHANGED <<world, spool, issues, prs, fed, ledger>>

\* The healer raises, or reports a heal that is not stable.
HealFails(r) ==
    /\ run[r].pc = "heal" /\ Healable(r)
    /\ \E result \in {"error", "ok"} :
         Ends(r, "ledger", {"healer"}, result, "needs_attention")
    /\ UNCHANGED <<world, spool, issues, prs, fed, ledger>>

\* A stable heal, and in PR mode the pull request (GitFlow): opened or not, and
\* opened with the answer lost.  _feed_back_burnin writes to the history if it can.
Heal(r) ==
    /\ run[r].pc = "heal" /\ Healable(r)
    /\ \E told \in {TRUE, "lost" \notin Troubles} :
         \/ /\ HealMode(run[r].args, run[r].cfg) = "pr"
            /\ prs' = prs \cup {r}
            /\ Ends(r, "ledger", {"healer"}, "ok", IF told THEN "pr_opened" ELSE "healed")
         \/ /\ Ends(r, "ledger", {"healer"}, "ok", "healed")
            /\ UNCHANGED prs
    /\ fed' \in {fed, fed \cup {r}}
    /\ UNCHANGED <<world, spool, issues, ledger>>

-----------------------------------------------------------------------------
(* The bug branch.                                                         *)

BugReport(r) ==
    /\ run[r].pc = "bug"
    /\ \/ Ends(r, "ledger", {"bugreport"}, "error", "needs_attention")
       \/ Proceed(r, "dedup", With(r, {"bugreport"}, "ok"))
    /\ UNCHANGED <<world, spool, issues, prs, fed, ledger>>

\* _dedup: advisory; a failure of the lookup stops nothing.
Dedup(r) ==
    /\ run[r].pc = "dedup"
    /\ \E result \in {"ok", "error", "skipped"} : Proceed(r, "gate", With(r, {"dedup"}, result))
    /\ UNCHANGED <<world, spool, issues, prs, fed, ledger>>

\* evidence_paths, and the log unless it is remote, which is told by its first
\* letters, "http".
EvidenceFiles(r) == (IF run[r].args.extra = "list" THEN {"extra"} ELSE {})
                       \cup (IF Local(r) THEN {"log"} ELSE {})

\* assert_evidence_clean: every file is clean and was scanned to its end.
Clean(r) == EvidenceFiles(r) \cap dirty = {}

Blocked(r) == [With(r, {"pii"}, "error") EXCEPT !["tracker"] = "skipped"]

\* _coerce_evidence_paths refuses what is not a list of paths.
Coerce(r) ==
    /\ run[r].pc = "gate" /\ run[r].args.extra = "bad"
    /\ Proceed(r, "ledger", Blocked(r))
    /\ UNCHANGED <<world, spool, issues, prs, fed, ledger>>

\* _pii_gate
Gate(r) ==
    /\ run[r].pc = "gate" /\ run[r].args.extra # "bad"
    /\ \/ /\ ~run[r].cfg.gate
          /\ Proceed(r, "tracker", With(r, {"pii"}, "skipped"))
       \/ /\ run[r].cfg.gate /\ Clean(r)
          /\ Proceed(r, "tracker", With(r, {"pii"}, "ok"))
       \/ /\ run[r].cfg.gate /\ ~Clean(r)
          /\ Proceed(r, "ledger", Blocked(r))
    /\ UNCHANGED <<world, spool, issues, prs, fed, ledger>>

\* _tracker: the ticket to file by hand, or the call of the handler.
Tracker(r) ==
    /\ run[r].pc = "tracker"
    /\ \/ /\ ~run[r].cfg.write
          /\ Ends(r, "ledger", {"tracker"}, "skipped", "ticket_ready")
       \/ /\ run[r].cfg.write
          /\ Proceed(r, "file", run[r].res)
    /\ UNCHANGED <<world, spool, issues, prs, fed, ledger>>

-----------------------------------------------------------------------------
(* handle_create_incident, called by the tracker stage: it loads the       *)
(* configuration again and runs a gate of its own, whatever the pipeline's *)
(* configuration said.                                                     *)

Refuse(r) == Ends(r, "ledger", {"tracker"}, "error", "needs_attention")

\* A title, a body or a list that is too long is refused as well.
CheckWrite(r) ==
    /\ run[r].pc = "file"
    /\ (config.write /\ Proceed(r, "scan", run[r].res)) \/ Refuse(r)
    /\ UNCHANGED <<world, spool, issues, prs, fed, ledger>>

\* The pipeline's gate has been passed already, or waived.
ScanAgainSlip(r) ==
    /\ run[r].pc = "scan"
    /\ Proceed(r, "post", run[r].res)
    /\ UNCHANGED <<world, spool, issues, prs, fed, ledger>>

ScanAgain(r) ==
    /\ run[r].pc = "scan"
    /\ IF Clean(r) THEN Proceed(r, "post", run[r].res) ELSE Refuse(r)
    /\ UNCHANGED <<world, spool, issues, prs, fed, ledger>>

\* The answer is read as created though the request failed.
PostSlip(r) ==
    /\ run[r].pc = "post" /\ token
    /\ issues' \in {issues, issues \cup {r}}
    /\ Ends(r, "ledger", {"tracker"}, "ok", "ticket_created")
    /\ UNCHANGED <<world, spool, prs, fed, ledger>>

\* create_incident: the request files the issue; its answer may be lost.
Post(r) ==
    /\ run[r].pc = "post" /\ token
    /\ issues' = issues \cup {r}
    /\ \/ Ends(r, "ledger", {"tracker"}, "ok", "ticket_created")
       \/ "lost" \in Troubles /\ Refuse(r)
    /\ UNCHANGED <<world, spool, prs, fed, ledger>>

\* No credentials, or the tracker refuses.
PostFails(r) ==
    /\ run[r].pc = "post"
    /\ Refuse(r)
    /\ UNCHANGED <<world, spool, issues, prs, fed, ledger>>

-----------------------------------------------------------------------------
(* The end of a run.                                                       *)

Row(r) == [run |-> r, category |-> run[r].category, branch |-> run[r].branch,
           outcome |-> run[r].outcome, res |-> run[r].res]

\* _ledger: a row that cannot be written is logged and forgotten.
Ledger(r) ==
    /\ run[r].pc = "ledger"
    /\ \E wrote \in Works :
         /\ ledger' = IF wrote THEN ledger \cup {Row(r)} ELSE ledger
         /\ run' = [run EXCEPT ![r].pc = "cleanup", ![r].hit = @ \/ ~wrote]
    /\ UNCHANGED <<world, spool, issues, prs, fed>>

Spooled(r) == IF run[r].log = "spooled" THEN {r} ELSE {}

\* The file is removed on the branch that uses it.
CleanupSlip(r) ==
    /\ run[r].pc = "cleanup"
    /\ \E removed \in Works :
         /\ spool' = IF removed /\ run[r].branch = "bug" THEN spool \ Spooled(r) ELSE spool
         /\ run' = [run EXCEPT ![r].pc = "end",
                               ![r].hit = @ \/ (~removed /\ Spooled(r) # {})]
    /\ UNCHANGED <<world, issues, prs, fed, ledger>>

\* _cleanup_spooled_evidence
Cleanup(r) ==
    /\ run[r].pc = "cleanup"
    /\ \E removed \in Works :
         /\ spool' = IF removed THEN spool \ Spooled(r) ELSE spool
         /\ run' = [run EXCEPT ![r].pc = "end",
                               ![r].hit = @ \/ (~removed /\ Spooled(r) # {})]
    /\ UNCHANGED <<world, issues, prs, fed, ledger>>

Crash(r) ==
    /\ "crash" \in Troubles /\ run[r].pc \notin {"idle", "end"}
    /\ run' = [run EXCEPT ![r].pc = "end", ![r].hit = TRUE]
    /\ UNCHANGED <<world, spool, issues, prs, fed, ledger>>

-----------------------------------------------------------------------------

World == (\E c \in ConfigType : EditConfig(c)) \/ (\E f \in Files : ChangeFile(f))

Host(r) ==
    (\E args \in Calls : Call(r, args) \/ Command(r, args)) \/ Approve(r) \/ Deny(r) \/ Crash(r)

Common(r) == Build(r) \/ Evidence(r) \/ History(r) \/ Triage(r) \/ Fork(r)

HealBranch(r) == HealSkipped(r) \/ HealFails(r) \/ Heal(r)

BugBranch(r) ==
    \/ BugReport(r) \/ Dedup(r) \/ Coerce(r) \/ Gate(r) \/ Tracker(r)
    \/ CheckWrite(r) \/ ScanAgain(r) \/ Post(r) \/ PostFails(r)

Closing(r) == Ledger(r) \/ Cleanup(r)

Next ==
    \/ World
    \/ \E r \in Runs :
         Host(r) \/ Common(r) \/ HealBranch(r) \/ BugBranch(r) \/ Closing(r)

Spec == Init /\ [][Next]_vars

-----------------------------------------------------------------------------
(* Properties.                                                             *)

Pcs == {"idle", "approval", "build", "evidence", "history", "triage", "fork",
        "heal", "bug", "dedup", "gate", "tracker", "file", "scan", "post",
        "ledger", "cleanup", "end"}
Logs == {"none", "local", "remote", "spooled"}
Branches == {"none", "heal", "bug"}
Outcomes == {"needs_attention", "healed", "pr_opened", "ticket_ready", "ticket_created"}

RunType == [pc : Pcs, args : ArgType, cfg : ConfigType, approved : BOOLEAN, log : Logs,
            verdict : BOOLEAN, category : Branches, branch : Branches,
            outcome : Outcomes, res : [Stages -> Results], edited : BOOLEAN,
            tainted : SUBSET Files, hit : BOOLEAN]

\* Every variable has its type; a run that never reached the fork has no branch.
TypeOK ==
    /\ config \in ConfigType /\ token \in BOOLEAN /\ dirty \subseteq Files
    /\ budget \in [edits : 0..MaxEdits, changes : 0..MaxChanges]
    /\ run \in [Runs -> RunType]
    /\ spool \subseteq Runs /\ issues \subseteq Runs /\ prs \subseteq Runs
    /\ fed \subseteq Runs /\ \A row \in ledger : row.run \in Runs

\* Whatever the arguments, the defaults and the branch, a run that filed an
\* issue or opened a pull request was approved first, or typed by the user,
\* provided config.json was not edited between the hook's read of it and the
\* run's (hooks.py).
WritesApproved ==
    \A r \in issues \cup prs : run[r].edited \/ run[r].approved

\* The same of every issue, with no proviso: the hook is described as the gate
\* of every run that could write.
TicketsApproved == \A r \in issues : run[r].approved

\* No issue is filed on evidence that has been dirty since the call, though the
\* files change, the configuration waives the pipeline's own gate and is edited.
TicketEvidenceClean == \A r \in issues : run[r].tainted \cap EvidenceFiles(r) = {}

\* A row of the ledger claims nothing that did not happen: an issue or a pull
\* request it names exists, a ticket to file by hand was not filed, and the
\* history was fed by stable heals only.  No run writes on both branches.
OutcomesTrue ==
    /\ issues \cap prs = {}
    /\ \A row \in ledger :
         /\ row.outcome = "ticket_created" => row.run \in issues
         /\ row.outcome = "pr_opened" => row.run \in prs
         /\ row.outcome = "ticket_ready" => row.run \notin issues
         /\ row.run \in fed => row.outcome \in {"healed", "pr_opened"}

\* The claim the ledger's note makes: a run that needs attention filed nothing.
AttentionFiledNothing ==
    \A row \in ledger : row.outcome = "needs_attention" => row.run \notin issues

\* The ledger's branch is the fork's, whatever became of the branch: exactly the
\* stages of the other one are skipped at the fork, one that was blocked by the
\* gate never reached the tracker, and a row has the stages its outcome needs.
LedgerTellsBranch ==
    \A row \in ledger :
      /\ row.branch = row.category
      /\ row.branch = "heal" => \A k \in BugStages : row.res[k] = "skipped"
      /\ row.branch = "bug" => row.res["healer"] = "skipped" /\ row.res["bugreport"] # "fresh"
      /\ row.res["pii"] = "error" =>
           row.res["tracker"] = "skipped" /\ row.outcome = "needs_attention"
      /\ row.outcome \in {"ticket_ready", "ticket_created"} =>
           row.branch = "bug" /\ row.res["pii"] \in {"ok", "skipped"}

\* The ledger, read alone, tells what a run did and how it came to it.
LedgerTrue == OutcomesTrue /\ LedgerTellsBranch

\* A file in the spool belongs to a run in progress, or one that was killed or
\* whose write or unlink failed; every other run that ended cleaned up.
SpoolOwned == \A r \in spool : run[r].pc = "end" => run[r].hit

-----------------------------------------------------------------------------
(* The inductive invariant behind the four properties above.               *)

BeforeFork == {"idle", "approval", "build", "evidence", "history", "triage", "fork"}
OnBugBranch == {"bug", "dedup", "gate", "tracker", "file", "scan", "post"}
AfterBranch == {"ledger", "cleanup", "end"}

\* A run that goes on without approval is one the hook lets pass, under the
\* configuration it read or will read, unless that was edited in between.
Passed(r) ==
    /\ run[r].pc = "build" =>
         run[r].edited \/ run[r].approved \/ ~Escalates(run[r].args, config)
    /\ run[r].pc \notin {"idle", "approval", "build", "end"} =>
         run[r].edited \/ run[r].approved \/ ~Escalates(run[r].args, run[r].cfg)
    /\ run[r].pc \in {"file", "scan", "post"} => run[r].cfg.write
    /\ r \in issues \cup prs => run[r].edited \/ run[r].approved

\* What is tainted is dirty, and the request is made on a clean scan.
ScannedBeforePost(r) ==
    /\ run[r].tainted \subseteq dirty
    /\ run[r].pc = "post" \/ r \in issues => run[r].tainted \cap EvidenceFiles(r) = {}

\* What has happened outside, by branch and only at the end of it.
Effects(r) ==
    /\ r \in issues => run[r].pc \in AfterBranch /\ run[r].branch = "bug"
    /\ r \in prs \cup fed => run[r].pc \in AfterBranch /\ run[r].branch = "heal"

\* The results on the way to the ledger: what each stage has left.
Way(r) ==
    /\ run[r].pc \in BeforeFork => \A k \in {"healer"} \cup BugStages : run[r].res[k] = "fresh"
    /\ run[r].pc \notin AfterBranch => run[r].outcome = "needs_attention"
    /\ run[r].pc \in {"heal"} \cup OnBugBranch => run[r].branch = run[r].category
    /\ run[r].pc = "heal" =>
         run[r].branch = "heal" /\ \A k \in BugStages : run[r].res[k] = "skipped"
    /\ run[r].pc \in OnBugBranch => run[r].branch = "bug" /\ run[r].res["healer"] = "skipped"
    /\ run[r].pc \in {"bug", "dedup", "gate"} => run[r].res["pii"] = "fresh"
    /\ run[r].pc \in OnBugBranch \ {"bug"} => run[r].res["bugreport"] # "fresh"
    /\ run[r].pc \in {"tracker", "file", "scan", "post"} => run[r].res["pii"] \in {"ok", "skipped"}

\* A row that claims nothing that did not happen, and tells its branch.
RowTrue(row) ==
    /\ row.outcome = "ticket_created" => row.run \in issues
    /\ row.outcome = "pr_opened" => row.run \in prs
    /\ row.outcome = "ticket_ready" => row.run \notin issues
    /\ row.run \in fed => row.outcome \in {"healed", "pr_opened"}
    /\ row.branch = row.category
    /\ row.branch = "heal" => \A k \in BugStages : row.res[k] = "skipped"
    /\ row.branch = "bug" => row.res["healer"] = "skipped" /\ row.res["bugreport"] # "fresh"
    /\ row.res["pii"] = "error" =>
         row.res["tracker"] = "skipped" /\ row.outcome = "needs_attention"
    /\ row.outcome \in {"ticket_ready", "ticket_created"} =>
         row.branch = "bug" /\ row.res["pii"] \in {"ok", "skipped"}

\* A file in the spool was put there by its run, and goes with it.
SpoolKept(r) ==
    /\ r \in spool => /\ run[r].pc \notin {"idle", "approval", "build", "evidence"}
                      /\ run[r].log = "spooled" \/ run[r].hit
    /\ r \in spool /\ run[r].pc = "end" => run[r].hit

RunInv(r) ==
    /\ Passed(r) /\ ScannedBeforePost(r) /\ Effects(r) /\ Way(r) /\ SpoolKept(r)
    /\ run[r].pc = "ledger" => RowTrue(Row(r))

RowInv(row) == run[row.run].pc \in {"cleanup", "end"} /\ RowTrue(row)

PipelineInv == (\A r \in Runs : RunInv(r)) /\ (\A row \in ledger : RowInv(row))
=============================================================================
