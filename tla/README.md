# Formal models of hermes-flaky-stabilization

TLA+ models of the plugin `hermes_flaky_stabilization`, TLC runs that check them on
small instances, and TLAPS proofs of the properties that matter most for every
instance. Paths below are relative to `hermes_flaky_stabilization/`.

## 1. The system

The plugin runs inside the Hermes agent host. It watches a project's CI failures,
decides whether a test is flaky, heals it in a sandbox or files a bug, and keeps a
local index of Jira incidents. It has no server of its own: its code runs in the
host's turn loop (tool calls and hooks), on daemon threads it starts, and in
command-line processes (often cron jobs) that share its two SQLite files,
`test-history/history.db` and `flaky-stabilization/state.db`.

| component | code | state it keeps | operations | what makes it correct |
|---|---|---|---|---|
| Jira index sync | `incidents/ingest.py`, `incidents/cli.py` | `incidents` rows; meta rows: watermark, backfill flag and token, incremental token and pending stamp, the query they belong to, the `--full` checkpoint | `run_sync`, `jira sync [--full]`, background run, retention | no issue is lost below the watermark; tokens belong to their query; the index converges; `--full` deletes only what is gone |
| Incident service | `incidents/__init__.py`, `sync.py`, `prefetch.py` | store, client, scheduler, config, prefetch cache, lifecycle lock | `initialize`, `shutdown`, `trigger_sync`, `llm_context`, tools | a sync never loses its store; one sync at a time; the cache never serves an index that was replaced; turns never block |
| Incident store | `incidents/store.py` | rows, FTS mirror, links, meta | `upsert_many`, `search`, prune, delete, migrate | mirror and rows agree; all or nothing per batch |
| Incident reads | `incidents/reader.py`, `dedup.py`, `egress.py`, `pii/redaction.py` | none | search, duplicates, redaction | nothing unredacted leaves |
| Tracker write | `incidents/write.py`, `jira_client.py` | none | `jira_create_incident` | only an approved, PII-clean, enabled call writes |
| Healer | `healer/handlers.py`, `flaky_healer/healer.py`, `recipes/*` | `healer_runs`, `recipes`, `audit` | diagnose, reproduce, patch, burn in, record, suggest or open a PR | only a patch that was reproduced red and burnt in green is offered or remembered |
| Git flow | `flaky_healer/gitflow.py` | the user's checkout | branch, apply, commit, push, PR, restore | the user's branch and edits survive every outcome |
| Sandboxes | `flaky_healer/sandbox/*` | temporary copies, containers | repeated runs, time-outs | a result is what the runs did; nothing leaks or hangs |
| Fix strategies | `flaky_healer/strategies/*` | none | anchored patches | a patch applies where it was planned or not at all |
| Trace, logs, CI | `flaky_healer/trace.py`, `zipsafe.py`, `ci*`, `diagnose.py`, `logfilter.py` | none | parse, fetch, diagnose | bounded work on any archive |
| Pipeline | `orchestrator/pipeline.py`, `storage/pipeline_runs.py` | `pipeline_runs` ledger | `stabilize_test_failure` | the fork, the gates and the ledger agree |
| Hooks | `orchestrator/hooks.py` | none | approval escalation, context injection, session start | no external write without approval |
| Detective | `detective/*` | `flaky_verdicts`, `scan_runs` | `scan`, `is_flaky`, reports | a verdict is reported new exactly once, and clears |
| Test history | `history/*` | `history.db` | ingest, prune, lookups | a re-ingested file counts once |
| Triage | `triage/*` | `triage_patterns` (+FTS) | fetch, filter, classify, learn | bounded fetches; only confident patterns are learnt |
| Bug report | `bugreport/*` | none | one structured model call with one retry | |
| PII scan and gate | `pii/*` | none | scan files, gate a ticket | a scan that stopped early never says clean |
| State database | `storage/state.py`, `db.py`, `migrate_legacy.py` | schema version, migrated rows | migrations, legacy copy | each migration once, whoever comes first |
| Configuration, cron | `config.py`, `cronjobs.py`, `cli.py`, `paths.py` | `config.json`, cron shims | read, update, install | concurrent updates of two sections both survive |

Interactions: `on_session_start` (hooks) initialises the incident service, which starts
the background sync; every incident tool call triggers it again; `pre_llm_call` reads
the prefetch cache; the pipeline calls detective, history, triage, healer, bug report,
dedup, PII gate and tracker write as plain functions and git/PR tools through the host.
The command line and cron open the same databases from other processes.

### Hard behaviours

* **Many writes, one run.** A sync stores rows and up to eight meta values in single
  commits; a process may end between any two of them, and the next run goes on from
  whatever is there (`ingest.py:285-304`, `498-536`).
* **A result set that moves.** Jira is paged newest first while issues are edited; an
  edited issue jumps behind the cursor (`ingest.py:440-495`).
* **Two kinds of run on the same progress.** `jira sync --full` and the background sync
  share the backfill flag and token (`cli.py:171-214`).
* **A thread that reads fields nobody locks for it.** The sync thread reads the service's
  store, client and configuration one by one while `initialize` replaces them
  (`incidents/__init__.py:226-307`, `400-423`).
* **Builds that outlive what they were built from.** A prefetch started before a sync may
  end after it (`prefetch.py:110-148`).
* **A host that may refuse, lose an answer or answer in an unknown shape** to each of the
  git dispatches, in a checkout somebody works in (`gitflow.py:158-302`).
* **Several reads of one configuration.** Approval hook, pipeline and tracker handler
  each load `config.json` (`hooks.py:46-141`, `pipeline.py:765-824`, `write.py:153-220`).
* **Whole reports that are read twice, corrected or pruned** while a nightly scan reads,
  stores and only then prints (`detective/scan.py:76-118`, `history/ingest.py`).
* **One SQLite connection for all threads of the gateway**, and writes without a rollback:
  a refused statement leaves its transaction and its old snapshot open
  (`history/storage.py:195`, `incidents/store.py:525-580`).
* **DDL that commits by itself**, by any process that opens the file first
  (`storage/state.py:135-160`).
* **An exit code that may be no test's**, and a second attempt that fills the report of
  the first (`sandbox/subproc.py:172`, `healer.py:412-430`).
* **Limits after limits**: windows, repetitions, lines and characters of a log, files,
  bytes, findings and seconds of a scan (`triage/prefilter.py:191`, `pii/scanner.py:592`).
* **Stages that fail one by one**, a ledger that says what happened, and a spool file
  that has to go away whatever did (`pipeline.py:240-360`, `715-757`).

## 2. Modules

| module | models | checked by | proofs |
|---|---|---|---|
| `JiraSync` | index sync, its rows and meta values | `MCJiraSync` | `JiraSyncProofs` |
| `PrefetchCache` | prefetch cache, pool, and the sync that clears it | `MCPrefetchCache` | `PrefetchCacheProofs` |
| `IncidentService` | lifecycle of the service, its schedulers and sync threads | `MCIncidentService` | `IncidentServiceProofs` |
| `GitFlow` | pull-request flow and the checkout it works in | `MCGitFlow` | `GitFlowProofs` |
| `Pipeline` | `stabilize_test_failure`, approval hook, gates, ledger, spool | `MCPipeline` | `PipelineProofs` |
| `HistoryData` | the rows of the test history: parsing, window queries, verdicts, lookups | `MCDetective`, `MCTestHistory` | `DetectiveProofs` |
| `TestHistory` | `history.db` and the connections that write it | `MCTestHistory` | `DetectiveProofs` |
| `FlakyNews` | what the reports of the scans promise (abstract) | `MCDetective` | `DetectiveProofs` |
| `Detective` | the nightly scan, beside CI, ingests, prunes and feedback | `MCDetective` | `DetectiveProofs` |
| `FixStrategies` | diagnosis, planned patches and their application | `MCHealer` | `HealerProofs` |
| `Healer` | `heal_flaky_test` and the recipe store | `MCHealer` | `HealerProofs` |
| `LogText` | capped transfer, excerpt, signature and tokens of a log | `MCTriage` | |
| `Triage` | `triage_pipeline_failure` and the pattern store | `MCTriage` | `StateStoreProofs` |
| `PiiText` | hits of the detectors, which of them win, masking | `MCPiiScan` | |
| `PiiScan` | `validate_no_pii` and the evidence gate | `MCPiiScan` | `PipelineProofs` |
| `StateStore` | `state.db`: schema ladder, incident rows and mirror, legacy import | `MCStateStore` | `StateStoreProofs` |

The data modules (`HistoryData`, `FixStrategies`, `LogText`, `PiiText`) have no variables:
they are the pure algorithms, and the module that extends them is the process around
them. `Detective` and `TestHistory` extend the same `HistoryData`: the one takes an ingest
for a step and looks at scans, the other takes it apart. `Detective` instantiates
`FlakyNews` with a refinement mapping.

The other modules share no variables. Where one touches another's subject it takes what
the other promises: `IncidentService` knows a sync by the fields it reads (what it stores
is `JiraSync`'s, how it is stored `StateStore`'s), `PrefetchCache` knows it by the clear
it owes, `Pipeline` knows a heal by its outcome (`Healer`, `GitFlow`) and a gate by its
verdict (`PiiScan`). `PROJECT.json` maps each definition to its source lines.

A definition named `...Slip` is the definition after it with a plausible mistake. None
is used by an action. Each property of a passing run has one (`mutants`): put in place of
the real definition, it makes TLC find that property violated.

### JiraSync

An issue is a key with a revision; every upstream edit takes the next number, so Jira's
`ORDER BY updated DESC` is the order of revisions. `StampOf` gives the `updated` value of
a revision (several revisions may share one) and `MinuteOf` the minute JQL compares with.
`jira` is the tracker, `local` the `incidents` table, `meta` the meta table, `conf` the
configured JQL, `run` the locals of `run_sync` with a program counter, `budget` what the
environment may still do.

| action | code |
|---|---|
| `Start(m)` | a background run, `jira sync`, or `jira sync --full` begins |
| `SweepOpen`, `ResumeSweep`, `ResetForSweep`, `OpenSweep` | `_prepare_full_sync`: resume a checkpoint or reset and open one |
| `CheckQuery`, `ClearOne`, `SetQuery` | `_clear_tokens_if_query_changed`, one write each |
| `Resolve` | `_resolve_resume_state` and the start of `_sweep_pages` |
| `FetchPage`, `FetchNothing`, `TokenRejected`, `RequestFails` | one request, with each way it may end |
| `StorePage` | `upsert_many` and the running maximum |
| `Persist` | the writes of `_persist_incremental_progress` and `_persist_backfill_progress`, one step each |
| `FinishCli`, `Prune` | retention, and the end of a run |
| `SweepSeen`, `KeepSweep`, `DeleteUnseen`, `CloseSweep` | `_reconcile_full_sync` |
| `EditIssue`, `DeleteIssue`, `EditQuery`, `Crash` | users, and the end of the process, between any two steps |

One process syncs at a time. Jira's page token is a position in the result set of the
query it was minted for; that a position survives edits in front of it is an assumption
about Jira. The branch for a checkpoint that is not JSON (`cli.py:186-191`) is left out,
since nothing the program writes is one.

### PrefetchCache

A text is the version of the index it was read from; 0 is the empty text. Each section
under the cache's lock is one action, and so is each step outside it: `Ask` (`get` or
`queue` up to the submission, with `Refused`, `Join`, `Submit`), `Hook`
(`add_done_callback`, which runs `_forget` at once when the build has ended), `Answer`
and `Timeout` (`future.result`), `Run`, `Build`, `BuildFails`, `Put`, `Forget` (the
worker), `Ingest`, `IngestFails`, `Clear` (`_sync_once`), `Shutdown`.

### IncidentService

A configuration stands for the settings and the home, so it names a database; a store is
known by the configuration it was opened for. `call` holds the threads of the host:
`Begin` starts a session, a turn or a tool call, `Acquire` takes the lifecycle lock,
`Load`, `Reuse`, `Settled`/`Deferred` (the join and its time-out), `CloseOld`, `OpenNew`/
`OpenFails` and `Install` are `_initialize_locked` and `_reopen_store`, `Pick` and
`Trigger` are the two halves of `trigger_sync`, which has no lock. A sync thread reads
the fields one at a time (`Check`, `TakeStore`, `TakeQuery`, `Ingest`, `Retain`, `Clear`).
A turn is to the model a tool call that may not write; the run takes only the latter.
`raced` notes that a tool's trigger started a sync during an initialization or on a
replaced scheduler, the one way in which a sync can be disturbed.

### GitFlow

The content of a tree is the set of changes made to it. The repository is `commit` (tree and
ancestors of each commit), `branch`, `head`, `staged`, `unstaged`, `remote` and `prs`;
`made` remembers what the user did. A heal goes from `Plan` and `BurnIn` through the
preflight (`Status`, `ReadSha`, `ReadRef`) and the dispatches `Cut`, `Apply`, `CommitPatch`,
`Push`, `CreatePr`; a failed one leads to `Restore` and `Drop`. Every dispatch may be
denied, be done with its answer lost, or fail for a reason of git's own; with `"misread"`
among `Troubles` it may also be denied in a shape the code does not know. The user edits,
commits and switches branches in the phases the run allows; a commit of theirs takes what is
staged with it, a leftover patch included. Guards on branch names (`gitflow.py:92-95`) and
detached heads (`:256-258`) are left out.

`CheckoutInOrder` has four parts. `OwnTracesOnly`: whatever way a flow ends, the branch it
came from has not moved, and nothing but its patch is staged. `Undone`: a failed flow whose
restoring checkout got through leaves the user where they were, with a clean tree.
`Delivered`: one that opened its pull request leaves the user on the fix branch, at the
commit that was pushed. `RetryCommits`: what a flow commits is its patch alone, whatever was
left behind. It does not say that a retry is none the worse for what came before, which is
false (`RetryPushes`, `RestoredAnywhere` in section 5).

### Pipeline

`run[r]` is one call: the arguments, what the hook and the build read of `config.json`, the
stage results and the files. The hook (`Call`, with `Escalates`), the host's answer
(`Approve`, `Deny`), `Build`, the stages `Evidence`, `History`, `Triage`, `Fork`, the heal
branch (`HealSkipped`, `HealFails`, `Heal`), the bug branch (`BugReport`, `Dedup`, `Gate`,
`Tracker` with `Refuse`, `CheckWrite`, `ScanAgain`, `Post`, `PostFails`), `Ledger` and
`Cleanup`. `Command` is `/stabilize`, which calls the handler itself, so that no hook sees
it. `Categories` are those the configuration sends to the heal branch; the one triage falls
back to need not be among them (`Skipped`, `Destination`). What a stage finds is chosen
freely. An evidence file is dirty or clean, whatever makes it so. A log is local or remote
here; the code asks whether its name begins with "http" (`pipeline.py:532`), so that a local
file of such a name would not be scanned. Meanwhile `EditConfig` and `ChangeFile` change the
world under it.

`pipeline.require_pii_gate = false` is documented as sending without a PII gate
(`pipeline.py:553-566`), but `handle_create_incident` scans the files again
(`write.py:209-212`): `TicketEvidenceClean` holds with the gate off as well.

### HistoryData, TestHistory

A test is its class, name and file (absent attributes are `""`), a run row a file, two times
and a set of cases; two cases of one test and status in one report, each of which the code
counts (`detect.py:121-130`), are one here. `CollectCases`, `ParsedRun`: a JUnit document by
where its cases stand. `LogicalRuns` is the window-function query, `FallbackRows` the scan
that replaces it on old SQLite; `Verdicts`, `Resolve`, `IsFlaky` are the detective's,
`FailureLookup` the history tool's.

`TestHistory` has SQLite's rules for a WAL database: `db` is what is committed, `lock` the
writer, `tx` the connections Python has begun a transaction on, `view` what they see. The
gateway's threads share the connection `Gate`. Actions: `StartIngest`, `SkipFile`,
`ParseError`, `InsertRun`, `InsertRefused`, `InsertCases`, `UndoFile`, `CommitBatch`
(`ingest_file`, `ingest_directory`), `Prune`, `Feed`, `FeedRun`, `FeedCases`,
`FeedRefused`, `FeedUndo`, `FeedCommit` (`ingest_synthetic_run` as the pipeline calls it),
`Lookup`, and the end of each process. `FeedUndo` is the deletion of a run whose cases were
refused (`ingest.py:149-153`): it may be refused as well, or take the lock and keep it,
since nothing commits before the next feedback.

### FlakyNews, Detective

`FlakyNews` says what somebody may expect who reads every report: `Tell` (a scan finds a set
of tests flaky and reports the difference), `Lose` (it stores them and dies). The detective
maps to it by `told` and `lost`, which are ghosts, and `OnRecord`: the flaky tests in
`flaky_verdicts`, those before the replacement for as long as a scan has replaced them and
not yet reported. `Read`, `KeepSnapshot`, `ReadPrevious`, `Replace`, `Record`, `Report` are
`run_scan` and its caller's printing, `Crash` between any two; around them `CiWrites`,
`Ingest`, `Prune`, `Feed` and the clock. The report is that of changes only, as a cron job
asks for it; the one of the whole set (`reporting.py:63-68`) is left out. One unit of time
is at once the resolution of a time stamp and of the window.

### FixStrategies, Healer

A source is a sequence of lines, a line what the planners ask of it (the selectors it names,
its time-outs, whether a statement starts or ends there). A patch is a list of operations
with an anchor line; `Apply` is None once an anchor is gone. A heal goes through
`Retrieve`/`Stale`/`Diagnose`, `ReproduceRun`, `Diff`, `BurninRun`, `Bump`, `Persist`, the
mirror file (`ReadForMirror`, `WriteMirror`), `Record`, `Answer`, with `Fallback` from a
failed recipe to a diagnosis. A run passes, fails or is none, which `Confined` (unshare)
hides. The code cannot tell two more from a failed test: an `npx` without Playwright
(`subproc.py:180-186`) and a process killed for its memory (`docker.py:144`); the model has
neither. `recipes` is the table; `proven` and `charges` are ghosts of what was burnt in and
what was charged.

### LogText, Triage

A line is its shape (what remains without volatile tokens), its words, whether it signals
a failure, and its size. `ReadCapped`, `MergeWindows`, `CollapseRuns`, `TailWithNote`,
`Prefilter`, `Excerpt` are the filter; `Signature`, `FuzzyTokens`, `Similar` the keys of
the store. sqlite errors of the index are swallowed where a row is written or deleted
(`patterns.py:291-312`): `Record` and the deletions go on with the row alone (`Misfiled`,
`gone`), as often as they like, and `blind` keeps the signatures the index may have missed a
write of. A call is `Stat`, `ReadLocal` or `FetchRemote`, `Open`, `Lookup`, `Classify`,
`Record`, and the prune (`Age`, `Expire`, or `Count`, `Choose`, `Evict`). The run asks
`SignalQuery`, the pipeline's port, about all logs of up to five lines.

`ExcerptTells` names the lines an excerpt should have (`Expected`) and asks for them in
their order and number, or for the end of them with the note. That the last hit is among
them, and that what is asked of the history signals a failure, it asks where that hit and
what follows fit under the caps (`LastHitFits`). Elsewhere it is false: twelve long lines
after a hit fill the 12000 characters, the tail is kept, and a line that signals nothing is
asked for (`HitIsAsked` in section 5).

### PiiText, PiiScan

A text is the set of hits of the detectors' patterns, each valid or not. `Find` is one
detector's search, `DropContained` and `Claimed` the two sweeps that settle overlaps,
`RunDetectors` all of it under a limit, `Masked` what can be read afterwards. `PiiScan` is
the walk (`Target`, `Collect`, `WalkDir`), one file at a time (`CheckFile`, `ReadFile`,
`FileFails`) and the verdict, over files that one other process changes (`Change`), under
a deadline (`TimePasses`). `Ask` puts single texts to `RunDetectors`.

`FindingsKept` compares a scan's findings with those of all it read under no limit. A
detector looks for one hit more than the scan has room for (`scanner.py:339`), and hits that
lose to others may use that up. A text in which one has more (`Crowded`) is therefore exempt
from the comparison, and of it the property says only that it does not pass for clean: it
has a finding, or the scan calls itself incomplete. The run has a crowded file, and section
5 what is lost in it (`CutIsTold`).

### StateStore

Each process has one connection with Python's implicit transactions: the first INSERT or
DELETE begins one, a SELECT in it takes a snapshot, DDL commits by itself; a write waits for
the lock and fails after its time-out, and from a snapshot older than the file it fails at
once (WAL is assumed, which `storage/db.py` asks for). Only what is written with `with conn`
rolls back then; `RollsBack` and `StaysOpen` are the two. `Open`, `Ddl`, `DdlFts`, `Record`
are the schema ladder, `CreateFts`, `Inspect`, `Repair` the opening of an incident store,
`Compare`/`UpsertMany`, `SetMeta`, `ListKeys`/`Unmirror`/`Prune`, `Delete`, `Commit` its
writes, `ReadMarker`, `Copy` the import, `Close` and `Crash` the end. A lock time-out may
meet any write but one: at `CREATE VIRTUAL TABLE` the code takes it, like every error there,
for a build without FTS5 (`state.py:101-106`, `store.py:148-155`), and the model has that
under `Troubles` `"ddl"` only. The three SELECTs of `Inspect` (`store.py:174-179`) are one
step.

## 3. Runs

| run | asks | instance |
|---|---|---|
| `sync_converges` | `NothingMissed`, `TokensMatchStoredQuery`, `WatermarkNeverRetreats`, and `IndexConverges` under fairness | background and command-line syncs; 2 issues, 2 queries, pages of 1, 1 page a run; 2 issue edits, 1 jql edit, 1 crash, 1 rejected token; retention on |
| `full_clean` | `SweepDeletesOnlyGone` | `--full` only; 3 issues, 1 page a run, 1 failed request, 1 rejected token, no crash, no edits |
| `prefetch_turns` | `CachedSinceClear`, `Bounded`, `SlotsHeld`, `CacheFollowsSyncs` | 2 turns, 3 queries, 4 builds, 1 worker (so 2 pending), 1 entry, 3 versions, 1 failed sync |
| `service_settles` | `SyncsUndisturbed`, `OfOnePiece`, and `ConfigTakenUp` under fairness | sessions and tools on 2 threads, 2 configurations; together 2 edits, tool calls or stores that cannot be opened |
| `git_healing` | `PatchesKeptApart`, `UserWorkSurvives`, `CheckoutInOrder` | 3 heals, 2 patches, 2 edits of the user's; denials, lost answers, crashes |
| `pipeline_runs` | `WritesApproved`, `TicketEvidenceClean`, `LedgerTrue`, `SpoolOwned` | one run of five shapes of call beside the file of a killed one; 1 configuration edit, 1 file change, lost answers, disk errors, a crash |
| `history_shared` | `NothingHalf`, `StaleOnlyAfterRefusal`, `FedBackVisible` | 2 threads on the gateway's connection, 1 process; 3 files, one of them no report and one that cannot be stored; 3 runs, 1 busy lock or crash |
| `detective_news` | `TellsAll`, `EachReportOnce`, `SnapshotSurvives`, `KeepsNews` (the refinement), and `CatchesUp` under fairness | 1 scanner, 1 report file of three contents, feedback of two runs; 2 units of time, a window of 1, 3 runs, 1 crash |
| `healer_heals` | `RecipesProven`, `FairlyCharged`, `OfOnePiece`, and `Answered` under fairness | 2 heals, 2 texts of a test, 3 failures (two signatures with one relaxed key, and none), a usable and an unusable answer of the model; 1 edit, 1 refused write or crash |
| `triage_learns` | `CountsUses`, `StoreInOrder`, `ExcerptTells` | 2 calls at once, 3 in all; 3 logs, a cap of 3 lines, 1 row; a clock of 1; 1 refused write or crash; errors of the index; the excerpt of every log of up to 5 lines of 4 kinds |
| `pii_gate` | `PassedIsClean`, `FindingsKept`, `FindingsAgree` | a root, a directory below and an image; 6 calls, 1 change, 1 failure, 2 findings, a file with more hits than its detector is let look for; every text of up to three hits on 4 characters, and texts of five |
| `stores` | `MirrorExact`, `VersionMeansTables`, `ImportsOnceOverNothing` | a new file, or one without a mirror; gateway, cron and one import; 2 incidents in 2 revisions; 1 lock time-out (not at `CREATE VIRTUAL TABLE`), 1 crash |

**Bounds and why they are enough.** Two issues suffice for an older one to be behind the
page limit; three, with two pages, for one to be in the middle of a resumed result set.
Stamps 2 and 3 share a minute and revisions 1 and 2 share a stamp, so ties and JQL's
rounding occur. One crash between any two writes covers each partial progress, since the
next run must repair it before a second adds to it. Two turns and three queries overrun a
pool of one worker and a cache of one entry. Two configurations and one edit give each order
of edit and reload, and the second event a tool or a failure in it. Three heals of `GitFlow`
are: one that fails, its retry, and one of another patch. Pipeline runs meet only in the
spool, and what one finds there (files, configuration, a leftover) is chosen freely, so one
live run and one dead one are enough. In `TestHistory` a hazard needs two threads on one
connection and a process outside; a third run is what a refusal leaves behind for the first
two. For the detective, a report may be ingested, rewritten with another content, ingested
again and pruned, and a test has to be found flaky, cleared and found again, for which three
runs in a moving window of one suffice. Two heals are one that replaces the recipe and one
that is using it. Two triages and one row make each eviction meet a record; the four kinds
of line are a hit, one that signals nothing, and a longer one of each, so that a hit is
pushed out of the excerpt by what follows it, by lines and by size. A tree of one directory
and a file below, a link and an image has each kind of entry behind each other; the hits
fill four characters so that any two spans may be apart, touch, overlap or contain one
another, and the texts of five hits chain them. Two stores and an import are three writers
of the schema, of the rows and of the mirror, and two revisions of two incidents make each
page, deletion and prune differ from what is stored. Every bound is a constant named in a
guard. Deadlock is checked except where the calls, heals, scans or processes of an instance
end.

**Fairness.** `JiraSync`: a sync that runs goes on (each request has a time-out), and
sessions keep being started, since every session start and every tool call triggers one;
nothing is assumed of the command line, of faults or of users. `IncidentService`: a
call that has begun goes on, a sync ends, and each thread's calls are session starts again
and again; that is strong fairness, because tools may take a free thread first. Tool calls
are bounded there: without end they could start a sync at every debounce, and each join
time out on it. `PrefetchCache` (`prefetch_follow.cfg`): the pool's threads run, the
builder, a local query, ends, and the submitting turn returns; no fairness is asked of a
turn's time-out. `Detective`: cron starts a scan again and again and a started one goes on;
nothing is assumed of CI, so `CatchesUp` speaks of what happens when nothing changes any
more. `Healer`: a heal goes on, because the sandbox kills a run that outlives its time.

**Merged properties.** `PatchesKeptApart`, `CheckoutInOrder`, `LedgerTrue`, `NothingHalf`,
`StoreInOrder` and `SyncsUndisturbed` are conjunctions of named parts that say one thing
together; a part can be put in a configuration on its own.

## 4. Proofs

Eight modules prove theorems for all values of the constants that satisfy the assumptions
of the module they extend: `JiraSyncProofs`, `PrefetchCacheProofs`,
`IncidentServiceProofs`, `GitFlowProofs`, `PipelineProofs`, `DetectiveProofs` (also of
`FlakyNews`), `HealerProofs` and `StateStoreProofs`. Three modules are proved beside the
component that uses them or shares their file, through an instance: `TestHistory` in
`DetectiveProofs` (as `Hist`), `Triage` in `StateStoreProofs` (as `Tri`) and `PiiScan` in
`PipelineProofs` (as `Pii`). An instance brings no assumption with it, so those theorems
name theirs (`Hist!HistoryAssumption`, `Tri!TriageAssumption`, `Pii!ScanAssumption` and
`Pii!DetectorsAssumption`) as hypotheses.

The assumptions give the constants their types (`SyncAssumption`, `KeysAssumption`,
`CacheAssumption`, `ServiceAssumption`, `GitAssumption`, `PipelineAssumption`,
`DetectiveAssumption`, `HealerAssumption`, `StateStoreAssumption`, `HistoryAssumption`,
`TriageAssumption`, `ScanAssumption`) and keep what could not be told apart apart: a patch
is no edit of the user's, a store process is no importer. Sets are finite only where
something is counted: the keys of the sync and the cache, the cases of one report, the
heals that run, the calls of triage.

Four say something about the world or about data:

- `StampAssumption`: Jira's stamps are ordered as its revisions are, and a minute is never
  later than the stamp it was cut from.
- `StateStoreAssumption`: a legacy file has one row for each incident, its primary key.
- `HistoryAssumption`: a healed test is looked up under the id it was fed back with, and no
  retention is so short that it prunes what is fed back now.
- `DetectorsAssumption`: in a file's text that holds values the selected detectors accept,
  they find at least one, whatever the limit. `RunDetectors` is a fold over the detectors,
  so this cannot be derived here; `FindingsAgree` checks what it rests on for all small
  texts. The code does not promise it for every text: the phone detector takes maximal runs,
  and a run it rejects may hide a number inside. The theorem is about texts without such runs.

| theorem | property | where |
|---|---|---|
| `JiraSyncProofs!TypeCorrect` | `TypeOK` | all runs, `--full` included |
| `SyncInvCorrect`, `NothingMissedCorrect`, `TokensCorrect`, `WatermarkCorrect` | `SyncInv`, `NothingMissed`, `TokensMatchStoredQuery`, `WatermarkNeverRetreats` | no run is `--full` |
| `SweepInvCorrect`, `SweepDeletesCorrect` | `SweepInv`, `SweepDeletesOnlyGone` | `SweepsAlone` |
| `PrefetchCacheProofs!TypeCorrect` | `TypeOK` | |
| `FreshCorrect`, `LimitsCorrect`, `SlotsCorrect`, `FollowsCorrect` | `CachedSinceClear`, `Bounded`, `SlotsHeld`, `CacheFollowsSyncs` | |
| `IncidentServiceProofs!TypeCorrect`, `ServiceCorrect` | `TypeOK`, `ServiceInv` | |
| `SyncsUndisturbedCorrect`, `OfOnePieceCorrect` | `SyncsUndisturbed`, `OfOnePiece` | |
| `GitFlowProofs!TypeCorrect`, `GitCorrect` | `TypeOK`, `GitInv` | `UserKeepsOff` |
| `PatchesKeptApartCorrect`, `UserWorkSurvivesCorrect`, `CheckoutInOrderCorrect` | `PatchesKeptApart`, `UserWorkSurvives`, `CheckoutInOrder` | `UserKeepsOff` |
| `PipelineProofs!TypeCorrect`, `InvCorrect` | `TypeOK`, `PipelineInv` | |
| `WritesApprovedCorrect`, `TicketEvidenceCleanCorrect`, `LedgerTrueCorrect`, `SpoolOwnedCorrect` | `WritesApproved`, `TicketEvidenceClean`, `LedgerTrue`, `SpoolOwned` | |
| `DetectiveProofs!TypeCorrect` | `TypeOK` | |
| `SnapshotSurvivesCorrect`, `EachReportOnceCorrect` | `SnapshotSurvives`, `EachReportOnce` | any number of scanners |
| `ReaderKnowsAll` | of `FlakyNews`: a reader errs about lost news alone | |
| `ReportsImplementNews`, `ReaderKeepsUp` | `KeepsNews` (the refinement), `TellsAll` | `OneScanner` |
| `HistoryInvCorrect` | `HistoryInv` of `TestHistory` | |
| `NothingHalfCorrect`, `StaleOnlyAfterRefusalCorrect`, `FedBackVisibleCorrect` | `NothingHalf`, `StaleOnlyAfterRefusal`, `FedBackVisible` of `TestHistory` | |
| `HealerProofs!TypeCorrect`, `HealInvCorrect` | `TypeOK`, `HealInv` | |
| `OfOnePieceCorrect`, `RecipesProvenCorrect` | `OfOnePiece`, `RecipesProven` | |
| `ChargeCorrect`, `FairlyChargedCorrect` | `ChargeInv`, `FairlyCharged` | `OutcomesSeen` |
| `StateStoreProofs!TypeCorrect`, `SafeCorrect` | `TypeOK`, with `SnapshotInv` and `SchemaInv` | |
| `VersionMeansTablesCorrect` | `VersionMeansTables` | |
| `ImportedOnceCorrect`, `ImportsOnceOverNothingCorrect` | `ImportedOnce`, `ImportsOnceOverNothing` | `OneImport` |
| `MirrorExactCorrect` | `MirrorExact` | `NoTroubles` |
| `StoreInvCorrect` | `StoreInv` of `Triage` | |
| `CountsUsesCorrect`, `StoreInOrderCorrect` | `CountsUses`, `StoreInOrder` of `Triage` | |
| `ScanInvCorrect`, `PassedIsCleanCorrect` (in `PipelineProofs`) | `ScanInv`, `PassedIsClean` of `PiiScan` | `DetectorsAssumption` |

**Hypotheses.** The last column has what a theorem needs beyond the assumptions. That no
run is `--full` is a limit of the proof (below). Each of the others says what happens around
the code, and without it the code does not keep the property: section 5 has a
counterexample for each.

* `SweepsAlone`: all runs are `--full`, none dies (a request may fail), and no issue is
  edited meanwhile; issues may be deleted, and the user may change the query.
* `UserKeepsOff`: during the git steps of a flow (seconds, after minutes of burn-in) the
  user keeps their hands off; they commit on their own branch, not on the fix branch; and
  the host denies in one of the shapes the code knows. Denials, lost answers, failures of
  git and crashes are all allowed, and the user works at any other time.
* `OneScanner`, `OneImport`: cron starts one scan, the command line one import at a time.
* `OutcomesSeen`: the subprocess sandbox is not confined with `unshare`, so that it tells a
  runner that is not there from a test that fails.
* `NoTroubles`: no SQL statement fails half way, by a full disk say. Lock time-outs and
  crashes are allowed.

**The argument for the sync.** `NothingMissed` speaks of states with a finished backfill;
in the middle of a run it says nothing about what will be written next. `SyncInv` says at
each stage which missing issues the run still leads to. `WatermarkCovers`: a missing issue
is at or above the watermark or, until the backfill is done, still ahead of the backfill's
token. `TokenCovers`: it is ahead of the incremental token, or at least as new as the
stamp saved with that. `Stages` has what each step of a query change has cleared, and
`SweepStart` what a sweep knows of the watermark it began with. While a run sweeps, a
missing issue is ahead of the cursor or at least as new as all that was seen
(`FetchCovers`), on the page in hand (`PageCovers`), or covered by what has been written so
far, one case for each of the three writes (`PersistCovers`). `NothingFromTheFuture`
bounds revisions, stamps and rows by what exists upstream, and `TokensMatchStoredQuery`
makes a stored token a position in the result set of the stored query. There is one lemma per
action. A `--full` run is excluded here since it resets the progress
in several steps, each of which the invariant would have to describe on its own.

`SweepDeletesOnlyGone` has an invariant of its own, `SweepInv`, about live issues rather
than missing ones. An open sweep can be taken up where its checkpoint says: each live issue
is among the keys saved or ahead of the saved token (`SweepRests`, and `SweepGoesOn` while a
run works from it). In the run each live issue was seen, is on the page in hand or is ahead
of the cursor, and once a run is exhausted only the first is left, which is what
`DeleteUnseen` needs (`SweepCovers`). `SweepBegins` follows the reset of a new sweep, which
must have cleared flag and token by the time its checkpoint says it is open. What breaks
`SweepRests` is exactly what `SweepsAlone` excludes: a background run that moves the flag
or the token between two runs, a death between the write of the token and that of the keys,
an edit that moves an unseen issue to the front.

**The arguments for the cache.** `CachedSinceClear` needs `BuiltSinceClear`: a build of
the present generation holds nothing older than the last clear. `Bounded` needs
`LimitInv`: the pool's queue holds each build once, and only builds that are queued, and
until a shutdown every unfinished build is the one `_inflight` has for its query, so
counting entries counts builds.
`SlotsHeld` is inductive as it stands. `CacheFollowsSyncs` needs that between syncs the
version swept is the version of the index (`SweptIsIndex`), and that nothing claims a later
one (`NothingAhead`).

**The argument for the service.** The fields are not whole at every moment, so
`LifecycleInv` says when they are: while nobody holds the lifecycle lock, and in the holder
at each label of `_initialize_locked` (`CallInv`) for the configuration it has or replaces.
That the service is initialized exactly when it has a scheduler is what makes `Pick` and
`Trigger`, which take no lock, find one. `SyncInv` is about a thread that takes no lock
either: a running sync is on the service's scheduler, no call is past the join, and the
store in its locals is the service's. It is stable because an initialization closes only
what it has joined or finds settled, and it is claimed only until a tool's trigger races
one (`raced`).

**The argument for the git flow.** `UserWorkSurvives` and `CheckoutInOrder` are about ends
of a flow. `GitInv` says for each label what the repository is: the work tree is clean of
the user's things once it was found so and holds the flow's patch from the apply to the
commit only (`TreeInv`); the commit that was read is still where the flow came from
(`StartInv`); the fix branch is that commit, then its child with this patch alone
(`FixInv`). `MainInv` ties what the user made to the work tree or to their branch, which a
flow moves nowhere. The four parts of `CheckoutInOrder` follow from it label by label. That
`ReadSha` and `ReadRef` read one state needs that the user does nothing between them, which
is in `UserKeepsOff`.

**The argument for the pipeline.** `PipelineInv` says of each run what its place implies
of the world (`Passed`, `ScannedBeforePost`, `Effects`), of its own results (`Way`) and of
the spool (`SpoolKept`), so that the row it is about to write is true (`RowTrue`), and of
each row that its run is past that point. The rows stay true since nothing that
happens outside happens to a run behind its branch.

**The arguments for the detective.** `NewsInv` is inductive. `ScanInv` says what a scan
under way still knows: until it replaces the verdicts, the keys it read as previous are those
on record; after that, until its report, the verdicts on record are its own. So the
difference it reports is the difference it made, which needs that nobody else replaces them
meanwhile. `ReaderInv` is `FlakyNews`'s invariant under the mapping. `Read`, `ReadPrevious`,
`Replace`, `Record` and everything around the scans map to stutters, `Report` to `Tell`, and
`Crash` to `Lose` or a stutter. `KnownData` and `KnownVerdicts` give the keys their type; what
the verdicts are does not matter, so the proof holds for any classification.

`EachReportOnce` compares two ways of counting. The rows carry when they were ingested
and under which number; `RunsInv` has that no two rows share a number and that a new row
has the highest one at a time no earlier than the others, so "ingested after" is a strict
order in which it comes last, and `TruthInv` that the newest of each file
and stamp is what was ingested last. What the window query keeps of a key is in bijection with
the true contents that have a case of it, and sets in bijection have one cardinality.
`SnapshotSurvives` needs only that a scan about to replace has verdicts, each with a counted
run (`FoundInv`).

**The arguments for the healer.** `HealInv` says of one heal (`Sound`) what the reading of
the source it made, the patch under trial and the runs it has behind it have to do with
one another at each label. Two places need more than bookkeeping. A fallback leaves the
report of the recipe's attempt with the strategy of the next, when both plan the same patch:
`SamePlan` shows that a nonempty patch of one strategy is one of the other only if the
strategies agree, by what the operations are; where a wait and a bumped time-out would
meet, because 5000 is no multiple of three. And an edit during a burn-in makes the copies
and the diff differ, so all is claimed for as long as the number of edits is the one at the
start. `RecipesProven` then needs only that who persists has gone green (`Sound`), and that no
step but `Persist` changes a body. `ChargeInv` counts: the failures on a row, with the heals
that have seen a run of that recipe fail and not yet written it (`Owing`), are never more
than the charges. A failed run adds one debtor and one charge, `Bump` turns a debtor into a
failure, `Stale` adds to both, `Persist` may reset a row; a heal that dies or is refused
leaves without paying, which is the direction that is fair.

**The arguments for the state database.** `Safe` is about connections: a snapshot that is
not stale is what is committed, one writer at most, and its snapshot differs in rows only,
so that a commit changes no table (`SnapshotInv`); and a process at a label of the ladder
has the tables of the labels before, since no step drops one (`SchemaInv`).
`ImportInv` counts links against the marker. `MirrorInv` has that the mirror holds nothing
that is not stored, and for a store at each label how far its own deletion has come; other
processes' commits keep it because a writer's snapshot was exact when it was taken.

**The argument for the test history.** `HistoryInv` is about who sees what. A process of the
command line has a view exactly while it holds the lock, and that view is the committed
database with later ids added (`Ahead`, `OfProcess`), so what it commits takes nothing
away. The gateway's one connection may see an old snapshot, but only once a write of its
was refused (`OfGateway`). What a thread has begun to feed back is in the gateway's view, and
after a commit on disk (`Begun`, `Committed`, `FeedsKept`); a prune of any process spares it
because no cutoff is later than the stamp it was fed back with. `Apart` has that a run
whose cases are still to come, or which is to be deleted for want of them, belongs to one
thread alone, so that a deletion takes no other's run.

**The argument for the pattern store.** Counts and index are inductive with little more than
their types; of the index it is claimed for the signatures outside `blind` only. The cap is
not: a call counts, chooses and deletes in three steps, and others record and evict between
them, so that two calls may choose the same victim. `StoreInv` says that there is an order
which makes up for it (`CountedBefore`). Each call that has counted has a set of those who
recorded after its count and have not pruned yet; what it leaves is within the cap but for
that set and the faults; and the set of one that counted later is part of the set of one
that counted earlier. When a call leaves, what it leaves is therefore within what each
earlier one may still leave, though it is now gone from their sets.

**The argument for the scan.** `PassedIsClean` is about the end of a call, `ScanInv` about
a scan that is `Sure`, which has found nothing and passed over nothing so far. Each directory
of a root is then still to come or open and listed (`Covered`), where the walk of the root
itself finds the linked ones; and each name listed is still to come, touched by somebody, or
`Fine`. A name leaves the list in `CheckFile` and `ReadFile` only, and every way out but a
complete reading adds to `skipped` or sets `truncated`, after which nothing more is claimed.
So a verdict that is well vouches for its path, and it stays vouched for while later paths
are scanned, since a file that changes is touched. For a single file, its link was resolved
when the scan began, and only a change of the link leads elsewhere (`OfFile`). `Listed` and
`Min` need that a finite set of places can be counted off in order, which is a lemma.

The inductive invariants were checked by TLC on the instances of section 3 before they were
proved; `SyncInv` stays in `sync_pages.cfg`, the others can be added to the run of their
module as an invariant.

**Only model-checked.** Liveness (`IndexConverges`, `ConfigTakenUp`, `CatchesUp`,
`Answered`, `SlotsComeBack`): the prover has no rules for fairness or `ENABLED` here.
What the algorithms of the data modules compute (`ExcerptTells`, `FindingsAgree`) is checked
on all small inputs, and `FindingsKept` of `PiiScan` on the files of its run, with the
exemption of crowded texts named in section 2: the algorithms are written as folds, about
which induction would be needed.

## 5. Disagreements between the code and what it says

The runs of section 3 are about what holds. What does not is kept as configurations beside
them, each of which ends in a counterexample to the property it names (with
`tlc -config X.cfg M`), but for the first two, which pass:

| configuration | module | shows |
|---|---|---|
| `sync_pages` | `MCJiraSync` | passes: the inductive invariant `SyncInv`, `TypeOK`, `NothingMissed`, `WatermarkNeverRetreats` with 3 issues and 2 pages a run |
| `prefetch_follow` | `MCPrefetchCache` | passes: without a failed sync the cache follows the index, and under fairness every slot comes back |
| `full_background` | `MCJiraSync` | a background sync finishes the backfill between two truncated `--full` runs; the second takes that for its own completion and deletes live issues |
| `service_closed` | `MCIncidentService` | a tool triggers the old scheduler between `initialize`'s check and its close: the store is closed under a sync, which the docstring of `initialize` rules out |
| `pipeline_approval` | `MCPipeline` | `config.json` changes between hook and run: an issue is filed that nobody approved |
| `pipeline_lost` | `MCPipeline` | the answer to the request is lost: the ledger says no issue was created (`pipeline.py:712`), and one was |
| `history_stuck` | `MCTestHistory` | an INSERT of the feedback is refused as busy; the gateway's lookups keep answering from the snapshot of the next one |
| `healer_body` | `MCHealer` | a heal counts its result on a recipe that another one replaced meanwhile ("describe how the STORED body performed", `recipes/store.py`) |
| `triage_similar` | `MCTriage` | two truncated logs resemble each other by the words of the filter's own note ("must share real signal", `patterns.py`) |
| `pii_mask` | `MCPiiScan` | a value inside a span that loses to a third one stays readable in a masked name (`_mask_pii`: "any raw PII") |
| `stores_held` | `MCStateStore` | a `set_meta` that times out leaves its transaction open: later reads of that store are stale and further writes of it refused |

`stores_held` and `pii_mask` were reproduced with the code itself.

More can be seen by changing the constants or the property of a configuration:

| start from | change | shows |
|---|---|---|
| `full_clean` | `MaxCrashes = 1`, no failures or rejects | a `--full` run that dies between the token of a page and the keys it saw: the resumed sweep deletes what the first had seen |
| `prefetch_follow` | `MaxFailures = 1` | `CacheFollowsIndex` fails: a sync that fails on a later page stores the earlier ones and never clears the cache |
| `service_closed` | `OneSync`; `SyncUsesOneConfig` | a tool triggers a scheduler that was replaced, and two syncs run; a sync reads its configuration in parts and works with two |
| `git_healing` | `Troubles` with `"misread"`, `PatchesKeptApart` | a denial without error or exit code counts as success, and the flow commits on the user's branch |
| `git_healing` | `UserPhases` with `"flow"`, `UserWorkSurvives` | an edit after the clean-tree check is lost to the forced checkout of the cleanup |
| `git_healing` | `UserCommitsOn = {"main", "fix"}`, `UserWorkSurvives` or `CleanupSparesWork` (as a PROPERTY) | the cut, or the cleanup, drops commits the user made on the fix branch |
| `git_healing` | `RetryPushes` | a push that was done and reported as failed keeps the retry from pushing, so a later heal is not as if the first had not been |
| `git_healing` | `RestoredAnywhere` | a heal begun on the fix branch, where an opened pull request leaves the user, is not undone |
| `git_healing` | `PrsAreValidated` | HEAD moves during the burn-in: the pull request is not the tree that was validated |
| `detective_news` | 2 scanners, `TellsAll` | scans that overlap report the difference to each other's record |
| `detective_news` | `Ids <- TwoTests`, `Repeats = 1`, `SweepSeesRecovery` | two burn-ins fed back in one second are one logical run: the first is not counted |
| `detective_news` | `Ids <- ByFile`, `Repeats = 1`, `FileIdWorks` | a test healed under its file gets a key of its own, which hides the flaky one from `is_flaky` under that id |
| `healer_heals` | `Backends = {"subprocess"}`, `Confined = TRUE`, `FairlyCharged` | inside `unshare` (and with an OOM kill) the wrapper's exit code is taken for the test's and charged to the recipe |
| `healer_heals` | 1 heal, `GreenIsReported` | a refused write loses the report of a green burn-in ("persistence must not kill the heal result") |
| `healer_body` | 2 heals, `MirrorCurrent`; `Sources <- Wrapped`, `Failures <- Races`, `WaitAtTarget` | two heals write the mirror in the other order than the table; the wait goes before another statement of the same shape |
| `triage_similar` | `Targets <- Seen3`, `EvictsOldest`; `Targets <- Growing`, `LocalWhole` (with `MaxLog = 3`) | a row is evicted that was seen again after the choice; a local log that grows past the cap is cut without a word |
| `triage_learns` | `HitIsAsked` | what follows the last failure fills the caps: the excerpt is without it, and the history is asked about a line that signals none ("showing the most recent failure context", `prefilter.py`; "most representative line", `enrichment.py`) |
| `pii_mask` | `Questions <- Packed`, `CutIsTold` | the limit on hits of one detector is used up by hits that lose: findings are missing and nothing says so |
| `stores` | `Troubles = {"mid"}`, `MirrorExact` | an error in the second DELETE of a prune leaves the first in an open transaction, which the next write commits: rows without a mirror |
| `stores` | `Troubles = {"ddl"}`, `MirrorExact` | a transient error of `CREATE VIRTUAL TABLE` is taken for a build without FTS5: one store writes rows the other's mirror lacks |
| `stores` | `Migrators = {import, again}`, 1 store, `ImportedOnce` | two imports at once read the marker before either writes it: links come twice |

An issue edited while a `--full` sweep is under way jumps in front of the cursor and is
not seen; `full_clean` has no edits, because with one the sweep deletes it though it lives.

## 6. Not modelled, and plan

Left out for good: text (ranking, redaction by patterns, what a regular expression
matches, parsing of traces, archives and XML, formatting), the HTTP client, the building of
sandboxes, model calls without state, command-line printing. `shutdown` and
`on_session_end` of the incident service have no caller outside the tests. Updates of
`config.json` are one critical section under `flock`; where there is no `flock` the code
goes on without, which needs no model to be seen to lose an update. Two processes syncing
at once are real and listed as a hazard without a property; two heals in one checkout, a
prefetch after a failed sync and concurrent imports are told of in section 5.

Planned, the most important first:

1. Proofs: `SyncInv` where `--full` runs alternate with the others.
2. `JiraSync` with a second process syncing at the same time.
3. `Healer` and `GitFlow` composed: the burn-in's copy and the checkout the patch goes to.
