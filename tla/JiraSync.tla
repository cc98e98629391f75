------------------------------ MODULE JiraSync ------------------------------
(***************************************************************************)
(* The Jira index synchronisation of the incidents stage:                  *)
(* incidents/ingest.py (run_sync), the rows and the meta table of          *)
(* incidents/store.py it writes, the background run of                     *)
(* incidents/__init__.py (_run_ingest) and `flaky-stab jira sync [--full]` *)
(* of incidents/cli.py.                                                    *)
(*                                                                         *)
(* Data that is abstracted.  An issue is a key with a revision: every      *)
(* upstream edit takes the next number of `rev`, so comparing revisions is *)
(* comparing Jira's ORDER BY updated DESC order.  The `updated` string of  *)
(* a revision is StampOf[revision]; several revisions may share a stamp.   *)
(* A stamp of 0 is the absent watermark.  A row of the index is the        *)
(* revision it was mapped from, 0 when there is no row.                    *)
(*                                                                         *)
(* One process syncs at a time (`run`); the processes may alternate in any *)
(* order, and each may die between any two of its writes.                  *)
(*                                                                         *)
(* A definition named ...Slip is the next one with a plausible mistake in  *)
(* it.  No action uses it: a model check that is given it in place of the  *)
(* real one must fail, and PROJECT.json says on which property.            *)
(***************************************************************************)
EXTENDS Naturals, FiniteSets

CONSTANTS
    Keys,         \* issue keys
    Queries,      \* values of the configured jira.jql
    Match,        \* Match[q]: the keys query q selects while they exist
    NoQuery,      \* the unset sync_jql / full-sweep jql
    NoToken,      \* the unset nextPageToken
    MaxRev,       \* bound: the number of upstream revisions
    MaxStamp,     \* bound: the largest `updated` stamp
    StampOf,      \* StampOf[r]: the `updated` stamp of revision r
    MinuteOf,     \* MinuteOf[s]: the stamp JQL compares with for s (minutes)
    Cutoff,       \* retention: rows older than this stamp are pruned; 0 = off
    PageSize, MaxPages,
    Modes,        \* which runs exist, a subset of AllModes
    MaxEdits,     \* bound: upstream edits once the syncs have begun
    MaxCrashes,   \* bound: syncs that die
    MaxFailures,  \* bound: requests that fail
    MaxRejects,   \* bound: resume tokens Jira rejects although they match
    MaxQueries    \* bound: edits of the configured jql

AllModes == {"session", "cli", "full"}
Revs == 0..MaxRev
Stamps == 0..MaxStamp
Tokens == [query : Queries, floor : Stamps, pos : 1..MaxRev]

ASSUME SyncAssumption ==
    /\ MaxRev \in Nat /\ MaxStamp \in Nat /\ Cutoff \in Nat
    /\ PageSize \in Nat \ {0} /\ MaxPages \in Nat \ {0}
    /\ MaxEdits \in Nat /\ MaxCrashes \in Nat /\ MaxFailures \in Nat
    /\ MaxRejects \in Nat /\ MaxQueries \in Nat
    /\ NoQuery \notin Queries
    /\ NoToken \notin Tokens
    /\ Modes \subseteq AllModes
    /\ Match \in [Queries -> SUBSET Keys]

ASSUME KeysAssumption == IsFiniteSet(Keys)

\* Jira renders `updated` in one timezone, so the order of the stamps is the
\* order of the revisions (ties allowed); JQL's minute is never later than the
\* stamp it was cut from.
ASSUME StampAssumption ==
    /\ StampOf \in [Revs -> Stamps]
    /\ StampOf[0] = 0
    /\ \A r, s \in Revs : r <= s => StampOf[r] <= StampOf[s]
    /\ MinuteOf \in [Stamps -> Stamps]
    /\ \A s \in Stamps : MinuteOf[s] <= s

VARIABLES
    jira,      \* jira[k]: the live revision of k; 0 = gone or not selected
    rev,       \* the last revision upstream
    conf,      \* the jira.jql configured now
    local,     \* the incidents table
    meta,      \* the meta table
    run,       \* the sync that runs, if any
    budget     \* what is left of the bounds

vars == <<jira, rev, conf, local, meta, run, budget>>

Idle == [pc |-> "idle", mode |-> "cli", jql |-> NoQuery, step |-> 0,
         next |-> "idle", inc |-> FALSE, floor |-> 0, wasDone |-> FALSE,
         token |-> NoToken, held |-> FALSE, newest |-> 0, pages |-> 0,
         exhausted |-> FALSE, page |-> [k \in Keys |-> 0],
         after |-> NoToken, seen |-> {}, prior |-> {}]

Later(a, b) == IF a > b THEN a ELSE b

Init ==
    /\ rev \in Revs
    /\ jira \in [Keys -> 0..rev]
    /\ \A k, l \in Keys : k # l /\ jira[k] # 0 => jira[k] # jira[l]
    /\ conf \in Queries
    /\ local = [k \in Keys |-> 0]
    /\ meta = [wm |-> 0, done |-> FALSE, bfTok |-> NoToken, syTok |-> NoToken,
               newest |-> 0, jql |-> NoQuery,
               fullActive |-> FALSE, fullJql |-> NoQuery, fullSeen |-> {}]
    /\ run = Idle
    /\ budget = [edits |-> MaxEdits, crashes |-> MaxCrashes,
                 failures |-> MaxFailures, rejects |-> MaxRejects,
                 queries |-> MaxQueries]

-----------------------------------------------------------------------------
(* The environment: Jira's users, and the user who edits jira.jql.         *)

EditIssue(k) ==
    /\ rev < MaxRev /\ budget.edits > 0
    /\ rev' = rev + 1
    /\ jira' = [jira EXCEPT ![k] = rev + 1]
    /\ budget' = [budget EXCEPT !.edits = @ - 1]
    /\ UNCHANGED <<conf, local, meta, run>>

DeleteIssue(k) ==
    /\ jira[k] # 0
    /\ jira' = [jira EXCEPT ![k] = 0]
    /\ UNCHANGED <<rev, conf, local, meta, run, budget>>

EditQuery(q) ==
    /\ budget.queries > 0
    /\ q # conf
    /\ conf' = q
    /\ budget' = [budget EXCEPT !.queries = @ - 1]
    /\ UNCHANGED <<jira, rev, local, meta, run>>

-----------------------------------------------------------------------------
(* Before run_sync.                                                        *)

\* A session's background run, `jira sync` or `jira sync --full` begins.
Start(m) ==
    /\ run.pc = "idle"
    /\ run' = [Idle EXCEPT !.pc = IF m = "full" THEN "prepare" ELSE "checkQuery",
                           !.mode = m, !.jql = conf]
    /\ UNCHANGED <<jira, rev, conf, local, meta, budget>>

SweepOpen == meta.fullActive /\ meta.fullJql = run.jql

\* _prepare_full_sync: resume an open sweep of the same query ...
ResumeSweep ==
    /\ run.pc = "prepare" /\ SweepOpen
    /\ run' = [run EXCEPT !.pc = "checkQuery", !.prior = meta.fullSeen]
    /\ UNCHANGED <<jira, rev, conf, local, meta, budget>>

\* ... or start one: reset_sync_state, then the three checkpoint writes.
ResetForSweep ==
    /\ run.pc = "prepare" /\ ~SweepOpen
    /\ run' = [run EXCEPT !.pc = "clear", !.step = 1, !.next = "openSweep"]
    /\ UNCHANGED <<jira, rev, conf, local, meta, budget>>

\* A key left out of the list: the incremental token survives the reset.
ClearedSlip(m, i) ==
    [m EXCEPT !.wm     = IF i = 1 THEN 0 ELSE @,
              !.done   = IF i = 2 THEN FALSE ELSE @,
              !.bfTok  = IF i = 3 THEN NoToken ELSE @,
              !.newest = IF i = 5 THEN 0 ELSE @]

\* The i-th of the set_meta(key, "") calls of reset_sync_state, which are also
\* those of _clear_tokens_if_query_changed.
Cleared(m, i) ==
    [m EXCEPT !.wm     = IF i = 1 THEN 0 ELSE @,
              !.done   = IF i = 2 THEN FALSE ELSE @,
              !.bfTok  = IF i = 3 THEN NoToken ELSE @,
              !.syTok  = IF i = 4 THEN NoToken ELSE @,
              !.newest = IF i = 5 THEN 0 ELSE @]

ClearOne ==
    /\ run.pc = "clear"
    /\ meta' = Cleared(meta, run.step)
    /\ run' = IF run.step < 5
                THEN [run EXCEPT !.step = @ + 1]
                ELSE [run EXCEPT !.pc = run.next, !.step = 1]
    /\ UNCHANGED <<jira, rev, conf, local, budget>>

OpenSweep ==
    /\ run.pc = "openSweep"
    /\ meta' = [meta EXCEPT !.fullActive = IF run.step = 1 THEN TRUE ELSE @,
                            !.fullJql    = IF run.step = 2 THEN run.jql ELSE @,
                            !.fullSeen   = IF run.step = 3 THEN {} ELSE @]
    /\ run' = IF run.step < 3
                THEN [run EXCEPT !.step = @ + 1]
                ELSE [run EXCEPT !.pc = "checkQuery"]
    /\ UNCHANGED <<jira, rev, conf, local, budget>>

-----------------------------------------------------------------------------
(* run_sync.                                                               *)

\* _clear_tokens_if_query_changed
CheckQuery ==
    /\ run.pc = "checkQuery"
    /\ run' = IF meta.jql \notin {NoQuery, run.jql}
                THEN [run EXCEPT !.pc = "clear", !.step = 1, !.next = "setQuery"]
                ELSE [run EXCEPT !.pc = "setQuery"]
    /\ UNCHANGED <<jira, rev, conf, local, meta, budget>>

SetQuery ==
    /\ run.pc = "setQuery"
    /\ meta' = [meta EXCEPT !.jql = run.jql]
    /\ run' = [run EXCEPT !.pc = "resolve"]
    /\ UNCHANGED <<jira, rev, conf, local, budget>>

\* A resumed sweep starts from its pending stamp and forgets the watermark.
ResolveSlip ==
    LET phase == run.mode # "full" /\ meta.done
        token == IF phase THEN meta.syTok ELSE meta.bfTok
    IN  /\ run.pc = "resolve"
        /\ run' = [run EXCEPT
                     !.pc = "fetch",
                     !.inc = phase,
                     !.floor = IF phase THEN MinuteOf[meta.wm] ELSE 0,
                     !.wasDone = meta.done,
                     !.token = token,
                     !.held = token # NoToken,
                     !.newest = IF phase THEN meta.newest ELSE 0]
        /\ UNCHANGED <<jira, rev, conf, local, meta, budget>>

\* _resolve_resume_state and the first lines of _sweep_pages.  --full is
\* incremental=False: no watermark, and always the backfill phase.
Resolve ==
    LET incremental == run.mode # "full"
        watermark   == IF incremental THEN meta.wm ELSE 0
        phase       == incremental /\ meta.done
        token       == IF phase THEN meta.syTok ELSE meta.bfTok
    IN  /\ run.pc = "resolve"
        /\ run' = [run EXCEPT
                     !.pc = "fetch",
                     !.inc = phase,
                     !.floor = IF phase THEN MinuteOf[watermark] ELSE 0,
                     !.wasDone = meta.done,
                     !.token = token,
                     !.held = token # NoToken,
                     !.newest = IF phase THEN Later(watermark, meta.newest)
                                         ELSE watermark]
        /\ UNCHANGED <<jira, rev, conf, local, meta, budget>>

\* Jira's search: the query's issues at or above the floor and past the token,
\* newest first.  A token only serves the query it was minted for.
Position == IF run.token = NoToken THEN MaxRev + 1 ELSE run.token.pos

Served == run.token # NoToken => /\ run.token.query = run.jql
                                 /\ run.token.floor = run.floor

Results == {k \in Match[run.jql] : /\ jira[k] # 0
                                   /\ jira[k] < Position
                                   /\ StampOf[jira[k]] >= run.floor}

IsPage(S) ==
    /\ Cardinality(S) = IF Cardinality(Results) < PageSize
                          THEN Cardinality(Results) ELSE PageSize
    /\ \A k \in S, l \in Results \ S : jira[l] < jira[k]

FetchPage ==
    /\ run.pc = "fetch" /\ Served /\ Results # {}
    /\ \E S \in SUBSET Results : \E last \in S :
         /\ IsPage(S)
         /\ \A k \in S : jira[last] <= jira[k]
         /\ run' = [run EXCEPT
                      !.pc = "store",
                      !.page = [k \in Keys |-> IF k \in S THEN jira[k] ELSE 0],
                      !.after = IF S = Results THEN NoToken
                                ELSE [query |-> run.jql, floor |-> run.floor,
                                      pos |-> jira[last]]]
    /\ UNCHANGED <<jira, rev, conf, local, meta, budget>>

FetchNothing ==
    /\ run.pc = "fetch" /\ Served /\ Results = {}
    /\ run' = [run EXCEPT !.pc = "persist", !.step = 1, !.exhausted = TRUE]
    /\ UNCHANGED <<jira, rev, conf, local, meta, budget>>

\* A 4xx on the first request of a run that resumed a persisted token.
TokenRejected ==
    /\ run.pc = "fetch" /\ run.held /\ run.pages = 0
    /\ Served => budget.rejects > 0
    /\ budget' = IF Served THEN [budget EXCEPT !.rejects = @ - 1] ELSE budget
    /\ meta' = IF run.inc THEN [meta EXCEPT !.syTok = NoToken]
                          ELSE [meta EXCEPT !.bfTok = NoToken]
    /\ run' = [run EXCEPT !.token = NoToken, !.held = FALSE]
    /\ UNCHANGED <<jira, rev, conf, local>>

\* Any other failure of the request, or a malformed response, leaves run_sync
\* by an exception before the page or any progress is written.
RequestFails ==
    /\ run.pc = "fetch" /\ budget.failures > 0
    /\ budget' = [budget EXCEPT !.failures = @ - 1]
    /\ run' = Idle
    /\ UNCHANGED <<jira, rev, conf, local, meta>>

PageNewest(p) ==
    {s \in Stamps : \E k \in Keys : p[k] # 0 /\ s = StampOf[p[k]]}

IsNewest(n, p) ==
    /\ n \in PageNewest(p) \cup {run.newest}
    /\ \A s \in PageNewest(p) \cup {run.newest} : s <= n

\* upsert_many commits the page's rows in one transaction; then the loop test.
StorePage ==
    /\ run.pc = "store"
    /\ local' = [k \in Keys |-> IF run.page[k] # 0 THEN run.page[k] ELSE local[k]]
    /\ \E n \in Stamps :
         /\ IsNewest(n, run.page)
         /\ run' = [run EXCEPT
                      !.pc = IF run.after # NoToken /\ run.pages + 1 < MaxPages
                               THEN "fetch" ELSE "persist",
                      !.step = 1,
                      !.page = [k \in Keys |-> 0],
                      !.after = NoToken,
                      !.token = run.after,
                      !.newest = n,
                      !.pages = @ + 1,
                      !.exhausted = run.after = NoToken,
                      !.seen = @ \cup {k \in Keys : run.page[k] # 0}]
    /\ UNCHANGED <<jira, rev, conf, meta, budget>>

\* A truncated run advances the watermark too.
IncrementalWriteSlip(i) ==
    [meta EXCEPT
       !.wm     = IF i = 1 /\ run.newest # 0 THEN run.newest ELSE @,
       !.syTok  = IF i = 2 THEN run.token ELSE @,
       !.newest = IF i = 3 THEN (IF run.exhausted THEN 0 ELSE run.newest) ELSE @]

\* _persist_incremental_progress, one set_meta at a time.
IncrementalWrite(i) ==
    IF run.exhausted
      THEN [meta EXCEPT
              !.wm     = IF i = 1 /\ run.newest # 0 THEN run.newest ELSE @,
              !.syTok  = IF i = 2 THEN NoToken ELSE @,
              !.newest = IF i = 3 THEN 0 ELSE @]
      ELSE [meta EXCEPT
              !.syTok  = IF i = 2 THEN run.token ELSE @,
              !.newest = IF i = 3 THEN run.newest ELSE @]

\* A truncated backfill is not resumed: every run starts at the first page.
BackfillWriteSlip(i) ==
    [meta EXCEPT
       !.wm   = IF i = 1 /\ run.newest # 0 THEN run.newest ELSE @,
       !.done = IF i = 2 /\ run.exhausted THEN TRUE ELSE @]

\* _persist_backfill_progress, likewise.
BackfillWrite(i) ==
    [meta EXCEPT
       !.wm    = IF i = 1 /\ run.newest # 0 THEN run.newest ELSE @,
       !.done  = IF i = 2 /\ run.exhausted THEN TRUE ELSE @,
       !.bfTok = IF i = 3 THEN (IF run.exhausted THEN NoToken ELSE run.token)
                          ELSE @]

Persist ==
    /\ run.pc = "persist"
    /\ meta' = IF run.inc THEN IncrementalWrite(run.step)
                          ELSE BackfillWrite(run.step)
    /\ run' = IF run.step < 3
                THEN [run EXCEPT !.step = @ + 1]
                ELSE [run EXCEPT !.pc = "finish"]
    /\ UNCHANGED <<jira, rev, conf, local, budget>>

-----------------------------------------------------------------------------
(* After run_sync.                                                         *)

FinishCli ==
    /\ run.pc = "finish" /\ run.mode = "cli"
    /\ run' = Idle
    /\ UNCHANGED <<jira, rev, conf, local, meta, budget>>

\* _apply_retention, which only the background run calls.
Prune ==
    /\ run.pc = "finish" /\ run.mode = "session"
    /\ local' = [k \in Keys |-> IF StampOf[local[k]] < Cutoff THEN 0 ELSE local[k]]
    /\ run' = Idle
    /\ UNCHANGED <<jira, rev, conf, meta, budget>>

\* A resumed sweep that forgets what its earlier runs saw.
SweepSeenSlip == run.seen

\* _reconcile_full_sync and run_sync's "backfill_complete".
SweepSeen == run.prior \cup run.seen
BackfillComplete == run.wasDone \/ run.exhausted

KeepSweep ==
    /\ run.pc = "finish" /\ run.mode = "full" /\ ~BackfillComplete
    /\ meta' = [meta EXCEPT !.fullSeen = SweepSeen]
    /\ run' = Idle
    /\ UNCHANGED <<jira, rev, conf, local, budget>>

DeleteUnseen ==
    /\ run.pc = "finish" /\ run.mode = "full" /\ BackfillComplete
    /\ local' = [k \in Keys |-> IF k \in SweepSeen THEN local[k] ELSE 0]
    /\ run' = [run EXCEPT !.pc = "closeSweep", !.step = 1]
    /\ UNCHANGED <<jira, rev, conf, meta, budget>>

CloseSweep ==
    /\ run.pc = "closeSweep"
    /\ meta' = [meta EXCEPT !.fullActive = IF run.step = 1 THEN FALSE ELSE @,
                            !.fullJql    = IF run.step = 2 THEN NoQuery ELSE @,
                            !.fullSeen   = IF run.step = 3 THEN {} ELSE @]
    /\ run' = IF run.step < 3 THEN [run EXCEPT !.step = @ + 1] ELSE Idle
    /\ UNCHANGED <<jira, rev, conf, local, budget>>

\* The process dies, or its daemon thread dies with the session.
Crash ==
    /\ run.pc # "idle" /\ budget.crashes > 0
    /\ budget' = [budget EXCEPT !.crashes = @ - 1]
    /\ run' = Idle
    /\ UNCHANGED <<jira, rev, conf, local, meta>>

-----------------------------------------------------------------------------
Sync ==
    \/ ResumeSweep \/ ResetForSweep \/ ClearOne \/ OpenSweep
    \/ CheckQuery \/ SetQuery \/ Resolve
    \/ FetchPage \/ FetchNothing \/ TokenRejected \/ StorePage \/ Persist
    \/ FinishCli \/ Prune \/ KeepSweep \/ DeleteUnseen \/ CloseSweep

Upstream == \E k \in Keys : EditIssue(k) \/ DeleteIssue(k)

Next ==
    \/ Upstream
    \/ \E q \in Queries : EditQuery(q)
    \/ \E m \in Modes : Start(m)
    \/ Sync
    \/ RequestFails
    \/ Crash

Spec == Init /\ [][Next]_vars

\* A sync that runs takes its next step, and a session starts one again (every
\* on_session_start and every incident tool call triggers the scheduler).
FairSpec ==
    /\ Spec
    /\ WF_vars(Sync)
    /\ WF_vars(Start("session"))

-----------------------------------------------------------------------------
(* Properties.                                                             *)

TokensOrNone == Tokens \cup {NoToken}
Pcs == {"idle", "prepare", "clear", "openSweep", "checkQuery", "setQuery",
        "resolve", "fetch", "store", "persist", "finish", "closeSweep"}

Steps == 0..5
Nexts == {"idle", "openSweep", "setQuery"}
QueriesOrNone == Queries \cup {NoQuery}

MetaType == [wm : Stamps, done : BOOLEAN, bfTok : TokensOrNone,
             syTok : TokensOrNone, newest : Stamps, jql : QueriesOrNone,
             fullActive : BOOLEAN, fullJql : QueriesOrNone,
             fullSeen : SUBSET Keys]

RunType == [pc : Pcs, mode : AllModes, jql : QueriesOrNone,
            step : Steps, next : Nexts,
            inc : BOOLEAN, floor : Stamps, wasDone : BOOLEAN,
            token : TokensOrNone, held : BOOLEAN, newest : Stamps, pages : Nat,
            exhausted : BOOLEAN, page : [Keys -> Revs], after : TokensOrNone,
            seen : SUBSET Keys, prior : SUBSET Keys]

\* Every variable keeps its type: the meta strings, the resume state of a run
\* and the rows are what the code stores in them.
TypeOK ==
    /\ rev \in Revs
    /\ jira \in [Keys -> Revs]
    /\ conf \in Queries
    /\ local \in [Keys -> Revs]
    /\ meta \in MetaType
    /\ run \in RunType
    /\ run.pc # "idle" => run.jql \in Queries
    /\ budget \in [edits : Nat, crashes : Nat, failures : Nat,
                  rejects : Nat, queries : Nat]

\* The keys the index of query q owes its readers that it has not got: live,
\* selected, inside the retention window, and absent or outdated here.
Missing(q) == {k \in Match[q] : /\ jira[k] # 0
                                /\ StampOf[jira[k]] >= Cutoff
                                /\ local[k] # jira[k]}

\* run_sync's promise: once the backfill is done, whatever the index still
\* lacks is at or above the watermark, so the next incremental query selects
\* it.  No truncation, token expiry, crash or query edit loses an issue.
NothingMissed ==
    meta.done /\ meta.jql # NoQuery =>
        \A k \in Missing(meta.jql) : StampOf[jira[k]] >= meta.wm

\* A persisted resume token belongs to the query recorded beside it, through a
\* crash between any two writes of a query change: no run pages one query with
\* the other's token (ingest.py _clear_tokens_if_query_changed).
TokensMatchStoredQuery ==
    \A t \in {meta.bfTok, meta.syTok} : t # NoToken => t.query = meta.jql

\* The watermark moves back only when a reset clears it: no truncated run,
\* resumed token, deleted issue or rounding to minutes makes it retreat.
WatermarkNeverRetreats ==
    [][meta'.wm < meta.wm => run.pc = "clear" /\ meta'.wm = 0]_vars

\* `--full` deletes only what Jira no longer returns (cli.py
\* _reconcile_full_sync: "Deletion is safe ONLY when the run enumerated every
\* live issue"; README: "deletion happens only after the complete sweep").
SweepDeletesOnlyGone ==
    [][DeleteUnseen =>
        \A k \in Match[run.jql] : local[k] # 0 /\ local'[k] = 0 => jira[k] = 0]_vars

\* When edits, faults and rejections are over, the index of the configured
\* query ends up, and stays, complete and up to date.
IndexConverges ==
    <>[](\A k \in Match[conf] :
            jira[k] = 0 \/ StampOf[jira[k]] < Cutoff \/ local[k] = jira[k])

-----------------------------------------------------------------------------
(* The inductive invariant behind NothingMissed, for the runs that are not *)
(* `--full`: which missing issues each stage of a run still leads to.      *)

Sweeping == run.pc \in {"fetch", "store", "persist"}

Ahead(k, t) == t = NoToken \/ jira[k] < t.pos

\* Every stamp and revision the code remembers exists upstream, and no row or
\* page is ahead of the live revision of its key.
NothingFromTheFuture ==
    /\ meta.wm <= StampOf[rev]
    /\ meta.newest <= StampOf[rev]
    /\ run.newest <= StampOf[rev]
    /\ \A k \in Keys :
         /\ jira[k] <= rev /\ local[k] <= rev /\ run.page[k] <= rev
         /\ jira[k] # 0 => local[k] <= jira[k] /\ run.page[k] <= jira[k]
         /\ run.page[k] # 0 => run.pc = "store" /\ local[k] <= run.page[k]

\* A missing issue is still ahead of the backfill's token, or is at or above
\* the watermark; only the latter once the backfill is done.
WatermarkCovers ==
    meta.jql # NoQuery => \A k \in Missing(meta.jql) :
        \/ ~meta.done /\ Ahead(k, meta.bfTok)
        \/ StampOf[jira[k]] >= meta.wm

\* A missing issue is ahead of the saved incremental token, or is at or above
\* the newest stamp saved with it.
TokenCovers ==
    meta.jql # NoQuery => \A k \in Missing(meta.jql) :
        Ahead(k, meta.syTok) \/ StampOf[jira[k]] >= meta.newest

\* The stages of a run and what each has established.
Stages ==
    /\ run.pc \notin {"prepare", "openSweep", "closeSweep"}
    /\ run.mode # "full" /\ run.next # "openSweep"
    /\ meta.jql = NoQuery => /\ meta.wm = 0 /\ ~meta.done /\ meta.newest = 0
                             /\ meta.bfTok = NoToken /\ meta.syTok = NoToken
                             /\ run.pc \in {"idle", "checkQuery", "setQuery"}
    /\ run.pc = "clear" => /\ run.next = "setQuery" /\ run.step \in 1..5
                           /\ run.step > 1 => meta.wm = 0
                           /\ run.step > 2 => ~meta.done
                           /\ run.step > 3 => meta.bfTok = NoToken
                           /\ run.step > 4 => meta.syTok = NoToken
    /\ run.pc = "setQuery" /\ meta.jql # run.jql =>
         /\ meta.wm = 0 /\ ~meta.done /\ meta.newest = 0
         /\ meta.bfTok = NoToken /\ meta.syTok = NoToken
    /\ run.pc \in {"resolve", "fetch", "store", "persist"} => meta.jql = run.jql

\* What a run in its sweep knows of the watermark it started from.
SweepStart ==
    Sweeping =>
        /\ meta.wm <= run.newest
        /\ run.inc => meta.done /\ meta.newest <= run.newest
        /\ run.inc /\ ~(run.pc = "persist" /\ run.step > 1)
             => run.floor = MinuteOf[meta.wm]
        /\ ~run.inc => run.floor = 0
        /\ ~run.inc /\ ~(run.pc = "persist" /\ run.step = 3) => ~meta.done

\* The next request asks for every missing issue that is not newer than all
\* this run has seen.
FetchCovers ==
    run.pc = "fetch" =>
        /\ Served => \A k \in Missing(run.jql) :
             Ahead(k, run.token) \/ StampOf[jira[k]] >= run.newest
        /\ ~run.inc /\ meta.bfTok # NoToken =>
             run.token # NoToken /\ run.token.pos <= meta.bfTok.pos

AheadOrDone(k, t) == t # NoToken /\ jira[k] < t.pos

MintedHere(t) == t # NoToken => t.query = run.jql /\ t.floor = run.floor

\* A fetched page: a missing issue is on it, is behind the next token, or was
\* edited since and is newer than all of the page.
PageCovers ==
    run.pc = "store" =>
        /\ MintedHere(run.after)
        /\ ~run.inc /\ meta.bfTok # NoToken /\ run.after # NoToken =>
             run.after.pos <= meta.bfTok.pos
        /\ \A k \in Missing(run.jql) :
             \/ run.page[k] = jira[k]
             \/ AheadOrDone(k, run.after)
             \/ /\ StampOf[jira[k]] >= run.newest
                /\ \A l \in Keys : run.page[l] <= jira[k]

\* The sweep is over and its progress is being written.
PersistCovers ==
    run.pc = "persist" =>
        /\ run.step \in 1..3
        /\ ~run.exhausted => run.token # NoToken /\ MintedHere(run.token)
        /\ ~run.inc /\ ~run.exhausted /\ meta.bfTok # NoToken =>
             run.token.pos <= meta.bfTok.pos
        /\ \A k \in Missing(run.jql) :
             \/ ~run.exhausted /\ AheadOrDone(k, run.token)
             \/ StampOf[jira[k]] >= run.newest
        /\ run.step = 3 /\ run.inc /\ ~run.exhausted => meta.syTok = run.token
        /\ run.step = 3 /\ ~run.inc /\ run.exhausted => meta.done

SyncInv ==
    /\ NothingFromTheFuture /\ TokensMatchStoredQuery
    /\ WatermarkCovers /\ TokenCovers
    /\ Stages /\ SweepStart /\ FetchCovers /\ PageCovers /\ PersistCovers

-----------------------------------------------------------------------------
(* The inductive invariant behind SweepDeletesOnlyGone, where `--full` runs *)
(* have the tracker and the database to themselves.                         *)

SweepsAlone == Modes = {"full"} /\ MaxEdits = 0 /\ MaxCrashes = 0

\* Each live issue of a query was seen, or the token is in front of it.
Enumerated(q, seen, t) == \A k \in Match[q] : jira[k] # 0 => k \in seen \/ Ahead(k, t)

\* An open sweep can be taken up where its checkpoint says.
SweepRests ==
    run.pc \in {"idle", "prepare"} /\ meta.fullActive /\ meta.fullJql \in Queries =>
        ~meta.done /\ Enumerated(meta.fullJql, meta.fullSeen, meta.bfTok)

\* How far the reset before a new sweep has come.
SweepBegins ==
    /\ run.pc = "clear" => /\ run.step \in 1..5 /\ run.next \in {"openSweep", "setQuery"}
                           /\ run.step > 2 => ~meta.done
                           /\ run.step > 3 => meta.bfTok = NoToken
    /\ run.pc = "openSweep" => /\ run.step \in 1..3 /\ ~meta.done /\ meta.bfTok = NoToken
                               /\ run.step > 1 => meta.fullActive
                               /\ run.step > 2 => meta.fullJql = run.jql
    /\ run.pc \in {"prepare", "openSweep"} => run.prior = {}
    /\ run.pc = "clear" /\ run.next = "openSweep" => run.prior = {}

\* From its opening to its end the checkpoint is what the run goes on from.
Opened ==
    \/ run.pc \in {"checkQuery", "setQuery", "resolve", "fetch", "store", "persist", "finish"}
    \/ (run.pc = "clear" /\ run.next = "setQuery")

SweepGoesOn ==
    /\ run.pc # "idle" => run.mode = "full"
    /\ Opened => meta.fullActive /\ meta.fullJql = run.jql /\ meta.fullSeen = run.prior
    /\ run.pc \in {"checkQuery", "setQuery", "resolve", "fetch", "store"} =>
          ~meta.done /\ Enumerated(run.jql, run.prior, meta.bfTok)
    /\ Sweeping \/ run.pc = "finish" => ~run.wasDone /\ ~run.inc /\ run.floor = 0

\* The live issues are those seen, those on the page, and those ahead.
SweepCovers ==
    /\ run.pc = "fetch" => Enumerated(run.jql, SweepSeen, run.token)
    /\ run.pc = "store" => \A k \in Match[run.jql] : jira[k] # 0 =>
          k \in SweepSeen \/ run.page[k] # 0 \/ AheadOrDone(k, run.after)
    /\ run.pc \in {"persist", "finish"} => \A k \in Match[run.jql] : jira[k] # 0 =>
          k \in SweepSeen \/ (~run.exhausted /\ AheadOrDone(k, run.token))
    /\ run.pc = "persist" => run.step \in 1..3 /\ (~run.exhausted => ~meta.done)
    /\ run.pc = "finish" /\ ~run.exhausted => ~meta.done /\ meta.bfTok = run.token
    /\ run.pc = "closeSweep" => run.step \in 1..3 /\ (run.step > 1 => ~meta.fullActive)

SweepInv ==
    /\ budget.edits = 0 /\ budget.crashes = 0
    /\ SweepRests /\ SweepBegins /\ SweepGoesOn /\ SweepCovers
=============================================================================
