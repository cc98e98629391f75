------------------------------ MODULE Detective -----------------------------
(* The nightly scan over the test history: it reads one logical run per      *)
(* report, classifies every test, compares with the verdicts on record,      *)
(* replaces them and reports what changed.  A scan's reads and writes are    *)
(* separate transactions on two databases; CI, ingests, prunes and the       *)
(* pipeline's feedback go on between them, and a scan may die at any point.  *)
(* One unit of time is at once the resolution of a time stamp and of the     *)
(* window.                                                                   *)
(*                                                                           *)
(* A definition named ...Slip is the next one with a plausible mistake.      *)
EXTENDS HistoryData

CONSTANTS
    Scanners,   \* the processes that scan: the cron job, the command line
    Reports,    \* report files
    Contents,   \* what CI may write into one, a set of sets of cases
    Ids,        \* ids the pipeline heals under, <<left, name>>
    Repeats,    \* burn-in runs fed back at once
    Params,     \* the tunables a scan may run with
    MaxTime, MaxRuns, MaxCrashes

ASSUME DetectiveAssumption ==
    /\ None \notin Nat /\ Repeats \in Nat \ {0} /\ MaxTime \in Nat \ {0}
    /\ \A p \in Params : p.window \in Nat
    /\ \A cases \in Contents :
          IsFiniteSet(cases) /\ \A c \in cases : c = [test |-> c.test, status |-> c.status]

VARIABLES
    now,
    report,    \* what is in each report file, None before CI's first
    history,   \* the rows of the history database, [runs, next]
    snapshot,  \* the verdicts on record, a function on keys
    audit,     \* the tests examined by the last recorded scan
    pc, rows, params, new, prev,
               \* the scans under way: where they are, what they read, the
               \* tunables, their verdicts, the keys that were flaky before
    truth,     \* ghost: the last ingested content of each report, by its time
    told,      \* ghost: the tests a reader of all reports believes flaky
    lost,      \* ghost: the tests whose last change no report told
    crashes

scans == <<pc, rows, params, new, prev>>
vars == <<now, report, history, snapshot, audit, scans, truth, told, lost, crashes>>
environment == <<now, report, history, truth>>

NoVerdicts == [k \in {} |-> None]

Init ==
    /\ now = 1
    /\ report = [f \in Reports |-> None]
    /\ history = [runs |-> {}, next |-> 1]
    /\ snapshot = NoVerdicts /\ audit = None
    /\ pc = [s \in Scanners |-> "idle"]
    /\ rows = [s \in Scanners |-> {}]
    /\ params = [s \in Scanners |-> None]
    /\ new = [s \in Scanners |-> NoVerdicts]
    /\ prev = [s \in Scanners |-> {}]
    /\ truth = {} /\ told = {} /\ lost = {} /\ crashes = 0

-----------------------------------------------------------------------------
(* What happens around the scans.                                            *)

UnchangedScans == UNCHANGED <<snapshot, audit, scans, told, lost, crashes>>

Tick ==
    /\ now < MaxTime
    /\ now' = now + 1
    /\ UNCHANGED <<report, history, truth>> /\ UnchangedScans

\* A CI job writes its report; a job that is run again may write another one
\* with the same time.
CiWrites(f) ==
    /\ \E cases \in Contents : report' = [report EXCEPT ![f] = [stamp |-> now, cases |-> cases]]
    /\ UNCHANGED <<now, history, truth>> /\ UnchangedScans

Row(id, file, stamp, cases) ==
    [id |-> id, file |-> file, stamp |-> stamp, at |-> now, cases |-> cases]

Latest(file, stamp, cases) ==
    {t \in truth : t.file # file \/ t.stamp # stamp}
        \cup {[file |-> file, stamp |-> stamp, cases |-> cases]}

Ingest(f) ==
    LET doc == report[f]
    IN  /\ doc # None /\ history.next <= MaxRuns
        /\ history' = [ runs |-> history.runs \cup {Row(history.next, f, doc.stamp, doc.cases)},
                        next |-> history.next + 1 ]
        /\ truth' = Latest(f, doc.stamp, doc.cases)
        /\ UNCHANGED <<now, report>> /\ UnchangedScans

Prune(cutoff) ==
    /\ InWindow(history.runs, cutoff) # history.runs
    /\ history' = [history EXCEPT !.runs = InWindow(@, cutoff)]
    /\ truth' = {t \in truth : t.stamp >= cutoff}
    /\ UNCHANGED <<now, report>> /\ UnchangedScans

\* The case the pipeline makes of the id it was called with.
FedCase(id) ==
    [ test |-> [class |-> id[1], name |-> id[2], file |-> "fed"], status |-> "passed" ]

\* A stable burn-in is fed back: its runs share the file name and the second.
Feed(id) ==
    /\ history.next + Repeats <= MaxRuns + 1
    /\ history' = [ runs |-> history.runs \cup
                        {Row(n, "synthetic", now, {FedCase(id)}) :
                            n \in history.next..(history.next + Repeats - 1)},
                    next |-> history.next + Repeats ]
    /\ truth' = Latest("synthetic", now, {FedCase(id)})
    /\ UNCHANGED <<now, report>> /\ UnchangedScans

-----------------------------------------------------------------------------
(* run_scan.                                                                 *)

Cutoff(tunables) == now - tunables.window

\* The history is there once something was ingested; a scan before that ends
\* without a trace.  The rows are read by one statement.
Read(s, tunables) ==
    /\ pc[s] = "idle" /\ history.next > 1
    /\ pc' = [pc EXCEPT ![s] = "classify"]
    /\ params' = [params EXCEPT ![s] = tunables]
    /\ rows' = [rows EXCEPT ![s] = WindowedRows(history.runs, Cutoff(tunables))]
    /\ UNCHANGED <<new, prev, snapshot, audit, told, lost, crashes>>
    /\ UNCHANGED environment

\* The scan is over, and its process with it.
End(s) ==
    /\ pc' = [pc EXCEPT ![s] = "idle"]
    /\ params' = [params EXCEPT ![s] = None]
    /\ rows' = [rows EXCEPT ![s] = {}]
    /\ new' = [new EXCEPT ![s] = NoVerdicts]
    /\ prev' = [prev EXCEPT ![s] = {}]

\* A scan that counted nothing still replaces the verdicts.
KeepSnapshotSlip(s) ==
    /\ pc[s] = "classify"
    /\ DOMAIN Verdicts(rows[s], params[s]) = {}
    /\ audit' = 0 /\ snapshot' = NoVerdicts
    /\ End(s)
    /\ UNCHANGED <<told, lost, crashes>> /\ UNCHANGED environment

\* Nothing counted: the verdicts on record stay, only the audit row is written.
KeepSnapshot(s) ==
    /\ pc[s] = "classify"
    /\ DOMAIN Verdicts(rows[s], params[s]) = {}
    /\ audit' = 0
    /\ End(s)
    /\ UNCHANGED <<snapshot, told, lost, crashes>> /\ UNCHANGED environment

ReadPrevious(s) ==
    /\ pc[s] = "classify"
    /\ DOMAIN Verdicts(rows[s], params[s]) # {}
    /\ new' = [new EXCEPT ![s] = Verdicts(rows[s], params[s])]
    /\ prev' = [prev EXCEPT ![s] = FlakyKeys(snapshot)]
    /\ rows' = [rows EXCEPT ![s] = {}]
    /\ pc' = [pc EXCEPT ![s] = "replace"]
    /\ UNCHANGED <<params, snapshot, audit, told, lost, crashes>>
    /\ UNCHANGED environment

\* The verdicts are stored only when another test is flaky than before.
ReplaceSlip(s) ==
    /\ pc[s] = "replace"
    /\ snapshot' = IF FlakyKeys(new[s]) = prev[s] THEN snapshot ELSE new[s]
    /\ pc' = [pc EXCEPT ![s] = "record"]
    /\ UNCHANGED <<rows, params, new, prev, audit, told, lost, crashes>>
    /\ UNCHANGED environment

Replace(s) ==
    /\ pc[s] = "replace"
    /\ snapshot' = new[s]
    /\ pc' = [pc EXCEPT ![s] = "record"]
    /\ UNCHANGED <<rows, params, new, prev, audit, told, lost, crashes>>
    /\ UNCHANGED environment

Record(s) ==
    /\ pc[s] = "record"
    /\ audit' = Cardinality(DOMAIN new[s])
    /\ pc' = [pc EXCEPT ![s] = "report"]
    /\ UNCHANGED <<rows, params, new, prev, snapshot, told, lost, crashes>>
    /\ UNCHANGED environment

\* Compared with what is on record now, after the verdicts were replaced.
NewlyFlakySlip(s) == FlakyKeys(new[s]) \ FlakyKeys(snapshot)

\* flaky_changes: against what was on record before the verdicts were replaced.
NewlyFlaky(s) == FlakyKeys(new[s]) \ prev[s]

\* Only the newly flaky tests are reported.
NewlyResolvedSlip(s) == {}

NewlyResolved(s) == prev[s] \ FlakyKeys(new[s])

Report(s) ==
    /\ pc[s] = "report"
    /\ told' = (told \cup NewlyFlaky(s)) \ NewlyResolved(s)
    /\ lost' = lost \ (NewlyFlaky(s) \cup NewlyResolved(s))
    /\ End(s)
    /\ UNCHANGED <<snapshot, audit, crashes>> /\ UNCHANGED environment

\* Between the replacement and the report the change is still to be told.
Pending(s) == pc[s] \in {"record", "report"}

Crash(s) ==
    /\ pc[s] # "idle" /\ crashes < MaxCrashes
    /\ crashes' = crashes + 1
    /\ lost' = IF Pending(s) THEN lost \cup (NewlyFlaky(s) \cup NewlyResolved(s)) ELSE lost
    /\ End(s)
    /\ UNCHANGED <<snapshot, audit, told>> /\ UNCHANGED environment

-----------------------------------------------------------------------------
Around ==
    \/ Tick
    \/ \E f \in Reports : CiWrites(f) \/ Ingest(f)
    \/ \E cutoff \in 1..now : Prune(cutoff)
    \/ \E id \in Ids : Feed(id)

Go(s) == KeepSnapshot(s) \/ ReadPrevious(s) \/ Replace(s) \/ Record(s) \/ Report(s)

Next == \/ Around
        \/ \E s \in Scanners : (\E p \in Params : Read(s, p)) \/ Go(s) \/ Crash(s)

\* The cron job starts a scan every night and a started one goes on.
Fairness == \A s \in Scanners : WF_vars(\E p \in Params : Read(s, p)) /\ WF_vars(Go(s))

Spec == Init /\ [][Next]_vars /\ Fairness

-----------------------------------------------------------------------------
Keys == {TestKey(c.test) : c \in UNION Contents} \cup {TestKey(FedCase(id).test) : id \in Ids}

TypeOK ==
    /\ now \in 1..MaxTime
    /\ \A r \in history.runs : r.id < history.next /\ r.at \in 1..now
    /\ DOMAIN snapshot \subseteq Keys
    /\ \A s \in Scanners : DOMAIN new[s] \cup prev[s] \subseteq Keys
    /\ told \subseteq Keys /\ lost \subseteq Keys

\* The tests flaky on record as of the last report.
OnRecord == IF \E s \in Scanners : Pending(s)
            THEN prev[CHOOSE s \in Scanners : Pending(s)] ELSE FlakyKeys(snapshot)

News == INSTANCE FlakyNews WITH actual <- OnRecord

\* The reports of scans that do not overlap keep the promise of FlakyNews:
\* each is the difference to the record the scan before left (reporting.py).
KeepsNews == News!Spec
OneScanner == \E s : Scanners = {s}

\* Between scans a reader of all reports knows the flaky tests, but for those
\* whose news a scan took with it when it died.
TellsAll ==
    (\A s \in Scanners : ~Pending(s)) =>
        (told \ FlakyKeys(snapshot)) \cup (FlakyKeys(snapshot) \ told) \subseteq lost

\* However often a report is ingested again, and whatever is pruned between,
\* a scan counts each report once, with the content ingested last; and the
\* fallback for old SQLite builds reads the same rows ("the result is
\* identical", query._read_windowed).
CountedContent(t, key, statuses) ==
    {c \in t.cases : TestKey(c.test) = key /\ c.status \in statuses}
Weighs(key, statuses, from) ==
    Cardinality(UNION {{<<t.file, t.stamp, c>> : c \in CountedContent(t, key, statuses)} :
                        t \in {u \in truth : u.stamp >= from}})
EachReportOnce ==
    \A p \in Params :
        LET read == WindowedRows(history.runs, Cutoff(p))
            verdict == Verdicts(read, p)
        IN  /\ read = FallbackRows(history.runs, Cutoff(p))
            /\ \A k \in Keys :
                 LET passes == Weighs(k, {"passed"}, Cutoff(p))
                     fails == Weighs(k, CountedFails(p.errors), Cutoff(p))
                 IN  IF k \in DOMAIN verdict
                     THEN verdict[k].passes = passes /\ verdict[k].fails = fails
                     ELSE passes + fails = 0

\* Verdicts once on record are never wiped, by an outage of CI, an emptied
\* history or a scan that counted nothing (scan.py: "Do NOT overwrite the
\* snapshot with an empty one"), and none stands on no run at all.
SnapshotSurvives ==
    [][ /\ DOMAIN snapshot # {} => DOMAIN snapshot' # {}
        /\ \A k \in DOMAIN snapshot' : Runs(snapshot'[k]) > 0 ]_snapshot

\* When nothing changes any more, the verdicts on record become those of the
\* history, unless the window holds nothing that counts.
Settled(p) == snapshot = Verdicts(WindowedRows(history.runs, Cutoff(p)), p)
CatchesUp ==
    \A p \in Params :
        <>[](Params = {p} /\ DOMAIN Verdicts(WindowedRows(history.runs, Cutoff(p)), p) # {})
            => []<>Settled(p)

\* README: a stable burn-in is written back, "so the next detection sweep sees
\* the recovery".
Recovered(id) == \E r \in history.runs :
                    /\ EffectiveTime(r) >= now
                    /\ \E c \in r.cases : c = FedCase(id)
SweepSeesRecovery ==
    \A p \in Params, id \in Ids :
        Recovered(id) => \E r \in WindowedRows(history.runs, Cutoff(p)) :
                            r.test = FedCase(id).test

\* storage.resolve_verdicts: "file_path::name works even though the key is
\* built from classname": what is flaky under its class is flaky under its file.
FileIdWorks ==
    \A k \in FlakyKeys(snapshot) :
        snapshot[k].file # "" => IsFlaky(snapshot, <<snapshot[k].file, k[2]>>) = "flaky"

-----------------------------------------------------------------------------
(* The inductive invariants.                                                 *)

FileNames == Reports \cup {"synthetic"}
Stored == Contents \cup {{FedCase(id)} : id \in Ids}
RunRecord == [id : Nat, file : FileNames, stamp : Nat, at : Nat \ {0}, cases : Stored]

\* Runs are numbered in the order they are ingested in, which is that of time.
RunsInv ==
    /\ now \in 1..MaxTime /\ history.next \in Nat \ {0}
    /\ history = [runs |-> history.runs, next |-> history.next]
    /\ DOMAIN report = Reports
    /\ \A f \in Reports : report[f] # None =>
          report[f].stamp \in Nat /\ report[f].cases \in Contents
    /\ IsFiniteSet(history.runs) /\ history.runs \subseteq RunRecord
    /\ \A r \in history.runs : r.id < history.next /\ r.at <= now
    /\ \A r, q \in history.runs : r.id = q.id => r = q

\* The content of a report that was ingested last is that of its newest run.
Newest(r) ==
    \A q \in history.runs :
        q # r /\ q.file = r.file /\ q.stamp = r.stamp => IngestedAfter(r, q)

TruthInv ==
    truth = {[file |-> r.file, stamp |-> r.stamp, cases |-> r.cases] :
                r \in {q \in history.runs : Newest(q)}}

CountInv == RunsInv /\ TruthInv

\* A scan that is about to replace the verdicts has some, and each has counted runs.
Founded(verdicts) == \A k \in DOMAIN verdicts : Runs(verdicts[k]) > 0
FoundInv ==
    /\ DOMAIN pc = Scanners /\ DOMAIN new = Scanners
    /\ \A s \in Scanners :
          pc[s] = "replace" => DOMAIN new[s] # {} /\ Founded(new[s])
=============================================================================
