----------------------------- MODULE HistoryData ----------------------------
(* The rows of the test history and what is computed from them: the report a *)
(* JUnit file is parsed into, the one logical run kept per file and time,    *)
(* the verdict over a window of runs, and how a test is found by its id.     *)
(* A test is [class, name, file]; "" stands for an attribute that is absent. *)
(* A run row is [id, file, stamp, at, cases]: cases is a set of              *)
(* [test, status], stamp the time the report gives (or None), at the time of *)
(* the ingest.                                                               *)
EXTENDS Integers, FiniteSets, Sequences

CONSTANT None

FailStatuses == {"failed", "error"}

-----------------------------------------------------------------------------
(* A JUnit document: [root, direct, top, nested, stamp, mtime, total].       *)
(* direct are the cases right under the root, top those of the suites under  *)
(* it, nested those of suites inside suites; totals the tests="..." of the   *)
(* suites that are summed up (None where one of them has none) and rootTotal *)
(* that of the root.                                                         *)

AllCases(doc) == doc.direct \cup doc.top \cup doc.nested

\* Cases are collected from the suites; only when those have none, from the
\* whole document.  A root that is itself a suite counts as one.
CollectCases(doc) ==
    LET scoped == doc.top \cup doc.nested
                  \cup (IF doc.root = "testsuite" THEN doc.direct ELSE {})
    IN  IF scoped # {} THEN scoped ELSE AllCases(doc)

NotJUnit(doc) ==
    doc.root \notin {"testsuite", "testsuites"} /\ ~doc.suites /\ AllCases(doc) = {}

RunTotal(doc) ==
    CASE doc.total # None     -> doc.total
      [] doc.rootTotal # None -> doc.rootTotal
      [] OTHER                -> Cardinality(CollectCases(doc))

RunStamp(doc) == IF doc.stamp # None THEN doc.stamp ELSE doc.mtime

\* What parse_junit_xml returns; Unreadable covers malformed, oversized and
\* DTD-declaring files.
ParseFails(doc) == doc.root = "unreadable" \/ NotJUnit(doc)
ParsedRun(doc) ==
    [stamp |-> RunStamp(doc), total |-> RunTotal(doc), cases |-> CollectCases(doc)]

-----------------------------------------------------------------------------
EffectiveTime(run) == IF run.stamp # None THEN run.stamp ELSE run.at

LogicalKey(run) == <<run.file, EffectiveTime(run)>>

\* The earliest ingest wins: a Slip is the next definition with a mistake.
IngestedAfterSlip(r, s) == r.at < s.at \/ (r.at = s.at /\ r.id < s.id)

IngestedAfter(r, s) == r.at > s.at \/ (r.at = s.at /\ r.id > s.id)

InWindow(runs, cutoff) == {r \in runs : EffectiveTime(r) >= cutoff}

\* The window-function query: the most recently ingested run of each key.
LogicalRuns(runs, cutoff) ==
    {r \in InWindow(runs, cutoff) :
        \A s \in InWindow(runs, cutoff) :
            s # r /\ LogicalKey(s) = LogicalKey(r) => IngestedAfter(r, s)}

\* The non-skipped cases of the logical runs.
Counted(runs) == UNION {{[run |-> r.id, eff |-> EffectiveTime(r), test |-> c.test,
                          status |-> c.status] :
                            c \in {d \in r.cases : d.status # "skipped"}} : r \in runs}

WindowedRows(runs, cutoff) == Counted(LogicalRuns(runs, cutoff))

\* The fallback: every row in the order of the query, the first of a key stays.
SortedRuns(runs) ==
    CHOOSE s \in [1..Cardinality(runs) -> runs] :
        \A i, j \in DOMAIN s : i < j => IngestedAfter(s[i], s[j])

Survivors(runs, cutoff) ==
    LET rows == SortedRuns(InWindow(runs, cutoff))
    IN  {rows[i] : i \in {j \in DOMAIN rows :
            \A h \in 1..(j - 1) : LogicalKey(rows[h]) # LogicalKey(rows[j])}}

FallbackRows(runs, cutoff) == Counted(Survivors(runs, cutoff))

-----------------------------------------------------------------------------
(* Classification.                                                           *)

\* make_test_key: the class is the namespace, else the file.
TestKey(test) == <<IF test.class # "" THEN test.class ELSE test.file, test.name>>

CountedFails(errors) == IF errors THEN FailStatuses ELSE {"failed"}

\* Rows come in the order of their effective time, then of their ingest.
FirstRow(rows) ==
    CHOOSE r \in rows : \A s \in rows :
        r.eff < s.eff \/ (r.eff = s.eff /\ r.run <= s.run)

Highest(times) == CHOOSE t \in times : \A u \in times : u <= t

\* The verdict on one key; params is [window, minFails, errors].
VerdictOn(rows, key, params) ==
    LET own    == {r \in rows : TestKey(r.test) = key}
        passed == {r \in own : r.status = "passed"}
        failed == {r \in own : r.status \in CountedFails(params.errors)}
        fails  == Cardinality(failed)
        named  == {r \in own : r.test.file # ""}
    IN  [ name |-> key[2],
          class |-> FirstRow(own).test.class,
          file |-> IF named = {} THEN "" ELSE FirstRow(named).test.file,
          passes |-> Cardinality(passed), fails |-> fails,
          lastFailure |-> IF failed = {} THEN None ELSE Highest({r.eff : r \in failed}),
          status |-> CASE fails >= params.minFails /\ passed # {} -> "flaky"
                       [] fails >= params.minFails -> "consistently_failing"
                       [] OTHER -> "stable" ]

Runs(verdict) == verdict.passes + verdict.fails

\* All verdicts with a counted run: a function on the keys of the rows.
Verdicts(rows, params) ==
    LET keys == {TestKey(r.test) : r \in rows}
        with == {k \in keys : Runs(VerdictOn(rows, k, params)) > 0}
    IN  [k \in with |-> VerdictOn(rows, k, params)]

FlakyKeys(verdicts) == {k \in DOMAIN verdicts : verdicts[k].status = "flaky"}

-----------------------------------------------------------------------------
(* What the history tools count: every ingested run, re-ingests too.         *)

CasesOf(runs, cases) == UNION {{<<r.id, c>> : c \in r.cases \cap cases} : r \in runs}

Exactly(id, c) ==
    IF Len(id) = 2 THEN c.test.name = id[2] /\ id[1] \in {c.test.class, c.test.file}
    ELSE c.test.name = id[1]

\* test_failure_lookup: the exact id, and when nothing matches the full text of
\* the name part, which finds the tests of that name.
FailureLookup(runs, id) ==
    LET all == UNION {r.cases : r \in runs}
        exact == CasesOf(runs, {c \in all : Exactly(id, c)})
        found == IF exact # {} THEN exact
                 ELSE CasesOf(runs, {c \in all : c.test.name = id[Len(id)]})
        bad   == {m \in found : m[2].status \in FailStatuses}
    IN  [ total |-> Cardinality({m[1] : m \in found}),
          failures |-> Cardinality({m[1] : m \in bad}),
          tests |-> Cardinality({<<m[2].test.class, m[2].test.name>> : m \in found}) ]

-----------------------------------------------------------------------------
(* Finding a test by an id, which is <<left, right>> or <<name>>.            *)

\* resolve_verdicts: an exact key, else class or file with the name, else the
\* bare name.
Resolve(verdicts, id) ==
    IF Len(id) = 2
    THEN IF id \in DOMAIN verdicts THEN {id}
         ELSE {k \in DOMAIN verdicts :
                 /\ verdicts[k].name = id[2]
                 /\ id[1] \in {verdicts[k].class, verdicts[k].file}}
    ELSE {k \in DOMAIN verdicts : verdicts[k].name = id[1]}

\* The answer of is_flaky: the candidate with most failures, then most runs.
IsFlaky(verdicts, id) ==
    LET found == Resolve(verdicts, id)
        Worse(j, k) == \/ verdicts[j].fails > verdicts[k].fails
                       \/ /\ verdicts[j].fails = verdicts[k].fails
                          /\ Runs(verdicts[j]) >= Runs(verdicts[k])
    IN  IF found = {} THEN "unknown"
        ELSE verdicts[CHOOSE k \in found : \A j \in found : Worse(k, j)].status
=============================================================================
