---------------------------- MODULE FixStrategies ---------------------------
(* What the healer computes from a failure and the source of a test: the     *)
(* diagnosis, the strategy it calls for, the patch a strategy plans and what *)
(* a patch makes of a source.  A source is a sequence of lines, a line       *)
(*   [tag, sels, locator, expect, timeout, budget, starts, ends, waits]      *)
(* with the selectors it names, those of them inside .locator(...), whether  *)
(* it has expect(, its "timeout: n" and "test.setTimeout(n)" (0 for none),   *)
(* whether a statement starts or a boundary ends there, and the selector it  *)
(* waits for.  Two lines have the same text when the records are equal.      *)
(* A failure is [trace, log]; a trace                                        *)
(*   [sig, relaxed, sel, testid, safe, timedOut, resolved, pending, timeout, *)
(*    markers, expect], a log [sel, markers, timedOut]; either may be None.  *)
EXTENDS Integers, Sequences, SequencesExt

CONSTANTS
    None,
    Answers   \* what the host's model may answer: [cause, sel], or an unusable one

Causes == {"timeout", "fragile_selector", "race_condition", "environment",
           "data", "infra", "unknown"}

-----------------------------------------------------------------------------
(* Diagnosis.                                                                *)

Markers(f) == (IF f.trace = None THEN {} ELSE f.trace.markers)
                  \cup (IF f.log = None THEN {} ELSE f.log.markers)

EvidenceSelector(f) ==
    IF f.trace # None /\ f.trace.sel # None THEN f.trace.sel
    ELSE IF f.log # None THEN f.log.sel ELSE None

TraceTimedOut(f) == f.trace # None /\ f.trace.timedOut

\* The rules in their order, with the confidence in hundredths.
Rules(f) ==
    << [holds |-> "environment" \in Markers(f), cause |-> "environment", sure |-> 80],
       [holds |-> "infra" \in Markers(f), cause |-> "infra", sure |-> 75],
       [holds |-> /\ TraceTimedOut(f) /\ EvidenceSelector(f) # None
                  /\ ~f.trace.resolved /\ f.trace.testid # None,
        cause |-> "fragile_selector", sure |-> 85],
       [holds |-> TraceTimedOut(f) /\ f.trace.pending, cause |-> "race_condition", sure |-> 80],
       [holds |-> TraceTimedOut(f), cause |-> "timeout", sure |-> 75],
       [holds |-> f.trace = None /\ f.log # None /\ f.log.timedOut,
        cause |-> "timeout", sure |-> 60],
       [holds |-> f.trace # None /\ f.trace.expect, cause |-> "data", sure |-> 50],
       [holds |-> TRUE, cause |-> "unknown", sure |-> 30] >>

Rule(f) == LET Holds(r) == r.holds IN Rules(f)[SelectInSeq(Rules(f), Holds)]

Heuristic(f) == [cause |-> Rule(f).cause, sel |-> EvidenceSelector(f)]

\* The model's cause replaces the rule's; its strategy is the cause's anyway.
Sanitized(answer, f) ==
    IF answer.cause \notin Causes THEN Heuristic(f)
    ELSE [cause |-> answer.cause,
          sel |-> IF answer.sel # None THEN answer.sel ELSE EvidenceSelector(f)]

\* The diagnoses a failure may get: the model is asked below 0.7, and an
\* error of the model leaves the rule's.
Diagnoses(f) ==
    {Heuristic(f)} \cup (IF Rule(f).sure < 70 THEN {Sanitized(a, f) : a \in Answers} ELSE {})

-----------------------------------------------------------------------------
(* Planning.                                                                 *)

\* The first line that satisfies a condition, 0 for none.
FirstLine(src, Is(_)) == SelectInSeq(src, Is)

Op(kind, anchor, new) == [op |-> kind, anchor |-> anchor, new |-> new]

Least(a, b) == IF a < b THEN a ELSE b

\* The failing selector: of the trace, else of the diagnosis.
Selector(diagnosis, trace) ==
    IF trace # None /\ trace.sel # None THEN trace.sel ELSE diagnosis.sel

\* Three times the budget, at most a minute; nothing when that is no more.
Bumped(n) == Least(3 * n, 60000)
BumpOps(kind, line, n) == IF Bumped(n) > n THEN <<Op(kind, line, Bumped(n))>> ELSE <<>>

PlanBump(src, diagnosis, trace) ==
    LET sel == Selector(diagnosis, trace)
        Named(line) == sel \in line.sels /\ line.timeout > 0
        Timed(line) == line.timeout > 0 /\ trace # None /\ line.timeout = trace.timeout
        Budget(line) == line.budget > 0
        i == IF sel # None THEN FirstLine(src, Named) ELSE 0
        j == FirstLine(src, Timed)
        k == FirstLine(src, Budget)
    IN  CASE i > 0 -> BumpOps("timeout", src[i], src[i].timeout)
          [] i = 0 /\ j > 0 -> BumpOps("timeout", src[j], src[j].timeout)
          [] i = 0 /\ j = 0 /\ k > 0 -> BumpOps("budget", src[k], src[k].budget)
          [] OTHER -> <<>>

\* The start of the statement around line i, 0 when there is no safe one.
StatementStart(src, i) ==
    IF src[i].starts THEN i
    ELSE LET ends == {j \in 1..(i - 1) : src[j].ends}
             start == IF ends = {} THEN 1 ELSE (CHOOSE j \in ends : \A k \in ends : k <= j) + 1
         IN  IF src[start].starts THEN start ELSE 0

WaitLine(sel) ==
    [ tag |-> "wait", sels |-> {sel}, locator |-> {sel}, expect |-> FALSE, timeout |-> 0,
      budget |-> 0, starts |-> TRUE, ends |-> TRUE, waits |-> sel ]

PlanAwait(src, diagnosis, trace) ==
    LET sel == Selector(diagnosis, trace)
        Checks(line) == sel \in line.sels /\ line.expect
        Names(line) == sel \in line.sels
        i == IF FirstLine(src, Checks) > 0 THEN FirstLine(src, Checks)
             ELSE FirstLine(src, Names)
        at == StatementStart(src, i)
    IN  IF sel = None \/ i = 0 THEN <<>>
        ELSE IF src[i].expect /\ src[i].timeout > 0
        THEN IF src[i].timeout < 5000 THEN <<Op("timeout", src[i], 5000)>> ELSE <<>>
        ELSE IF at = 0 \/ \E j \in (at - 1)..i : j > 0 /\ src[j].waits # None THEN <<>>
        ELSE <<Op("wait", src[at], WaitLine(sel))>>

\* Every line that locates the selector, where the trace proves a test id.
PlanTestId(src, diagnosis, trace) ==
    IF trace = None \/ trace.testid = None \/ trace.sel = None \/ ~trace.safe THEN <<>>
    ELSE LET Fragile(line) == trace.sel \in line.locator
             lines == SelectSeq(src, Fragile)
         IN  [i \in DOMAIN lines |-> Op("testid", lines[i], trace.sel)]

Strategies == {"bump_timeout", "await_state", "testid_selector"}

CauseOf == [ bump_timeout |-> "timeout", await_state |-> "race_condition",
             testid_selector |-> "fragile_selector" ]

Plan(strategy, src, diagnosis, trace) ==
    CASE strategy = "bump_timeout" -> PlanBump(src, diagnosis, trace)
      [] strategy = "await_state" -> PlanAwait(src, diagnosis, trace)
      [] strategy = "testid_selector" -> PlanTestId(src, diagnosis, trace)
      [] OTHER -> <<>>

AppliesTo(strategy, diagnosis, trace) ==
    /\ CauseOf[strategy] = diagnosis.cause
    /\ strategy = "testid_selector" => trace # None /\ trace.testid # None

\* The strategy that patches, None when none does: a recommended strategy is
\* always the one of the cause, so at most one applies.
Planner(override, src, diagnosis, trace) ==
    LET fit == {s \in Strategies :
                    /\ IF override # None THEN s = override ELSE AppliesTo(s, diagnosis, trace)
                    /\ Plan(s, src, diagnosis, trace) # <<>>}
    IN  IF fit = {} THEN None ELSE CHOOSE s \in fit : TRUE

-----------------------------------------------------------------------------
(* Patching.                                                                 *)

Edited(line, op) ==
    CASE op.op = "timeout" -> [line EXCEPT !.timeout = op.new]
      [] op.op = "budget" -> [line EXCEPT !.budget = op.new]
      [] op.op = "testid" -> [line EXCEPT !.locator = @ \ {op.new}]

\* An operation finds its place by the text of its anchor line, the first one
\* like it; the source is None once an anchor is missing.
ApplyOp(src, op) ==
    IF src = None \/ (\A i \in DOMAIN src : src[i] # op.anchor) THEN None
    ELSE LET IsAnchor(line) == line = op.anchor
             i == FirstLine(src, IsAnchor)
         IN  IF op.op = "wait" THEN InsertAt(src, i, op.new)
             ELSE ReplaceAt(src, i, Edited(src[i], op))

Apply(src, ops) == FoldLeft(ApplyOp, src, ops)
=============================================================================
