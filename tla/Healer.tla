-------------------------------- MODULE Healer ------------------------------
(* heal_flaky_test: a heal reads the test, takes the patch from a recipe     *)
(* that matches the failure or from a diagnosis, runs the test unpatched,    *)
(* burns the patched copy in, and keeps the recipe that went green.  Heals   *)
(* run beside one another on one state.db, every operation of which is a     *)
(* transaction; the user edits the test meanwhile.  A run in the sandbox     *)
(* passes, fails, or is no run of the test at all: where the sandbox sees    *)
(* that, the heal is aborted.                                                *)
(* A definition named ...Slip is the next one with a plausible mistake.      *)
EXTENDS FixStrategies, FiniteSets

CONSTANTS
    Heals,
    Sources,         \* the texts the test may have
    Failures,        \* what is known of the failure, [trace, log]
    Overrides,       \* strategies the caller may ask for, None for none
    Backends,        \* the sandboxes that may be found
    Modes,           \* "suggest", "pr"
    Confined,        \* the subprocess sandbox wraps the runner in unshare
    OwnCopies,       \* every run has a copy of its own
    ReproduceRuns, BurninRuns,
    AllowSubprocessPr,
    MaxHeals, MaxEdits, MaxFaults

ASSUME HealerAssumption ==
    /\ IsFiniteSet(Heals)
    /\ ReproduceRuns \in Nat \ {0} /\ BurninRuns \in Nat \ {0}
    /\ \A text \in Sources : \A i \in 1..Len(text) : text[i].timeout \in Nat

VARIABLES
    source,    \* the test in the user's repository
    recipes,   \* the recipes table, a function on signatures
    mirror,    \* learned-patterns.md: the bodies in it
    heal,      \* the heals
    proven,    \* ghost: the bodies burnt in green, with their signature
    charges,   \* ghost: recipe uses that failed in a run of the test, or were stale
    started, edits, faults

vars == <<source, recipes, mirror, heal, proven, charges, started, edits, faults>>

NoTrial == [strategy |-> None, ops |-> <<>>, diagnosis |-> None]

Idle == [ pc |-> "idle", failure |-> None, override |-> None, backend |-> None, mode |-> None,
          read |-> None, edits |-> 0,
          recipe |-> None,      \* the row that matched, with its signature
          used |-> FALSE, fallback |-> FALSE,
          trial |-> NoTrial,    \* the procedure under trial
          diff |-> None,        \* what the diff makes of the source
          copy |-> None,        \* the sandbox's copy
          burnt |-> {},         \* the texts that were run
          left |-> 0, red |-> FALSE,
          report |-> [trial |-> NoTrial, diff |-> None, stable |-> FALSE, error |-> FALSE],
          pending |-> {} ]      \* the recipes read for the mirror

Init ==
    /\ source \in Sources
    /\ recipes = [s \in {} |-> None]
    /\ mirror = {}
    /\ heal = [h \in Heals |-> Idle]
    /\ proven = {} /\ charges = [s \in {} |-> 0]
    /\ started = 0 /\ edits = 0 /\ faults = 0

-----------------------------------------------------------------------------
(* The recipe store.                                                         *)

Body(strategy, ops) == [strategy |-> strategy, ops |-> ops]

\* The trace of a passing run tells nothing: it matches and stores nothing.
Parts(f) == IF f.trace = None \/ f.trace.sig = None THEN None ELSE f.trace

Rank(r, s) ==
    \/ recipes[r].good > recipes[s].good
    \/ /\ recipes[r].good = recipes[s].good
       /\ \/ recipes[r].bad < recipes[s].bad
          \/ recipes[r].bad = recipes[s].bad /\ recipes[r].born <= recipes[s].born

\* The recipe of the signature, else the best with the relaxed key.
Match(f, override) ==
    LET near == {s \in DOMAIN recipes : recipes[s].relaxed = Parts(f).relaxed}
    IN  IF Parts(f) = None \/ override # None THEN None
        ELSE IF Parts(f).sig \in DOMAIN recipes THEN Parts(f).sig
        ELSE IF near = {} THEN None
        ELSE CHOOSE s \in near : \A t \in near : Rank(s, t)

Extended(f, k, v) == [x \in DOMAIN f \cup {k} |-> IF x = k THEN v ELSE f[x]]

\* A body that replaces another starts without the other's counters.
Upsert(parts, trial) ==
    LET body == Body(trial.strategy, trial.ops)
        old == parts.sig \in DOMAIN recipes
        kept == old /\ recipes[parts.sig].body = body
    IN  recipes' = Extended(recipes, parts.sig,
            [ body |-> body, diagnosis |-> trial.diagnosis, relaxed |-> parts.relaxed,
              born |-> IF old THEN recipes[parts.sig].born ELSE Cardinality(DOMAIN recipes) + 1,
              good |-> IF kept THEN recipes[parts.sig].good ELSE 0,
              bad |-> IF kept THEN recipes[parts.sig].bad ELSE 0 ])

BumpRecipe(sig, success) ==
    recipes' = IF success THEN [recipes EXCEPT ![sig].good = @ + 1]
               ELSE [recipes EXCEPT ![sig].bad = @ + 1]

Charge(sig) == charges' = Extended(charges, sig, 1 + IF sig \in DOMAIN charges THEN charges[sig] ELSE 0)

-----------------------------------------------------------------------------
(* One heal.                                                                 *)

Step(h, next) == heal' = [heal EXCEPT ![h] = next]

Aborted(h) == [heal[h] EXCEPT !.pc = "record", !.report.error = TRUE]

\* The caller's arguments are checked, the sandbox is there, the test is read.
Start(h, f, override, backend, mode) ==
    /\ heal[h].pc = "idle" /\ started < MaxHeals
    /\ started' = started + 1
    /\ Step(h, [Idle EXCEPT !.pc = "match", !.failure = f, !.override = override,
                            !.backend = backend, !.mode = mode, !.read = source,
                            !.edits = edits])
    /\ UNCHANGED <<source, recipes, mirror, proven, charges, edits, faults>>

\* A recipe plans for the source as it is now, by its own diagnosis.
Retrieve(h) ==
    LET me == heal[h]
        sig == Match(me.failure, me.override)
        row == recipes[sig]
        ops == Plan(row.body.strategy, me.read, row.diagnosis, me.failure.trace)
        trial == [strategy |-> row.body.strategy, ops |-> ops, diagnosis |-> row.diagnosis]
    IN  /\ me.pc = "match"
        /\ Step(h, IF sig = None THEN [me EXCEPT !.pc = "diagnose"]
                   ELSE IF ops = <<>> THEN [me EXCEPT !.pc = "stale", !.recipe = sig]
                   ELSE [me EXCEPT !.pc = "reproduce", !.recipe = sig, !.used = TRUE,
                                   !.trial = trial, !.report.trial = trial,
                                   !.left = ReproduceRuns])
        /\ UNCHANGED <<source, recipes, mirror, proven, charges, started, edits, faults>>

\* The recipe cannot be instantiated: it is charged, and the failure diagnosed.
Stale(h) ==
    /\ heal[h].pc = "stale"
    /\ BumpRecipe(heal[h].recipe, FALSE)
    /\ Charge(heal[h].recipe)
    /\ Step(h, [heal[h] EXCEPT !.pc = "diagnose", !.recipe = None, !.fallback = TRUE])
    /\ UNCHANGED <<source, mirror, proven, started, edits, faults>>

Diagnose(h) ==
    LET me == heal[h]
    IN  /\ me.pc = "diagnose"
        /\ \E d \in Diagnoses(me.failure) :
             LET s == Planner(me.override, me.read, d, me.failure.trace)
                 trial == [ strategy |-> s, diagnosis |-> d,
                            ops |-> Plan(s, me.read, d, me.failure.trace) ]
             IN  Step(h, IF s = None THEN Aborted(h)
                         ELSE [me EXCEPT !.pc = "reproduce", !.trial = trial,
                                         !.report.trial = trial, !.left = ReproduceRuns])
        /\ UNCHANGED <<source, recipes, mirror, proven, charges, started, edits, faults>>

\* A run of the test; before the patch its result is only noted.  What
\* never ran it is seen from the exit code of docker and from a runner that
\* cannot be launched; inside unshare the missing runner is one more exit code.
Outcomes == {"passed", "failed", "norun"}

\* Every exit code is a result of the test.
SeenSlip(h, outcome) == FALSE

Seen(h, outcome) == outcome = "norun" /\ ~(heal[h].backend = "subprocess" /\ Confined)

ReproduceRun(h) ==
    LET me == heal[h]
    IN  /\ me.pc = "reproduce"
        /\ \E outcome \in Outcomes :
             Step(h, IF Seen(h, outcome) THEN Aborted(h)
                     ELSE [me EXCEPT !.left = @ - 1,
                                     !.pc = IF me.left = 1 THEN "diff" ELSE @])
        /\ UNCHANGED <<source, recipes, mirror, proven, charges, started, edits, faults>>

\* The diff is taken from the repository as it is now, and nothing written.
Diff(h) ==
    LET me == heal[h]
        after == Apply(source, me.trial.ops)
    IN  /\ me.pc = "diff"
        /\ Step(h, IF after = None THEN Aborted(h)
                   ELSE [me EXCEPT !.pc = "burnin", !.diff = after, !.copy = None,
                                   !.burnt = {}, !.red = FALSE, !.left = BurninRuns])
        /\ UNCHANGED <<source, recipes, mirror, proven, charges, started, edits, faults>>

\* The procedure is stored however the burn-in went.
BurntInSlip(me) ==
    LET retried == me.fallback /\ me.used
        reported == [me EXCEPT !.report.diff = me.diff, !.report.stable = ~me.red,
                               !.report.trial = me.trial, !.used = @ /\ ~retried]
    IN  IF me.used /\ ~retried THEN [reported EXCEPT !.pc = "bump"]
        ELSE IF Parts(me.failure) # None THEN [reported EXCEPT !.pc = "persist"]
        ELSE [reported EXCEPT !.pc = "record"]

\* The second burn-in reports only its result.
BurntInHalfSlip(me) ==
    LET retried == me.fallback /\ me.used
        reported == [me EXCEPT !.report.stable = ~me.red, !.used = @ /\ ~retried,
                               !.report.diff = IF retried THEN @ ELSE me.diff]
    IN  IF me.used /\ ~retried THEN [reported EXCEPT !.pc = "bump"]
        ELSE IF ~me.red /\ Parts(me.failure) # None THEN [reported EXCEPT !.pc = "persist"]
        ELSE [reported EXCEPT !.pc = "record"]

\* What a burn-in leaves in the report, and where the heal goes on.
BurntIn(me) ==
    LET retried == me.fallback /\ me.used
        reported == [me EXCEPT !.report.diff = me.diff, !.report.stable = ~me.red,
                               !.report.trial = me.trial, !.used = @ /\ ~retried]
    IN  IF me.used /\ ~retried THEN [reported EXCEPT !.pc = "bump"]
        ELSE IF ~me.red /\ Parts(me.failure) # None THEN [reported EXCEPT !.pc = "persist"]
        ELSE [reported EXCEPT !.pc = "record"]

BurninRun(h) ==
    LET me == heal[h]
        text == IF me.copy = None \/ OwnCopies THEN Apply(source, me.trial.ops) ELSE me.copy
    IN  /\ me.pc = "burnin"
        /\ \E outcome \in Outcomes :
             LET ran == [me EXCEPT !.copy = text, !.burnt = @ \cup {text}, !.left = @ - 1,
                                   !.red = @ \/ outcome # "passed"]
             IN  /\ Step(h, IF text = None \/ Seen(h, outcome) THEN Aborted(h)
                            ELSE IF me.left = 1 THEN BurntIn(ran) ELSE ran)
                 /\ proven' = IF text # None /\ me.left = 1 /\ ~ran.red /\ Parts(me.failure) # None
                              THEN proven \cup {<<Parts(me.failure).sig, Body(me.trial.strategy, me.trial.ops)>>}
                              ELSE proven
                 /\ charges' = IF outcome = "failed" /\ ~me.red /\ me.used /\ ~me.fallback
                               THEN Extended(charges, me.recipe, 1 +
                                      IF me.recipe \in DOMAIN charges THEN charges[me.recipe] ELSE 0)
                               ELSE charges
        /\ UNCHANGED <<source, recipes, mirror, started, edits, faults>>

Bump(h) ==
    /\ heal[h].pc = "bump"
    /\ BumpRecipe(heal[h].recipe, heal[h].report.stable)
    /\ Step(h, [heal[h] EXCEPT !.pc = IF heal[h].report.stable THEN "record" ELSE "fallback"])
    /\ UNCHANGED <<source, mirror, proven, charges, started, edits, faults>>

\* Once, a failed recipe gives way to a diagnosis; the report keeps what it
\* says of the recipe until another patch was burnt in, but for the strategy.
Fallback(h) ==
    LET me == heal[h]
    IN  /\ me.pc = "fallback"
        /\ \E d \in Diagnoses(me.failure) :
             LET s == Planner(None, me.read, d, me.failure.trace)
                 ops == Plan(s, me.read, d, me.failure.trace)
                 tried == [me EXCEPT !.fallback = TRUE,
                             !.report.trial.strategy = IF s = None THEN @ ELSE s]
             IN  Step(h, IF s = None \/ ops = me.report.trial.ops
                         THEN [tried EXCEPT !.pc = "record"]
                         ELSE [tried EXCEPT !.pc = "diff",
                                 !.trial = [strategy |-> s, ops |-> ops, diagnosis |-> d]])
        /\ UNCHANGED <<source, recipes, mirror, proven, charges, started, edits, faults>>

Persist(h) ==
    /\ heal[h].pc = "persist"
    /\ Upsert(Parts(heal[h].failure), heal[h].report.trial)
    /\ Step(h, [heal[h] EXCEPT !.pc = "export"])
    /\ UNCHANGED <<source, mirror, proven, charges, started, edits, faults>>

Bodies == {<<s, recipes[s].body>> : s \in DOMAIN recipes}

ReadForMirror(h) ==
    /\ heal[h].pc = "export"
    /\ Step(h, [heal[h] EXCEPT !.pc = "mirror", !.pending = Bodies])
    /\ UNCHANGED <<source, recipes, mirror, proven, charges, started, edits, faults>>

WriteMirror(h) ==
    /\ heal[h].pc = "mirror"
    /\ mirror' = heal[h].pending
    /\ Step(h, [heal[h] EXCEPT !.pc = "record", !.pending = {}])
    /\ UNCHANGED <<source, recipes, proven, charges, started, edits, faults>>

\* A pull request only from a green burn-in with a diff, and not from the
\* weaker sandbox unless that is allowed.
OpensPr(me) ==
    /\ me.mode = "pr" /\ ~me.report.error /\ me.report.stable
    /\ me.report.diff # me.read
    /\ me.backend = "subprocess" => AllowSubprocessPr

\* The row in healer_runs may be refused: the answer is given all the same.
Record(h) ==
    /\ heal[h].pc = "record"
    /\ Step(h, [heal[h] EXCEPT !.pc = IF OpensPr(heal[h]) THEN "pr" ELSE "done"])
    /\ UNCHANGED <<source, recipes, mirror, proven, charges, started, edits, faults>>

\* A pull request that is refused is tried again.
AnswerSlip(h) ==
    /\ heal[h].pc \in {"pr", "done", "lost"}
    /\ \E refused \in BOOLEAN :
         Step(h, IF heal[h].pc = "pr" /\ refused THEN [heal[h] EXCEPT !.pc = "record"] ELSE Idle)
    /\ UNCHANGED <<source, recipes, mirror, proven, charges, started, edits, faults>>

Answer(h) ==
    /\ heal[h].pc \in {"pr", "done", "lost"}
    /\ Step(h, Idle)
    /\ UNCHANGED <<source, recipes, mirror, proven, charges, started, edits, faults>>

-----------------------------------------------------------------------------
(* What goes wrong.                                                          *)

\* state.db or the mirror refuses a write (locked, full): the heal is answered
\* with an error and no report.
WriteFails(h) ==
    /\ heal[h].pc \in {"stale", "bump", "persist", "export", "mirror"}
    /\ faults < MaxFaults
    /\ faults' = faults + 1
    /\ Step(h, [heal[h] EXCEPT !.pc = "lost"])
    /\ UNCHANGED <<source, recipes, mirror, proven, charges, started, edits>>

Crash(h) ==
    /\ heal[h].pc # "idle" /\ faults < MaxFaults
    /\ faults' = faults + 1
    /\ Step(h, Idle)
    /\ UNCHANGED <<source, recipes, mirror, proven, charges, started, edits>>

Edit ==
    /\ edits < MaxEdits
    /\ \E text \in Sources \ {source} : source' = text
    /\ edits' = edits + 1
    /\ UNCHANGED <<recipes, mirror, heal, proven, charges, started, faults>>

-----------------------------------------------------------------------------
Run(h) == ReproduceRun(h) \/ Diff(h) \/ BurninRun(h)
Store(h) == Stale(h) \/ Bump(h) \/ Persist(h) \/ ReadForMirror(h) \/ WriteMirror(h)
Go(h) == Retrieve(h) \/ Diagnose(h) \/ Fallback(h) \/ Run(h) \/ Store(h) \/ Record(h) \/ Answer(h)

Next ==
    \/ \E h \in Heals :
         \/ \E f \in Failures, o \in Overrides, b \in Backends, m \in Modes :
              Start(h, f, o, b, m)
         \/ Go(h) \/ WriteFails(h) \/ Crash(h)
    \/ Edit

\* A run ends: the sandbox kills what outlives its time.
Fairness == \A h \in Heals : WF_vars(Go(h))

Spec == Init /\ [][Next]_vars /\ Fairness

-----------------------------------------------------------------------------
HealType(me) ==
    /\ DOMAIN me = DOMAIN Idle /\ DOMAIN me.report = DOMAIN Idle.report
    /\ DOMAIN me.trial = DOMAIN NoTrial /\ DOMAIN me.report.trial = DOMAIN NoTrial
    /\ me.pc \in { "idle", "match", "stale", "diagnose", "reproduce", "diff", "burnin", "bump",
                   "fallback", "persist", "export", "mirror", "record", "pr", "done", "lost" }
    /\ me.left \in 0..(ReproduceRuns + BurninRuns)
    /\ me.pc = "reproduce" => me.left \in 1..ReproduceRuns
    /\ me.pc = "burnin" => me.left \in 1..BurninRuns
    /\ me.used \in BOOLEAN /\ me.fallback \in BOOLEAN /\ me.red \in BOOLEAN
    /\ me.report.stable \in BOOLEAN /\ me.report.error \in BOOLEAN

TypeOK ==
    /\ source \in Sources /\ started \in Nat /\ edits \in Nat /\ faults \in Nat
    /\ \A s \in DOMAIN recipes :
          /\ DOMAIN recipes[s] = {"body", "diagnosis", "relaxed", "born", "good", "bad"}
          /\ recipes[s].good \in Nat /\ recipes[s].bad \in Nat
    /\ \A s \in DOMAIN charges : charges[s] \in Nat
    /\ DOMAIN heal = Heals /\ \A h \in Heals : HealType(heal[h])

\* Whatever heals run beside it, fall back, or die: a stored recipe is a patch
\* that was burnt in green in full for its very signature (healer.py: "Store
\* the procedure that just went green").
RecipesProven ==
    \A s \in DOMAIN recipes : <<s, recipes[s].body>> \in proven

\* A recipe is charged with a failure only for a run of the test that failed,
\* or for a source it does not fit; never for a runner or a sandbox that was
\* not there (docker.py, subproc.py: that "would fabricate `reproduced'
\* verdicts and unfairly charge recipes").
FairlyCharged ==
    \A s \in DOMAIN recipes :
        recipes[s].bad <= IF s \in DOMAIN charges THEN charges[s] ELSE 0

\* A report of a heal that ended well is of one piece, also after a fallback:
\* the strategy it names planned its patch for the source that was read; and
\* when it is stable and nobody edited the test meanwhile, the diff it shows
\* is what all the green runs ran.
OfOnePiece ==
    \A h \in Heals :
        LET me == heal[h]  report == me.report
        IN  me.pc \in {"pr", "done"} /\ ~report.error =>
              /\ report.trial.ops =
                   Plan(report.trial.strategy, me.read, report.trial.diagnosis, me.failure.trace)
              /\ report.stable /\ edits = me.edits => me.burnt = {report.diff}
              /\ me.pc = "pr" => report.stable

\* Every heal comes to its answer; a fallback is not followed by another.
Answered == \A h \in Heals : heal[h].pc # "idle" ~> heal[h].pc = "idle"

\* handlers.py: "persistence must not kill the heal result".
GreenIsReported ==
    \A h \in Heals : heal[h].pc = "lost" => ~heal[h].report.stable

\* store.py: the counters "describe how the STORED body performed".
CountersOfBody ==
    \A h \in Heals : heal[h].pc = "bump" => recipes[heal[h].recipe].body =
        Body(heal[h].report.trial.strategy, heal[h].report.trial.ops)

\* learned-patterns.md is "a read-only mirror" of the recipes.
MirrorCurrent ==
    (\A h \in Heals : heal[h].pc \notin {"export", "mirror", "lost"}) => mirror = Bodies

\* await_state: "wait for the failing target to become visible before acting":
\* the wait goes before the statement of the target.
WaitAtTarget ==
    \A h \in Heals :
        LET me == heal[h]
            waits == {i \in DOMAIN me.diff : me.diff[i].tag = "wait"}
            Names(line) == me.failure.trace.sel \in line.sels /\ line.tag # "wait"
        IN  me.pc = "burnin" /\ me.trial.strategy = "await_state" =>
              \A i \in waits :
                 \E j \in DOMAIN me.diff :
                    /\ j = FirstLine(me.diff, Names)
                    /\ i = StatementStart(me.diff, j) - 1

-----------------------------------------------------------------------------
(* The inductive invariant behind the three safety properties.               *)

\* A procedure is what its strategy plans for the source the heal has read.
Planned(trial, me) ==
    /\ trial.ops # <<>>
    /\ trial.ops = Plan(trial.strategy, me.read, trial.diagnosis, me.failure.trace)

Trying == {"reproduce", "diff", "burnin", "bump", "fallback", "persist", "export", "mirror"}
Reporting == {"bump", "fallback", "persist", "export", "mirror", "record", "pr", "done"}

\* A heal over a source, after some edits of it, with what was burnt in green.
Sound(me, text, now, green) ==
    LET unedited == me.edits = now
        told == me.pc \in Reporting /\ ~me.report.error
    IN  /\ me.pc # "idle" => me.read \in Sources /\ me.edits \in Nat /\ me.edits <= now
        /\ me.pc # "idle" /\ unedited => me.read = text
        /\ me.pc \in Trying => Planned(me.trial, me)
        /\ told => Planned(me.report.trial, me)
        /\ me.pc = "burnin" /\ unedited =>
              /\ me.diff = Apply(text, me.trial.ops)
              /\ me.burnt \subseteq {me.diff} /\ me.copy \in {None, me.diff}
        /\ told /\ me.report.stable /\ unedited => me.burnt = {me.report.diff}
        /\ me.pc = "fallback" => ~me.report.stable
        /\ me.pc = "persist" =>
              /\ Parts(me.failure) # None
              /\ <<Parts(me.failure).sig,
                   Body(me.report.trial.strategy, me.report.trial.ops)>> \in green
        /\ me.pc = "pr" => me.report.stable

HealInv == \A h \in Heals : Sound(heal[h], source, edits, proven)

\* The failed runs of a recipe that are not yet on its row: each was charged.
Owing(s) ==
    {h \in Heals : /\ heal[h].pc \in {"burnin", "bump"} /\ heal[h].red
                   /\ heal[h].used /\ ~heal[h].fallback /\ heal[h].recipe = s}

Bad(s) == IF s \in DOMAIN recipes THEN recipes[s].bad ELSE 0
Charged(s) == IF s \in DOMAIN charges THEN charges[s] ELSE 0

ChargeInv ==
    /\ \A s \in DOMAIN recipes \cup DOMAIN charges \cup {heal[h].recipe : h \in Heals} :
          Bad(s) + Cardinality(Owing(s)) <= Charged(s)
    /\ \A h \in Heals : heal[h].pc = "bump" =>
          heal[h].used /\ ~heal[h].fallback /\ heal[h].report.stable = ~heal[h].red
    /\ \A h \in Heals : heal[h].pc # "idle" => heal[h].backend \in Backends

\* The sandboxes tell a run of the test from what never ran it.
OutcomesSeen == Confined => "subprocess" \notin Backends
=============================================================================
