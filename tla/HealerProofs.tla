----------------------------- MODULE HealerProofs ---------------------------
(* A stored recipe was burnt in green, a recipe is charged for its own        *)
(* failures only, and a report is of one piece: for any number of heals beside *)
(* one another, any tests and failures, edits, refused writes and crashes.    *)
EXTENDS Healer, FiniteSetTheorems, WellFoundedInduction, TLAPS

\* There is a run before the patch and one after it.
LEMMA Runs == ReproduceRuns \in Nat \ {0} /\ BurninRuns \in Nat \ {0}
  BY HealerAssumption

\* The fields of a heal, of its report and of a procedure.
LEMMA Fields ==
    /\ DOMAIN Idle = { "pc", "failure", "override", "backend", "mode", "read", "edits", "recipe",
                       "used", "fallback", "trial", "diff", "copy", "burnt", "left", "red",
                       "report", "pending" }
    /\ DOMAIN Idle.report = {"trial", "diff", "stable", "error"}
    /\ DOMAIN NoTrial = {"strategy", "ops", "diagnosis"}
  BY DEF Idle, NoTrial

\* A heal that has not begun is well typed.
LEMMA IdleTyped == HealType(Idle)
<1>1. /\ Idle.pc = "idle" /\ Idle.left = 0 /\ Idle.trial = NoTrial
      /\ Idle.report.trial = NoTrial
  BY DEF Idle
<1>2. /\ Idle.used \in BOOLEAN /\ Idle.fallback \in BOOLEAN /\ Idle.red \in BOOLEAN
      /\ Idle.report.stable \in BOOLEAN /\ Idle.report.error \in BOOLEAN
  BY DEF Idle
<1> QED
  BY <1>1, <1>2, Runs DEF HealType

\* What a step of one heal leaves alone.
LEMMA StepKeeps ==
    ASSUME TypeOK, NEW h \in Heals, NEW next, Step(h, next)
    PROVE  /\ DOMAIN heal' = Heals /\ heal'[h] = next
           /\ \A g \in Heals : g # h => heal'[g] = heal[g]
  BY DEF TypeOK, Step

\* A heal that gives up is well typed.
LEMMA AbortedTyped == ASSUME TypeOK, NEW h \in Heals PROVE HealType(Aborted(h))
<1>1. HealType(heal[h])
  BY DEF TypeOK
<1>2. DOMAIN heal[h].report = {"trial", "diff", "stable", "error"} /\ DOMAIN heal[h] = DOMAIN Idle
  BY <1>1, Fields DEF HealType
<1> QED
  BY <1>1, <1>2, Fields DEF HealType, Aborted

\* A heal that is taken forward stays well typed.
LEMMA HealStep ==
    ASSUME TypeOK, NEW h \in Heals,
           \/ \E f \in Failures, o \in Overrides, b \in Backends, m \in Modes : Start(h, f, o, b, m)
           \/ Go(h) \/ WriteFails(h) \/ Crash(h)
    PROVE  HealType(heal'[h])
<1> DEFINE me == heal[h]
<1>t. HealType(me)
  BY DEF TypeOK
<1>f. /\ DOMAIN me = DOMAIN Idle /\ DOMAIN me.report = {"trial", "diff", "stable", "error"}
      /\ DOMAIN me.report.trial = {"strategy", "ops", "diagnosis"}
  BY <1>t, Fields DEF HealType
<1>k. \A next : Step(h, next) => heal'[h] = next
  BY StepKeeps
<1>1. ASSUME NEW f \in Failures, NEW o \in Overrides, NEW b \in Backends, NEW m \in Modes,
             Start(h, f, o, b, m)
      PROVE  HealType(heal'[h])
  <2>1. heal'[h] = [Idle EXCEPT !.pc = "match", !.failure = f, !.override = o, !.backend = b,
                                !.mode = m, !.read = source, !.edits = edits]
    BY <1>1, <1>k DEF Start
  <2> QED
    BY <2>1, IdleTyped, Fields DEF HealType
<1>2. CASE Retrieve(h)
  <2> DEFINE sig == Match(me.failure, me.override)
             row == recipes[sig]
             ops == Plan(row.body.strategy, me.read, row.diagnosis, me.failure.trace)
             trial == [strategy |-> row.body.strategy, ops |-> ops, diagnosis |-> row.diagnosis]
  <2>4. heal'[h] = IF sig = None THEN [me EXCEPT !.pc = "diagnose"]
                   ELSE IF ops = <<>> THEN [me EXCEPT !.pc = "stale", !.recipe = sig]
                   ELSE [me EXCEPT !.pc = "reproduce", !.recipe = sig, !.used = TRUE,
                                   !.trial = trial, !.report.trial = trial,
                                   !.left = ReproduceRuns]
    BY <1>2, <1>k DEF Retrieve
  <2>5. DOMAIN trial = {"strategy", "ops", "diagnosis"}
    OBVIOUS
  <2> HIDE DEF sig, trial, ops
  <2>6. HealType([me EXCEPT !.pc = "diagnose"])
    BY <1>t, <1>f, Fields DEF HealType
  <2>7. HealType([me EXCEPT !.pc = "stale", !.recipe = sig])
    BY <1>t, <1>f, Fields DEF HealType
  <2>8. HealType([me EXCEPT !.pc = "reproduce", !.recipe = sig, !.used = TRUE,
                            !.trial = trial, !.report.trial = trial, !.left = ReproduceRuns])
    BY <1>t, <1>f, <2>5, Fields, Runs DEF HealType
  <2> QED
    BY <2>4, <2>6, <2>7, <2>8
<1>3. CASE Stale(h)
  <2>1. heal'[h] = [me EXCEPT !.pc = "diagnose", !.recipe = None, !.fallback = TRUE]
    BY <1>3, <1>k DEF Stale
  <2> QED
    BY <2>1, <1>t, <1>f, Fields DEF HealType
<1>4. CASE Diagnose(h)
  <2>2. PICK d \in Diagnoses(me.failure) :
           LET s == Planner(me.override, me.read, d, me.failure.trace)
               trial == [ strategy |-> s, diagnosis |-> d,
                          ops |-> Plan(s, me.read, d, me.failure.trace) ]
           IN  Step(h, IF s = None THEN Aborted(h)
                       ELSE [me EXCEPT !.pc = "reproduce", !.trial = trial,
                                       !.report.trial = trial, !.left = ReproduceRuns])
    BY <1>4 DEF Diagnose
  <2> DEFINE s == Planner(me.override, me.read, d, me.failure.trace)
             trial == [ strategy |-> s, diagnosis |-> d,
                        ops |-> Plan(s, me.read, d, me.failure.trace) ]
  <2>3. heal'[h] = IF s = None THEN Aborted(h)
                   ELSE [me EXCEPT !.pc = "reproduce", !.trial = trial,
                                   !.report.trial = trial, !.left = ReproduceRuns]
    BY <2>2, <1>k
  <2>4. DOMAIN trial = {"strategy", "ops", "diagnosis"}
    OBVIOUS
  <2> HIDE DEF s, trial
  <2>5. HealType([me EXCEPT !.pc = "reproduce", !.trial = trial,
                            !.report.trial = trial, !.left = ReproduceRuns])
    BY <1>t, <1>f, <2>4, Fields, Runs DEF HealType
  <2> QED
    BY <2>3, <2>5, AbortedTyped
<1>5. CASE ReproduceRun(h)
  <2>1. \/ heal'[h] = Aborted(h)
        \/ heal'[h] = [me EXCEPT !.left = @ - 1, !.pc = IF me.left = 1 THEN "diff" ELSE @]
    BY <1>5, <1>k DEF ReproduceRun
  <2>2. me.left \in 1..ReproduceRuns /\ me.pc = "reproduce"
    BY <1>5, <1>t DEF ReproduceRun, HealType
  <2>3. ASSUME NEW left \in 0..ReproduceRuns, NEW p \in {"reproduce", "diff"},
               p = "reproduce" => left # 0
        PROVE  HealType([me EXCEPT !.left = left, !.pc = p])
    BY <1>t, <1>f, <2>3, Fields, Runs DEF HealType
  <2>4. me.left - 1 \in 0..ReproduceRuns /\ (me.left # 1 => me.left - 1 # 0)
    BY <2>2, Runs
  <2>5. CASE heal'[h] = [me EXCEPT !.left = @ - 1, !.pc = IF me.left = 1 THEN "diff" ELSE @]
    <3>1. heal'[h] = [me EXCEPT !.left = me.left - 1, !.pc = IF me.left = 1 THEN "diff" ELSE "reproduce"]
      BY <2>2, <2>5, <1>f, Fields
    <3> QED
      BY <2>3, <2>4, <3>1
  <2> QED
    BY <2>1, <2>5, AbortedTyped
<1>6. CASE Diff(h)
  <2>1. \/ heal'[h] = Aborted(h)
        \/ \E after : heal'[h] = [me EXCEPT !.pc = "burnin", !.diff = after, !.copy = None,
                                   !.burnt = {}, !.red = FALSE, !.left = BurninRuns]
    BY <1>6, <1>k DEF Diff
  <2> QED
    <3>1. \A after : HealType([me EXCEPT !.pc = "burnin", !.diff = after, !.copy = None,
                                   !.burnt = {}, !.red = FALSE, !.left = BurninRuns])
      BY <1>t, <1>f, Fields, Runs DEF HealType
    <3> QED
      BY <2>1, <3>1, AbortedTyped
<1>7. CASE Bump(h)
  BY <1>7, <1>k, <1>t, <1>f, Fields DEF Bump, HealType
<1>8. CASE Persist(h) \/ ReadForMirror(h) \/ WriteMirror(h) \/ Record(h)
  <2>1. \E p \in {"export", "mirror", "record", "pr", "done"} : \E found :
           heal'[h] = [me EXCEPT !.pc = p, !.pending = found] \/ heal'[h] = [me EXCEPT !.pc = p]
    BY <1>8, <1>k DEF Persist, ReadForMirror, WriteMirror, Record
  <2>2. \A p \in {"export", "mirror", "record", "pr", "done"} : \A found :
           HealType([me EXCEPT !.pc = p, !.pending = found]) /\ HealType([me EXCEPT !.pc = p])
    BY <1>t, <1>f, Fields DEF HealType
  <2> QED
    BY <2>1, <2>2
<1>9. CASE Answer(h) \/ Crash(h)
  BY <1>9, <1>k, IdleTyped DEF Answer, Crash
<1>10. CASE WriteFails(h)
  BY <1>10, <1>k, <1>t, <1>f, Fields DEF WriteFails, HealType
<1>11. CASE Fallback(h)
  <2>3. PICK d \in Diagnoses(me.failure) :
             LET s == Planner(None, me.read, d, me.failure.trace)
                 ops == Plan(s, me.read, d, me.failure.trace)
                 tried == [me EXCEPT !.fallback = TRUE,
                             !.report.trial.strategy = IF s = None THEN @ ELSE s]
             IN  Step(h, IF s = None \/ ops = me.report.trial.ops
                         THEN [tried EXCEPT !.pc = "record"]
                         ELSE [tried EXCEPT !.pc = "diff",
                                 !.trial = [strategy |-> s, ops |-> ops, diagnosis |-> d]])
    BY <1>11 DEF Fallback
  <2> DEFINE s == Planner(None, me.read, d, me.failure.trace)
             ops == Plan(s, me.read, d, me.failure.trace)
             tried == [me EXCEPT !.fallback = TRUE,
                         !.report.trial.strategy = IF s = None THEN @ ELSE s]
  <2>4. heal'[h] = IF s = None \/ ops = me.report.trial.ops
                   THEN [tried EXCEPT !.pc = "record"]
                   ELSE [tried EXCEPT !.pc = "diff",
                           !.trial = [strategy |-> s, ops |-> ops, diagnosis |-> d]]
    BY <2>3, <1>k
  <2> HIDE DEF s, ops
  <2>5. HealType([tried EXCEPT !.pc = "record"])
    BY <1>t, <1>f, Fields DEF HealType
  <2>6. HealType([tried EXCEPT !.pc = "diff",
                           !.trial = [strategy |-> s, ops |-> ops, diagnosis |-> d]])
    BY <1>t, <1>f, Fields DEF HealType
  <2> QED
    BY <2>4, <2>5, <2>6
<1>12. CASE BurninRun(h)
  <2> DEFINE text == IF me.copy = None \/ OwnCopies THEN Apply(source, me.trial.ops) ELSE me.copy
  <2>1. PICK outcome \in Outcomes :
          LET ran == [me EXCEPT !.copy = text, !.burnt = @ \cup {text}, !.left = @ - 1,
                                !.red = @ \/ outcome # "passed"]
          IN  Step(h, IF text = None \/ Seen(h, outcome) THEN Aborted(h)
                      ELSE IF me.left = 1 THEN BurntIn(ran) ELSE ran)
    BY <1>12 DEF BurninRun
  <2> DEFINE ran == [me EXCEPT !.copy = text, !.burnt = @ \cup {text}, !.left = @ - 1,
                               !.red = @ \/ outcome # "passed"]
  <2>2. heal'[h] = IF text = None \/ Seen(h, outcome) THEN Aborted(h)
                   ELSE IF me.left = 1 THEN BurntIn(ran) ELSE ran
    BY <2>1, <1>k
  <2>3. me.pc = "burnin" /\ me.left \in 1..BurninRuns
    BY <1>12, <1>t DEF BurninRun, HealType
  <2> HIDE DEF text
  <2>4. /\ DOMAIN ran = DOMAIN Idle /\ ran.report = me.report /\ ran.trial = me.trial
        /\ ran.left = me.left - 1 /\ ran.red = (me.red \/ outcome # "passed")
        /\ ran.pc = me.pc /\ ran.used = me.used /\ ran.fallback = me.fallback
        /\ ran.failure = me.failure
    BY <1>f, Fields
  <2> HIDE DEF ran
  <2>5. ran.red \in BOOLEAN
    BY <2>4
  <2>6. me.left # 1 => HealType(ran)
    BY <2>3, <2>4, <2>5, <1>t, Runs DEF HealType
  <2>7. ASSUME me.left = 1 PROVE HealType(BurntIn(ran))
    <3> DEFINE retried == ran.fallback /\ ran.used
               reported == [ran EXCEPT !.report.diff = ran.diff, !.report.stable = ~ran.red,
                                       !.report.trial = ran.trial, !.used = @ /\ ~retried]
    <3>1. /\ DOMAIN reported = DOMAIN Idle /\ reported.left = 0 /\ reported.trial = ran.trial
          /\ reported.report = [me.report EXCEPT !.diff = ran.diff, !.stable = ~ran.red,
                                                 !.trial = ran.trial]
          /\ reported.used = (ran.used /\ ~retried) /\ reported.fallback = ran.fallback
          /\ reported.red = ran.red
      BY <2>3, <2>4, <2>7, <1>f, Fields
    <3> HIDE DEF reported
    <3>2. /\ DOMAIN reported.report = DOMAIN Idle.report /\ reported.report.trial = ran.trial
          /\ reported.report.stable = ~ran.red /\ reported.report.error = me.report.error
      BY <3>1, <1>f, Fields
    <3>4. /\ reported.used \in BOOLEAN /\ reported.fallback \in BOOLEAN
          /\ reported.red \in BOOLEAN /\ reported.report.stable \in BOOLEAN
          /\ reported.report.error \in BOOLEAN
      BY <2>4, <2>5, <3>1, <3>2, <1>t DEF HealType
    <3>3. \A p \in {"bump", "persist", "record"} : HealType([reported EXCEPT !.pc = p])
      <4> SUFFICES ASSUME NEW p \in {"bump", "persist", "record"}
                   PROVE  HealType([reported EXCEPT !.pc = p])
        OBVIOUS
      <4>1. reported.left \in 0..(ReproduceRuns + BurninRuns)
        BY <3>1, Runs
      <4>2. DOMAIN reported.trial = DOMAIN NoTrial /\ DOMAIN reported.report.trial = DOMAIN NoTrial
        BY <2>4, <3>1, <3>2, <1>t DEF HealType
      <4> DEFINE n == [reported EXCEPT !.pc = p]
      <4>3. /\ DOMAIN n = DOMAIN Idle /\ n.pc = p /\ n.report = reported.report
            /\ n.trial = reported.trial /\ n.left = reported.left /\ n.used = reported.used
            /\ n.fallback = reported.fallback /\ n.red = reported.red
        BY <3>1, Fields
      <4> HIDE DEF n
      <4>4. HealType(n)
        BY <3>2, <3>4, <4>1, <4>2, <4>3 DEF HealType
      <4> QED
        BY <4>4 DEF n
    <3> QED
      BY <3>3 DEF BurntIn, reported
  <2> QED
    BY <2>2, <2>6, <2>7, AbortedTyped
<1> QED
  BY <1>1, <1>2, <1>3, <1>4, <1>5, <1>6, <1>7, <1>8, <1>9, <1>10, <1>11, <1>12 DEF Go, Run, Store

\* A step of a heal, its end or its failure is a Step, beside which no other heal
\* and no edit moves.
LEMMA HealStepForm ==
    ASSUME NEW h \in Heals,
           \/ \E f \in Failures, o \in Overrides, b \in Backends, m \in Modes : Start(h, f, o, b, m)
           \/ Go(h) \/ WriteFails(h) \/ Crash(h)
    PROVE  /\ source' = source /\ edits' = edits /\ started' \in {started, started + 1}
           /\ faults' \in {faults, faults + 1} /\ proven \subseteq proven'
           /\ \E next : Step(h, next)
  BY DEF Go, Run, Store, Start, Retrieve, Stale, Diagnose, ReproduceRun, Diff, BurninRun, Bump,
         Fallback, Persist, ReadForMirror, WriteMirror, Record, Answer, WriteFails, Crash

\* The row of a recipe whose use was counted.
LEMMA BumpedRow ==
    ASSUME TypeOK, NEW sig, NEW success \in BOOLEAN, BumpRecipe(sig, success)
    PROVE  /\ DOMAIN recipes' = DOMAIN recipes
           /\ \A s \in DOMAIN recipes :
                 /\ DOMAIN recipes'[s] = DOMAIN recipes[s] /\ recipes'[s].body = recipes[s].body
                 /\ recipes'[s].good \in Nat
                 /\ recipes'[s].bad =
                      IF s = sig /\ ~success THEN recipes[s].bad + 1 ELSE recipes[s].bad
<1>1. \A s \in DOMAIN recipes :
         /\ DOMAIN recipes[s] = {"body", "diagnosis", "relaxed", "born", "good", "bad"}
         /\ recipes[s].good \in Nat /\ recipes[s].bad \in Nat
  BY DEF TypeOK
<1>2. CASE success
  BY <1>1, <1>2 DEF BumpRecipe
<1>3. CASE ~success
  BY <1>1, <1>3 DEF BumpRecipe
<1> QED
  BY <1>2, <1>3

\* The rows after a recipe was stored.
LEMMA StoredRow ==
    ASSUME TypeOK, NEW parts, NEW trial, Upsert(parts, trial)
    PROVE  /\ DOMAIN recipes' = DOMAIN recipes \cup {parts.sig}
           /\ \A s \in DOMAIN recipes : s # parts.sig => recipes'[s] = recipes[s]
           /\ DOMAIN recipes'[parts.sig] =
                {"body", "diagnosis", "relaxed", "born", "good", "bad"}
           /\ recipes'[parts.sig].body = Body(trial.strategy, trial.ops)
           /\ recipes'[parts.sig].good \in Nat
           /\ recipes'[parts.sig].bad \in {0, Bad(parts.sig)}
<1> DEFINE body == Body(trial.strategy, trial.ops)
           old == parts.sig \in DOMAIN recipes
           kept == old /\ recipes[parts.sig].body = body
           row == [ body |-> body, diagnosis |-> trial.diagnosis, relaxed |-> parts.relaxed,
                    born |-> IF old THEN recipes[parts.sig].born
                             ELSE Cardinality(DOMAIN recipes) + 1,
                    good |-> IF kept THEN recipes[parts.sig].good ELSE 0,
                    bad |-> IF kept THEN recipes[parts.sig].bad ELSE 0 ]
<1>1. recipes' = Extended(recipes, parts.sig, row)
  BY DEF Upsert
<1>2. /\ DOMAIN row = {"body", "diagnosis", "relaxed", "born", "good", "bad"}
      /\ row.body = body /\ row.good \in Nat /\ row.bad \in {0, Bad(parts.sig)}
  BY DEF TypeOK, Bad
<1> HIDE DEF row
<1> QED
  BY <1>1, <1>2 DEF Extended

\* The charges after one more.
LEMMA OneCharge ==
    ASSUME TypeOK, NEW sig, Charge(sig)
    PROVE  /\ \A s \in DOMAIN charges' : charges'[s] \in Nat
           /\ \A s : Charged(s)' = IF s = sig THEN Charged(s) + 1 ELSE Charged(s)
  BY DEF TypeOK, Charge, Extended, Charged

\* Before and after a step the counters and the charges are numbers.
LEMMA CountersTyped == TypeOK => \A s : Bad(s) \in Nat /\ Charged(s) \in Nat
  BY DEF TypeOK, Bad, Charged

\* Which steps touch the recipes and the charges, and how.
LEMMA StoreSteps ==
    ASSUME TypeOK, NEW h \in Heals,
           \/ \E f \in Failures, o \in Overrides, b \in Backends, m \in Modes : Start(h, f, o, b, m)
           \/ Go(h) \/ WriteFails(h) \/ Crash(h)
    PROVE  \/ Stale(h) \/ Bump(h) \/ Persist(h) \/ BurninRun(h)
           \/ UNCHANGED <<recipes, charges>>
  BY DEF Go, Run, Store, Start, Retrieve, Diagnose, ReproduceRun, Diff, Fallback, ReadForMirror,
         WriteMirror, Record, Answer, WriteFails, Crash

\* A burn-in charges the recipe it tries or nobody.
LEMMA BurninCharges ==
    ASSUME NEW h \in Heals, BurninRun(h)
    PROVE  UNCHANGED charges \/ Charge(heal[h].recipe)
  BY DEF BurninRun, Charge

\* Every step keeps the types.
LEMMA TypeStep == TypeOK /\ [Next]_vars => TypeOK'
<1> SUFFICES ASSUME TypeOK, [Next]_vars PROVE TypeOK'
  OBVIOUS
<1>1. ASSUME NEW h \in Heals,
             \/ \E f \in Failures, o \in Overrides, b \in Backends, m \in Modes :
                   Start(h, f, o, b, m)
             \/ Go(h) \/ WriteFails(h) \/ Crash(h)
      PROVE  TypeOK'
  <2>1. HealType(heal'[h])
    BY <1>1, HealStep
  <2>2. /\ source' = source /\ edits' = edits /\ started' \in {started, started + 1}
        /\ faults' \in {faults, faults + 1} /\ \E next : Step(h, next)
    BY <1>1, HealStepForm
  <2>3. DOMAIN heal' = Heals /\ \A g \in Heals : HealType(heal'[g])
    BY <2>1, <2>2, StepKeeps DEF TypeOK
  <2>4. /\ \A s \in DOMAIN recipes' :
              /\ DOMAIN recipes'[s] = {"body", "diagnosis", "relaxed", "born", "good", "bad"}
              /\ recipes'[s].good \in Nat /\ recipes'[s].bad \in Nat
        /\ \A s \in DOMAIN charges' : charges'[s] \in Nat
    <3>1. CASE Stale(h)
      <4>1. BumpRecipe(heal[h].recipe, FALSE) /\ Charge(heal[h].recipe)
        BY <3>1 DEF Stale
      <4>2. \A s \in DOMAIN charges' : charges'[s] \in Nat
        BY <4>1, OneCharge
      <4>3. /\ DOMAIN recipes' = DOMAIN recipes
            /\ \A s \in DOMAIN recipes :
                  /\ DOMAIN recipes'[s] = DOMAIN recipes[s] /\ recipes'[s].good \in Nat
                  /\ recipes'[s].bad \in {recipes[s].bad, recipes[s].bad + 1}
        BY <4>1, BumpedRow
      <4> QED
        BY <4>2, <4>3 DEF TypeOK
    <3>2. CASE Bump(h)
      <4>1. heal[h].report.stable \in BOOLEAN
        BY DEF TypeOK, HealType
      <4> QED
        BY <3>2, <4>1, BumpedRow DEF Bump, TypeOK
    <3>3. CASE Persist(h)
      <4> DEFINE sig == Parts(heal[h].failure).sig
      <4>1. /\ DOMAIN recipes' = DOMAIN recipes \cup {sig}
            /\ \A s \in DOMAIN recipes : s # sig => recipes'[s] = recipes[s]
            /\ DOMAIN recipes'[sig] = {"body", "diagnosis", "relaxed", "born", "good", "bad"}
            /\ recipes'[sig].good \in Nat /\ recipes'[sig].bad \in {0, Bad(sig)}
        BY <3>3, StoredRow DEF Persist
      <4>2. UNCHANGED charges /\ Bad(sig) \in Nat
        BY <3>3, CountersTyped DEF Persist
      <4> HIDE DEF sig
      <4> QED
        BY <4>1, <4>2 DEF TypeOK
    <3>4. CASE BurninRun(h)
      <4>1. UNCHANGED recipes
        BY <3>4 DEF BurninRun
      <4> QED
        BY <3>4, <4>1, BurninCharges, OneCharge DEF TypeOK
    <3>5. CASE UNCHANGED <<recipes, charges>>
      BY <3>5 DEF TypeOK
    <3> QED
      BY <1>1, <3>1, <3>2, <3>3, <3>4, <3>5, StoreSteps
  <2> QED
    BY <2>2, <2>3, <2>4 DEF TypeOK
<1>2. CASE Edit
  BY <1>2 DEF Edit, TypeOK
<1>3. CASE UNCHANGED vars
  BY <1>3 DEF vars, TypeOK
<1> QED
  BY <1>1, <1>2, <1>3 DEF Next

\* At first there is nothing.
LEMMA TypeInit == Init => TypeOK
  BY IdleTyped DEF Init, TypeOK

\* The types of every variable and of every heal.
THEOREM TypeCorrect == Spec => []TypeOK
  BY TypeInit, TypeStep, PTL DEF Spec
-----------------------------------------------------------------------------
(* What two strategies can both plan.                                        *)

\* A nonempty set of natural numbers has its least one: the interval below it is
\* minimal in the strict order of finite sets, which is well founded.
LEMMA MinIn == ASSUME NEW I \in SUBSET Nat, I # {} PROVE Min(I) \in I
<1>1. PICK top \in I : TRUE
  OBVIOUS
<1> DEFINE S == 1..top
           T == {1..x : x \in {y \in I : y <= top}}
           R == StrictSubsetOrdering(S)
<1>2. IsWellFoundedOn(R, FiniteSubsetsOf(S))
  BY FS_StrictSubsetOrderingWellFounded
<1>3. T \subseteq FiniteSubsetsOf(S) /\ T # {}
  <2>1. IsFiniteSet(S)
    BY FS_Interval
  <2>2. \A x \in I : x <= top => 1..x \in SUBSET S
    BY <1>1
  <2>3. \A x \in I : x <= top => IsFiniteSet(1..x)
    BY <2>1, <2>2, FS_Subset
  <2> QED
    BY <1>1, <2>2, <2>3 DEF FiniteSubsetsOf
<1>4. PICK least \in T : \A U \in T : ~(<<U, least>> \in R)
  <2> HIDE DEF R, T, S
  <2> QED
    BY <1>2, <1>3, WFMin
<1>5. PICK x \in I : x <= top /\ least = 1..x
  BY <1>4
<1>6. \A y \in I : x <= y
  <2> SUFFICES ASSUME NEW y \in I, y < x PROVE FALSE
    BY <1>5
  <2>1. y <= top /\ 1..y \in T
    BY <1>5
  <2>2. 1..y \in SUBSET S /\ 1..x \in SUBSET S
    BY <1>5, <2>1
  <2>3. 1..y \subseteq 1..x /\ x \in 1..x /\ x \notin 1..y
    OBVIOUS
  <2>4. <<1..y, least>> \in R
    BY <1>5, <2>2, <2>3 DEF StrictSubsetOrdering
  <2> QED
    BY <1>4, <2>1, <2>4
<1> QED
  BY <1>6 DEF Min

\* A bumped time-out is three times the old one, or a minute: never 5000.
LEMMA BumpPlan ==
    ASSUME NEW src \in Sources, NEW d, NEW trace, NEW ops, ops # <<>>,
           ops = PlanBump(src, d, trace)
    PROVE  /\ 1 \in DOMAIN ops /\ ops[1].op \in {"timeout", "budget"}
           /\ ops[1].op = "timeout" => ops[1].new # 5000
<1> DEFINE sel == Selector(d, trace)
           Named(line) == sel \in line.sels /\ line.timeout > 0
           Timed(line) == line.timeout > 0 /\ trace # None /\ line.timeout = trace.timeout
           Budget(line) == line.budget > 0
           I == {x \in 1..Len(src) : Named(src[x])}
           J == {x \in 1..Len(src) : Timed(src[x])}
           i == IF sel # None THEN FirstLine(src, Named) ELSE 0
           j == FirstLine(src, Timed)
           k == FirstLine(src, Budget)
<1>1. i \in 1..Len(src) \/ ~(i > 0)
  <2>1. i \in {0, IF I # {} THEN Min(I) ELSE 0}
    BY DEF FirstLine, SelectInSeq
  <2>2. I # {} => Min(I) \in I
    <3>1. I \in SUBSET Nat
      OBVIOUS
    <3> HIDE DEF I
    <3> QED
      BY <3>1, MinIn
  <2>3. I \subseteq 1..Len(src)
    OBVIOUS
  <2> HIDE DEF I, i
  <2> QED
    BY <2>1, <2>2, <2>3
<1>2. j \in 1..Len(src) \/ ~(j > 0)
  <2>1. j \in {0, IF J # {} THEN Min(J) ELSE 0}
    BY DEF FirstLine, SelectInSeq
  <2>2. J # {} => Min(J) \in J
    <3>1. J \in SUBSET Nat
      OBVIOUS
    <3> HIDE DEF J
    <3> QED
      BY <3>1, MinIn
  <2>3. J \subseteq 1..Len(src)
    OBVIOUS
  <2> HIDE DEF J, j
  <2> QED
    BY <2>1, <2>2, <2>3
<1>3. ops = CASE i > 0 -> BumpOps("timeout", src[i], src[i].timeout)
             [] i = 0 /\ j > 0 -> BumpOps("timeout", src[j], src[j].timeout)
             [] i = 0 /\ j = 0 /\ k > 0 -> BumpOps("budget", src[k], src[k].budget)
             [] OTHER -> <<>>
  BY DEF PlanBump
<1> HIDE DEF i, j, k
<1>4. ASSUME NEW x \in 1..Len(src), ops = BumpOps("timeout", src[x], src[x].timeout)
      PROVE  1 \in DOMAIN ops /\ ops[1].op = "timeout" /\ ops[1].new # 5000
  <2>1. src[x].timeout \in Nat
    BY HealerAssumption
  <2>2. ops = <<Op("timeout", src[x], Bumped(src[x].timeout))>>
    BY <1>4 DEF BumpOps
  <2>3. Bumped(src[x].timeout) # 5000
    BY <2>1 DEF Bumped, Least
  <2> QED
    BY <2>2, <2>3 DEF Op
<1>5. ASSUME ops = BumpOps("budget", src[k], src[k].budget)
      PROVE  1 \in DOMAIN ops /\ ops[1].op = "budget"
  BY <1>5 DEF BumpOps, Op
<1> QED
  BY <1>1, <1>2, <1>3, <1>4, <1>5

\* A wait is a line of its own, or a time-out of 5000.
LEMMA AwaitPlan ==
    ASSUME NEW src, NEW d, NEW trace, NEW ops, ops # <<>>, ops = PlanAwait(src, d, trace)
    PROVE  /\ 1 \in DOMAIN ops /\ ops[1].op \in {"timeout", "wait"}
           /\ ops[1].op = "timeout" => ops[1].new = 5000
<1> DEFINE sel == Selector(d, trace)
           Checks(line) == sel \in line.sels /\ line.expect
           Names(line) == sel \in line.sels
           i == IF FirstLine(src, Checks) > 0 THEN FirstLine(src, Checks)
                ELSE FirstLine(src, Names)
           at == StatementStart(src, i)
<1>0. ops = IF sel = None \/ i = 0 THEN <<>>
            ELSE IF src[i].expect /\ src[i].timeout > 0
            THEN IF src[i].timeout < 5000 THEN <<Op("timeout", src[i], 5000)>> ELSE <<>>
            ELSE IF at = 0 \/ \E j \in (at - 1)..i : j > 0 /\ src[j].waits # None THEN <<>>
            ELSE <<Op("wait", src[at], WaitLine(sel))>>
  BY DEF PlanAwait
<1> HIDE DEF i, at, sel
<1>1. \E line, new : \/ ops = <<Op("timeout", line, 5000)>> \/ ops = <<Op("wait", line, new)>>
  BY <1>0
<1> QED
  BY <1>1 DEF Op

\* A test id is put in place of selectors only.
LEMMA TestIdPlan ==
    ASSUME NEW src, NEW d, NEW trace, NEW ops, ops = PlanTestId(src, d, trace)
    PROVE  \A i \in DOMAIN ops : ops[i].op = "testid"
  BY DEF PlanTestId, Op

\* The plan of a diagnosis that changes nothing is the plan of its strategy by the
\* old diagnosis as well, so the report stays of one piece when only the strategy
\* it names is replaced.
LEMMA SamePlan ==
    ASSUME NEW src \in Sources, NEW trace, NEW d, NEW old, NEW s \in Strategies, NEW t, NEW ops,
           ops # <<>>, ops = Plan(s, src, d, trace), ops = Plan(t, src, old, trace)
    PROVE  ops = Plan(s, src, old, trace)
<1>1. CASE s = "testid_selector"
  BY <1>1 DEF Plan, PlanTestId
<1>2. CASE s = "bump_timeout"
  <2>1. ops = PlanBump(src, d, trace)
    BY <1>2 DEF Plan
  <2>2. t \notin {"await_state", "testid_selector"}
    BY <2>1, BumpPlan, AwaitPlan, TestIdPlan DEF Plan
  <2> QED
    BY <1>2, <2>2 DEF Plan
<1>3. CASE s = "await_state"
  <2>1. ops = PlanAwait(src, d, trace)
    BY <1>3 DEF Plan
  <2>2. t \notin {"bump_timeout", "testid_selector"}
    BY <2>1, BumpPlan, AwaitPlan, TestIdPlan DEF Plan
  <2> QED
    BY <1>3, <2>2 DEF Plan
<1> QED
  BY <1>1, <1>2, <1>3 DEF Strategies

\* A strategy that is chosen plans something.
LEMMA PlannerPlans ==
    ASSUME NEW override, NEW src, NEW d, NEW trace, NEW s,
           s = Planner(override, src, d, trace), s # None
    PROVE  s \in Strategies /\ Plan(s, src, d, trace) # <<>>
  BY DEF Planner
-----------------------------------------------------------------------------
(* What a heal knows.                                                        *)

\* Green texts are never forgotten, so a heal that does nothing stays sound.
LEMMA SoundAlone ==
    ASSUME NEW me, NEW text, NEW now, NEW green, NEW more, green \subseteq more,
           Sound(me, text, now, green)
    PROVE  Sound(me, text, now, more)
  BY DEF Sound

\* After an edit a heal that has begun knows of the old text only.
LEMMA SoundEdited ==
    ASSUME NEW me, NEW text, NEW other, NEW now \in Nat, NEW green, Sound(me, text, now, green)
    PROVE  Sound(me, other, now + 1, green)
<1>1. me.pc = "idle" \/ me.edits # now + 1
  BY DEF Sound
<1> QED
  BY <1>1 DEF Sound, Trying, Reporting

\* Whoever gives up claims nothing.
LEMMA SoundAborted ==
    ASSUME TypeOK, HealInv, NEW h \in Heals, heal[h].pc # "idle"
    PROVE  Sound(Aborted(h), source, edits, proven)
<1> DEFINE me == heal[h]
           n == Aborted(h)
<1>1. HealType(me) /\ Sound(me, source, edits, proven)
  BY DEF TypeOK, HealInv
<1>2. DOMAIN me = DOMAIN Idle /\ DOMAIN me.report = {"trial", "diff", "stable", "error"}
  BY <1>1, Fields DEF HealType
<1>3. n.pc = "record" /\ n.report.error = TRUE /\ n.read = me.read /\ n.edits = me.edits
  BY <1>2, Fields DEF Aborted
<1> HIDE DEF n
<1> QED
  BY <1>1, <1>3 DEF Sound, Trying, Reporting, n

\* Taken forward, a heal knows what its new place promises.
LEMMA SoundStep ==
    ASSUME TypeOK, HealInv, NEW h \in Heals,
           \/ \E f \in Failures, o \in Overrides, b \in Backends, m \in Modes : Start(h, f, o, b, m)
           \/ Go(h) \/ WriteFails(h) \/ Crash(h)
    PROVE  Sound(heal'[h], source, edits, proven')
<1> DEFINE me == heal[h]
           n == heal'[h]
<1>t. HealType(me) /\ Sound(me, source, edits, proven)
  BY DEF TypeOK, HealInv
<1>f. /\ DOMAIN me = DOMAIN Idle /\ DOMAIN me.report = {"trial", "diff", "stable", "error"}
      /\ DOMAIN me.report.trial = {"strategy", "ops", "diagnosis"}
  BY <1>t, Fields DEF HealType
<1>k. \A next : Step(h, next) => heal'[h] = next
  BY StepKeeps
<1>g. proven \subseteq proven'
  BY HealStepForm
<1>a. me.pc # "idle" => Sound(Aborted(h), source, edits, proven')
  BY <1>g, SoundAborted, SoundAlone
<1>i. Sound(Idle, source, edits, proven')
  BY DEF Sound, Idle, Trying, Reporting
<1>1. ASSUME NEW f \in Failures, NEW o \in Overrides, NEW b \in Backends, NEW m \in Modes,
             Start(h, f, o, b, m)
      PROVE  Sound(n, source, edits, proven')
  <2>1. n = [Idle EXCEPT !.pc = "match", !.failure = f, !.override = o, !.backend = b,
                         !.mode = m, !.read = source, !.edits = edits]
    BY <1>1, <1>k DEF Start
  <2>2. n.pc = "match" /\ n.read = source /\ n.edits = edits
    BY <2>1, Fields
  <2> QED
    BY <2>2 DEF Sound, Trying, Reporting, TypeOK
<1>2. CASE Retrieve(h)
  <2> DEFINE sig == Match(me.failure, me.override)
             row == recipes[sig]
             ops == Plan(row.body.strategy, me.read, row.diagnosis, me.failure.trace)
             trial == [strategy |-> row.body.strategy, ops |-> ops, diagnosis |-> row.diagnosis]
  <2>1. n = IF sig = None THEN [me EXCEPT !.pc = "diagnose"]
            ELSE IF ops = <<>> THEN [me EXCEPT !.pc = "stale", !.recipe = sig]
            ELSE [me EXCEPT !.pc = "reproduce", !.recipe = sig, !.used = TRUE,
                            !.trial = trial, !.report.trial = trial,
                            !.left = ReproduceRuns]
    BY <1>2, <1>k DEF Retrieve
  <2>2. me.pc = "match"
    BY <1>2 DEF Retrieve
  <2>3. ops # <<>> => Planned(trial, me)
    BY DEF Planned
  <2> HIDE DEF sig, trial, ops
  <2>4. n.pc \in {"diagnose", "stale", "reproduce"} /\ n.read = me.read /\ n.edits = me.edits
        /\ n.failure = me.failure /\ (n.pc = "reproduce" => n.trial = trial /\ ops # <<>>)
    BY <2>1, <1>f, Fields
  <2> HIDE DEF n
  <2> QED
    BY <2>2, <2>3, <2>4, <1>t DEF Sound, Trying, Reporting, Planned, n
<1>3. CASE Stale(h)
  <2>1. n = [me EXCEPT !.pc = "diagnose", !.recipe = None, !.fallback = TRUE] /\ me.pc = "stale"
    BY <1>3, <1>k DEF Stale
  <2>2. n.pc = "diagnose" /\ n.read = me.read /\ n.edits = me.edits
    BY <2>1, <1>f, Fields
  <2> QED
    BY <2>1, <2>2, <1>t DEF Sound, Trying, Reporting
<1>4. CASE Diagnose(h)
  <2>1. PICK d \in Diagnoses(me.failure) :
           LET s == Planner(me.override, me.read, d, me.failure.trace)
               trial == [ strategy |-> s, diagnosis |-> d,
                          ops |-> Plan(s, me.read, d, me.failure.trace) ]
           IN  Step(h, IF s = None THEN Aborted(h)
                       ELSE [me EXCEPT !.pc = "reproduce", !.trial = trial,
                                       !.report.trial = trial, !.left = ReproduceRuns])
    BY <1>4 DEF Diagnose
  <2> DEFINE s == Planner(me.override, me.read, d, me.failure.trace)
             trial == [ strategy |-> s, diagnosis |-> d,
                        ops |-> Plan(s, me.read, d, me.failure.trace) ]
  <2>2. n = IF s = None THEN Aborted(h)
            ELSE [me EXCEPT !.pc = "reproduce", !.trial = trial,
                            !.report.trial = trial, !.left = ReproduceRuns]
    BY <2>1, <1>k
  <2>3. me.pc = "diagnose"
    BY <1>4 DEF Diagnose
  <2>4. s # None => Planned(trial, me)
    BY PlannerPlans DEF Planned
  <2> HIDE DEF s, trial
  <2>5. CASE s = None
    BY <2>2, <2>3, <2>5, <1>a
  <2>6. CASE s # None
    <3>1. /\ n.pc = "reproduce" /\ n.read = me.read /\ n.edits = me.edits
          /\ n.failure = me.failure /\ n.trial = trial
      BY <2>2, <2>6, <1>f, Fields
    <3> HIDE DEF n
    <3> QED
      BY <2>3, <2>4, <2>6, <3>1, <1>t DEF Sound, Trying, Reporting, Planned, n
  <2> QED
    BY <2>5, <2>6
<1>5. CASE ReproduceRun(h)
  <2>1. \/ n = Aborted(h)
        \/ n = [me EXCEPT !.left = @ - 1, !.pc = IF me.left = 1 THEN "diff" ELSE @]
    BY <1>5, <1>k DEF ReproduceRun
  <2>2. me.pc = "reproduce"
    BY <1>5 DEF ReproduceRun
  <2>3. CASE n = [me EXCEPT !.left = @ - 1, !.pc = IF me.left = 1 THEN "diff" ELSE @]
    <3>1. /\ n.pc \in {"reproduce", "diff"} /\ n.read = me.read /\ n.edits = me.edits
          /\ n.failure = me.failure /\ n.trial = me.trial
      BY <2>2, <2>3, <1>f, Fields
    <3> HIDE DEF n
    <3> QED
      BY <2>2, <3>1, <1>t DEF Sound, Trying, Reporting, Planned, n
  <2> QED
    BY <2>1, <2>2, <2>3, <1>a
<1>6. CASE Diff(h)
  <2> DEFINE after == Apply(source, me.trial.ops)
  <2>1. \/ n = Aborted(h)
        \/ n = [me EXCEPT !.pc = "burnin", !.diff = after, !.copy = None,
                          !.burnt = {}, !.red = FALSE, !.left = BurninRuns]
    BY <1>6, <1>k DEF Diff
  <2>2. me.pc = "diff"
    BY <1>6 DEF Diff
  <2>3. CASE n = [me EXCEPT !.pc = "burnin", !.diff = after, !.copy = None,
                            !.burnt = {}, !.red = FALSE, !.left = BurninRuns]
    <3>1. /\ n.pc = "burnin" /\ n.read = me.read /\ n.edits = me.edits
          /\ n.failure = me.failure /\ n.trial = me.trial /\ n.diff = after
          /\ n.copy = None /\ n.burnt = {}
      BY <2>3, <1>f, Fields
    <3> HIDE DEF n
    <3> QED
      BY <2>2, <3>1, <1>t DEF Sound, Trying, Reporting, Planned, n
  <2> QED
    BY <2>1, <2>2, <2>3, <1>a
<1>7. CASE Bump(h)
  <2>1. /\ n = [me EXCEPT !.pc = IF me.report.stable THEN "record" ELSE "fallback"]
        /\ me.pc = "bump"
    BY <1>7, <1>k DEF Bump
  <2>2. /\ n.pc = IF me.report.stable THEN "record" ELSE "fallback"
        /\ n.read = me.read /\ n.edits = me.edits /\ n.failure = me.failure
        /\ n.trial = me.trial /\ n.report = me.report /\ n.burnt = me.burnt
    BY <2>1, <1>f, Fields
  <2> HIDE DEF n
  <2> QED
    BY <2>1, <2>2, <1>t DEF Sound, Trying, Reporting, Planned, n
<1>8. CASE Persist(h) \/ ReadForMirror(h) \/ WriteMirror(h) \/ Record(h)
  <2>1. PICK p \in {"export", "mirror", "record", "pr", "done"} : \E found :
           /\ n = [me EXCEPT !.pc = p, !.pending = found] \/ n = [me EXCEPT !.pc = p]
           /\ me.pc \in {"persist", "export", "mirror", "record"}
           /\ p \in {"export", "mirror"} => me.pc \in {"persist", "export"}
           /\ p = "pr" => me.report.stable
    BY <1>8, <1>k DEF Persist, ReadForMirror, WriteMirror, Record, OpensPr
  <2>2. /\ n.pc \in {"export", "mirror", "record", "pr", "done"}
        /\ me.pc \in {"persist", "export", "mirror", "record"}
        /\ n.pc \in {"export", "mirror"} => me.pc \in {"persist", "export"}
        /\ n.pc = "pr" => me.report.stable
        /\ n.read = me.read /\ n.edits = me.edits /\ n.failure = me.failure
        /\ n.trial = me.trial /\ n.report = me.report /\ n.burnt = me.burnt
    <3>1. ASSUME NEW found, n = [me EXCEPT !.pc = p, !.pending = found]
          PROVE  /\ n.pc = p /\ n.read = me.read /\ n.edits = me.edits /\ n.failure = me.failure
                 /\ n.trial = me.trial /\ n.report = me.report /\ n.burnt = me.burnt
      BY <3>1, <1>f, Fields
    <3>2. CASE n = [me EXCEPT !.pc = p]
      BY <2>1, <3>2, <1>f, Fields
    <3> QED
      BY <2>1, <3>1, <3>2
  <2> HIDE DEF n
  <2> QED
    BY <2>2, <1>t DEF Sound, Trying, Reporting, Planned, n
<1>9. CASE Answer(h) \/ Crash(h)
  BY <1>9, <1>k, <1>i DEF Answer, Crash
<1>10. CASE WriteFails(h)
  <2>1. n = [me EXCEPT !.pc = "lost"] /\ me.pc # "idle"
    BY <1>10, <1>k DEF WriteFails
  <2>2. n.pc = "lost" /\ n.read = me.read /\ n.edits = me.edits
    BY <2>1, <1>f, Fields
  <2> QED
    BY <2>1, <2>2, <1>t DEF Sound, Trying, Reporting
<1>11. CASE Fallback(h)
  <2>1. PICK d \in Diagnoses(me.failure) :
             LET s == Planner(None, me.read, d, me.failure.trace)
                 ops == Plan(s, me.read, d, me.failure.trace)
                 tried == [me EXCEPT !.fallback = TRUE,
                             !.report.trial.strategy = IF s = None THEN @ ELSE s]
             IN  Step(h, IF s = None \/ ops = me.report.trial.ops
                         THEN [tried EXCEPT !.pc = "record"]
                         ELSE [tried EXCEPT !.pc = "diff",
                                 !.trial = [strategy |-> s, ops |-> ops, diagnosis |-> d]])
    BY <1>11 DEF Fallback
  <2> DEFINE s == Planner(None, me.read, d, me.failure.trace)
             ops == Plan(s, me.read, d, me.failure.trace)
             trial == [strategy |-> s, ops |-> ops, diagnosis |-> d]
             tried == [me EXCEPT !.fallback = TRUE,
                         !.report.trial.strategy = IF s = None THEN @ ELSE s]
  <2>2. n = IF s = None \/ ops = me.report.trial.ops
            THEN [tried EXCEPT !.pc = "record"]
            ELSE [tried EXCEPT !.pc = "diff", !.trial = trial]
    BY <2>1, <1>k
  <2>3. me.pc = "fallback"
    BY <1>11 DEF Fallback
  <2>4. s # None => s \in Strategies /\ ops # <<>>
    BY PlannerPlans
  <2>5. s # None => Planned(trial, me)
    BY <2>4 DEF Planned
  <2>6. me.read \in Sources
    BY <2>3, <1>t DEF Sound
  <2>7. ~me.report.error => Planned(me.report.trial, me)
    BY <2>3, <1>t DEF Sound, Reporting
  <2>8. s # None /\ ops = me.report.trial.ops /\ ~me.report.error
          => ops = Plan(s, me.read, me.report.trial.diagnosis, me.failure.trace)
    BY <2>4, <2>6, <2>7, SamePlan DEF Planned
  <2> HIDE DEF s, ops, trial
  <2>9. /\ DOMAIN tried = DOMAIN Idle /\ tried.read = me.read /\ tried.edits = me.edits
        /\ tried.failure = me.failure /\ tried.trial = me.trial /\ tried.burnt = me.burnt
        /\ tried.report = [me.report EXCEPT !.trial.strategy = IF s = None THEN @ ELSE s]
    BY <1>f, Fields
  <2>10. /\ tried.report.stable = me.report.stable /\ tried.report.error = me.report.error
         /\ tried.report.trial.ops = me.report.trial.ops
         /\ tried.report.trial.diagnosis = me.report.trial.diagnosis
         /\ tried.report.trial.strategy = IF s = None THEN me.report.trial.strategy ELSE s
    <3> HIDE DEF tried
    <3> QED
      BY <2>9, <1>f
  <2> HIDE DEF tried
  <2>11. ~me.report.stable
    BY <2>3, <1>t DEF Sound
  <2>12. CASE s = None \/ ops = me.report.trial.ops
    <3>1. /\ n.pc = "record" /\ n.read = me.read /\ n.edits = me.edits
          /\ n.failure = me.failure /\ n.report = tried.report
      BY <2>2, <2>9, <2>12, Fields
    <3>2. ~me.report.error => Planned(n.report.trial, n)
      BY <2>7, <2>8, <2>10, <2>12, <3>1 DEF Planned
    <3> HIDE DEF n
    <3> QED
      BY <2>3, <2>10, <2>11, <3>1, <3>2, <1>t DEF Sound, Trying, Reporting, n
  <2>13. CASE ~(s = None \/ ops = me.report.trial.ops)
    <3>1. /\ n.pc = "diff" /\ n.read = me.read /\ n.edits = me.edits
          /\ n.failure = me.failure /\ n.trial = trial
      BY <2>2, <2>9, <2>13, Fields
    <3> HIDE DEF n
    <3> QED
      BY <2>3, <2>5, <2>13, <3>1, <1>t DEF Sound, Trying, Reporting, Planned, n
  <2> QED
    BY <2>12, <2>13
<1>12. CASE BurninRun(h)
  <2> DEFINE text == IF me.copy = None \/ OwnCopies THEN Apply(source, me.trial.ops) ELSE me.copy
  <2>1. PICK outcome \in Outcomes :
          LET ran == [me EXCEPT !.copy = text, !.burnt = @ \cup {text}, !.left = @ - 1,
                                !.red = @ \/ outcome # "passed"]
          IN  /\ Step(h, IF text = None \/ Seen(h, outcome) THEN Aborted(h)
                         ELSE IF me.left = 1 THEN BurntIn(ran) ELSE ran)
              /\ proven' = IF text # None /\ me.left = 1 /\ ~ran.red /\ Parts(me.failure) # None
                           THEN proven \cup {<<Parts(me.failure).sig,
                                               Body(me.trial.strategy, me.trial.ops)>>}
                           ELSE proven
    BY <1>12 DEF BurninRun
  <2> DEFINE ran == [me EXCEPT !.copy = text, !.burnt = @ \cup {text}, !.left = @ - 1,
                               !.red = @ \/ outcome # "passed"]
  <2>2. n = IF text = None \/ Seen(h, outcome) THEN Aborted(h)
            ELSE IF me.left = 1 THEN BurntIn(ran) ELSE ran
    BY <2>1, <1>k
  <2>3. me.pc = "burnin"
    BY <1>12 DEF BurninRun
  <2>4. me.edits = edits => text = me.diff
    BY <2>3, <1>t DEF Sound
  <2>5. text # None /\ me.left = 1 /\ ~ran.red /\ Parts(me.failure) # None
          => <<Parts(me.failure).sig, Body(me.trial.strategy, me.trial.ops)>> \in proven'
    BY <2>1
  <2> HIDE DEF text
  <2>6. /\ DOMAIN ran = DOMAIN Idle /\ ran.report = me.report /\ ran.trial = me.trial
        /\ ran.pc = me.pc /\ ran.failure = me.failure /\ ran.read = me.read
        /\ ran.edits = me.edits /\ ran.diff = me.diff /\ ran.copy = text
        /\ ran.burnt = me.burnt \cup {text}
    BY <1>f, Fields
  <2> HIDE DEF ran
  <2>7. Sound(ran, source, edits, proven')
    BY <2>3, <2>4, <2>6, <1>t DEF Sound, Trying, Reporting, Planned
  <2>8. ASSUME me.left = 1, text # None PROVE Sound(BurntIn(ran), source, edits, proven')
    <3> DEFINE retried == ran.fallback /\ ran.used
               reported == [ran EXCEPT !.report.diff = ran.diff, !.report.stable = ~ran.red,
                                       !.report.trial = ran.trial, !.used = @ /\ ~retried]
    <3>1. /\ DOMAIN reported = DOMAIN Idle /\ reported.trial = me.trial
          /\ reported.report = [me.report EXCEPT !.diff = me.diff, !.stable = ~ran.red,
                                                 !.trial = me.trial]
          /\ reported.failure = me.failure /\ reported.read = me.read
          /\ reported.edits = me.edits /\ reported.burnt = me.burnt \cup {text}
      BY <2>6, <1>f, Fields
    <3> HIDE DEF reported
    <3>2. /\ reported.report.trial = me.trial /\ reported.report.diff = me.diff
          /\ reported.report.stable = ~ran.red
      BY <3>1, <1>f, Fields
    <3>3. ASSUME NEW p \in {"bump", "persist", "record"},
                 p = "persist" => ~ran.red /\ Parts(me.failure) # None
          PROVE  Sound([reported EXCEPT !.pc = p], source, edits, proven')
      <4> DEFINE r == [reported EXCEPT !.pc = p]
      <4>1. /\ r.pc = p /\ r.trial = me.trial /\ r.report = reported.report
            /\ r.failure = me.failure /\ r.read = me.read /\ r.edits = me.edits
            /\ r.burnt = me.burnt \cup {text}
        BY <3>1, Fields
      <4> HIDE DEF r
      <4>2. Planned(me.trial, me) /\ me.read \in Sources /\ me.edits \in Nat /\ me.edits <= edits
            /\ (me.edits = edits => me.read = source /\ me.burnt \subseteq {me.diff})
        BY <2>3, <1>t DEF Sound, Trying
      <4>3. Planned(r.trial, r) /\ Planned(r.report.trial, r)
        BY <3>2, <4>1, <4>2 DEF Planned
      <4>4. Sound(r, source, edits, proven')
        BY <2>4, <2>5, <2>8, <3>2, <3>3, <4>1, <4>2, <4>3 DEF Sound, Trying, Reporting
      <4> QED
        BY <4>4 DEF r
    <3>4. BurntIn(ran) = IF ran.used /\ ~retried THEN [reported EXCEPT !.pc = "bump"]
                         ELSE IF ~ran.red /\ Parts(ran.failure) # None
                              THEN [reported EXCEPT !.pc = "persist"]
                         ELSE [reported EXCEPT !.pc = "record"]
      BY DEF BurntIn, reported
    <3> HIDE DEF retried
    <3> QED
      BY <2>6, <3>3, <3>4
  <2> QED
    BY <2>2, <2>3, <2>7, <2>8, <1>a
<1> QED
  BY <1>1, <1>2, <1>3, <1>4, <1>5, <1>6, <1>7, <1>8, <1>9, <1>10, <1>11, <1>12 DEF Go, Run, Store

\* Every step keeps every heal sound.
LEMMA HealInvStep == TypeOK /\ HealInv /\ [Next]_vars => HealInv'
<1> SUFFICES ASSUME TypeOK, HealInv, [Next]_vars PROVE HealInv'
  OBVIOUS
<1>1. ASSUME NEW h \in Heals,
             \/ \E f \in Failures, o \in Overrides, b \in Backends, m \in Modes :
                   Start(h, f, o, b, m)
             \/ Go(h) \/ WriteFails(h) \/ Crash(h)
      PROVE  HealInv'
  <2>1. Sound(heal'[h], source, edits, proven')
    BY <1>1, SoundStep
  <2>2. source' = source /\ edits' = edits /\ proven \subseteq proven' /\ \E next : Step(h, next)
    BY <1>1, HealStepForm
  <2>3. \A g \in Heals : g # h => heal'[g] = heal[g]
    BY <2>2, StepKeeps
  <2>4. \A g \in Heals : Sound(heal[g], source, edits, proven')
    BY <2>2, SoundAlone DEF HealInv
  <2> QED
    BY <2>1, <2>2, <2>3, <2>4 DEF HealInv
<1>2. CASE Edit
  <2>1. edits \in Nat /\ edits' = edits + 1 /\ heal' = heal /\ proven' = proven
    BY <1>2 DEF Edit, TypeOK
  <2>2. \A g \in Heals : Sound(heal[g], source', edits + 1, proven)
    BY <2>1, SoundEdited DEF HealInv
  <2> QED
    BY <2>1, <2>2 DEF HealInv
<1>3. CASE UNCHANGED vars
  BY <1>3 DEF vars, HealInv
<1> QED
  BY <1>1, <1>2, <1>3 DEF Next

\* At first no heal knows anything.
LEMMA HealInvInit == Init => HealInv
  BY DEF Init, HealInv, Sound, Idle, Trying, Reporting

\* Every heal stays sound.
THEOREM HealInvCorrect == Spec => []HealInv
<1>1. TypeOK /\ TypeOK' /\ HealInv /\ [Next]_vars => HealInv'
  BY HealInvStep
<1> QED
  BY <1>1, HealInvInit, TypeCorrect, PTL DEF Spec

\* A report that ended well names the strategy that planned its patch, and shows
\* what all the green runs ran (healer.py), after a fallback too.
THEOREM OfOnePieceCorrect == Spec => []OfOnePiece
<1>1. HealInv => OfOnePiece
  BY DEF HealInv, Sound, Reporting, Planned, OfOnePiece
<1> QED
  BY <1>1, HealInvCorrect, PTL

\* A stored recipe went green in full for its own signature (healer.py, "Store the
\* procedure that just went green").
THEOREM RecipesProvenCorrect == Spec => []RecipesProven
<1>1. Init => RecipesProven
  BY DEF Init, RecipesProven
<1>2. TypeOK /\ HealInv /\ RecipesProven /\ [Next]_vars => RecipesProven'
  <2> SUFFICES ASSUME TypeOK, HealInv, RecipesProven, [Next]_vars PROVE RecipesProven'
    OBVIOUS
  <2>1. ASSUME NEW h \in Heals,
               \/ \E f \in Failures, o \in Overrides, b \in Backends, m \in Modes :
                     Start(h, f, o, b, m)
               \/ Go(h) \/ WriteFails(h) \/ Crash(h)
        PROVE  RecipesProven'
    <3>0. proven \subseteq proven'
      BY <2>1, HealStepForm
    <3>1. CASE Stale(h)
      <4>1. BumpRecipe(heal[h].recipe, FALSE)
        BY <3>1 DEF Stale
      <4>2. DOMAIN recipes' = DOMAIN recipes /\ \A s \in DOMAIN recipes : recipes'[s].body = recipes[s].body
        BY <4>1, BumpedRow
      <4> QED
        BY <3>0, <4>2 DEF RecipesProven
    <3>2. CASE Bump(h)
      <4>1. BumpRecipe(heal[h].recipe, heal[h].report.stable) /\ heal[h].report.stable \in BOOLEAN
        BY <3>2 DEF Bump, TypeOK, HealType
      <4>2. DOMAIN recipes' = DOMAIN recipes /\ \A s \in DOMAIN recipes : recipes'[s].body = recipes[s].body
        BY <4>1, BumpedRow
      <4> QED
        BY <3>0, <4>2 DEF RecipesProven
    <3>3. CASE Persist(h)
      <4> DEFINE sig == Parts(heal[h].failure).sig
                 trial == heal[h].report.trial
      <4>1. <<sig, Body(trial.strategy, trial.ops)>> \in proven
        BY <3>3 DEF Persist, HealInv, Sound
      <4>2. /\ DOMAIN recipes' = DOMAIN recipes \cup {sig}
            /\ \A s \in DOMAIN recipes : s # sig => recipes'[s] = recipes[s]
            /\ recipes'[sig].body = Body(trial.strategy, trial.ops)
        BY <3>3, StoredRow DEF Persist
      <4> HIDE DEF sig, trial
      <4> QED
        BY <3>0, <4>1, <4>2 DEF RecipesProven
    <3>4. CASE BurninRun(h)
      BY <3>0, <3>4 DEF BurninRun, RecipesProven
    <3>5. CASE UNCHANGED <<recipes, charges>>
      BY <3>0, <3>5 DEF RecipesProven
    <3> QED
      BY <2>1, <3>1, <3>2, <3>3, <3>4, <3>5, StoreSteps
  <2>2. CASE Edit
    BY <2>2 DEF Edit, RecipesProven
  <2>3. CASE UNCHANGED vars
    BY <2>3 DEF vars, RecipesProven
  <2> QED
    BY <2>1, <2>2, <2>3 DEF Next
<1> QED
  BY <1>1, <1>2, TypeCorrect, HealInvCorrect, PTL DEF Spec
-----------------------------------------------------------------------------
(* What recipes are charged with.                                            *)

\* Beside its burn-in no step of a heal leaves it with a failed run to account for,
\* and none brings it into another sandbox.
LEMMA Places ==
    ASSUME TypeOK, NEW h \in Heals,
           \/ \E f \in Failures, o \in Overrides, b \in Backends, m \in Modes : Start(h, f, o, b, m)
           \/ Go(h) \/ WriteFails(h) \/ Crash(h)
    PROVE  \/ BurninRun(h)
           \/ /\ heal'[h].pc # "bump" /\ (heal'[h].pc = "burnin" => heal'[h].red = FALSE)
              /\ \/ heal'[h].pc = "idle" \/ heal'[h].backend \in Backends
                 \/ heal[h].pc # "idle" /\ heal'[h].backend = heal[h].backend
<1> DEFINE me == heal[h]
           n == heal'[h]
           Done == /\ n.pc # "bump" /\ (n.pc = "burnin" => n.red = FALSE)
                   /\ \/ n.pc = "idle" \/ n.backend \in Backends
                      \/ me.pc # "idle" /\ n.backend = me.backend
<1>f. /\ DOMAIN me = DOMAIN Idle /\ DOMAIN me.report = {"trial", "diff", "stable", "error"}
  BY Fields DEF TypeOK, HealType
<1>k. \A next : Step(h, next) => heal'[h] = next
  BY StepKeeps
<1>a. Aborted(h).pc = "record" /\ Aborted(h).backend = me.backend
  BY <1>f, Fields DEF Aborted
<1>i. Idle.pc = "idle"
  BY DEF Idle
<1>1. ASSUME NEW f \in Failures, NEW o \in Overrides, NEW b \in Backends, NEW m \in Modes,
             Start(h, f, o, b, m)
      PROVE  Done
  <2>1. n = [Idle EXCEPT !.pc = "match", !.failure = f, !.override = o, !.backend = b,
                         !.mode = m, !.read = source, !.edits = edits]
    BY <1>1, <1>k DEF Start
  <2> QED
    BY <2>1, Fields
<1>2. CASE Retrieve(h)
  <2> DEFINE sig == Match(me.failure, me.override)
             row == recipes[sig]
             ops == Plan(row.body.strategy, me.read, row.diagnosis, me.failure.trace)
             trial == [strategy |-> row.body.strategy, ops |-> ops, diagnosis |-> row.diagnosis]
  <2>1. n = IF sig = None THEN [me EXCEPT !.pc = "diagnose"]
            ELSE IF ops = <<>> THEN [me EXCEPT !.pc = "stale", !.recipe = sig]
            ELSE [me EXCEPT !.pc = "reproduce", !.recipe = sig, !.used = TRUE,
                            !.trial = trial, !.report.trial = trial,
                            !.left = ReproduceRuns]
    BY <1>2, <1>k DEF Retrieve
  <2> HIDE DEF sig, ops, trial
  <2>i. me.pc # "idle"
    BY <1>2 DEF Retrieve
  <2> QED
    BY <2>1, <2>i, <1>f, Fields
<1>3. CASE Stale(h)
  <2>1. n = [me EXCEPT !.pc = "diagnose", !.recipe = None, !.fallback = TRUE]
    BY <1>3, <1>k DEF Stale
  <2>i. me.pc # "idle"
    BY <1>3 DEF Stale
  <2> QED
    BY <2>1, <2>i, <1>f, Fields
<1>4. CASE Diagnose(h)
  <2>1. \E s, trial : n = IF s = None THEN Aborted(h)
                          ELSE [me EXCEPT !.pc = "reproduce", !.trial = trial,
                                          !.report.trial = trial, !.left = ReproduceRuns]
    BY <1>4, <1>k DEF Diagnose
  <2>i. me.pc # "idle"
    BY <1>4 DEF Diagnose
  <2> QED
    BY <2>1, <2>i, <1>a, <1>f, Fields
<1>5. CASE ReproduceRun(h)
  <2>1. /\ \/ n = Aborted(h)
           \/ n = [me EXCEPT !.left = @ - 1, !.pc = IF me.left = 1 THEN "diff" ELSE @]
        /\ me.pc = "reproduce"
    BY <1>5, <1>k DEF ReproduceRun
  <2> QED
    BY <2>1, <1>a, <1>f, Fields
<1>6. CASE Diff(h)
  <2>1. \/ n = Aborted(h)
        \/ \E d : n = [me EXCEPT !.pc = "burnin", !.diff = d, !.copy = None, !.burnt = {},
                                 !.red = FALSE, !.left = BurninRuns]
    BY <1>6, <1>k DEF Diff
  <2>i. me.pc # "idle"
    BY <1>6 DEF Diff
  <2>2. CASE n = Aborted(h)
    BY <2>2, <2>i, <1>a
  <2>3. ASSUME NEW d, n = [me EXCEPT !.pc = "burnin", !.diff = d, !.copy = None, !.burnt = {},
                                     !.red = FALSE, !.left = BurninRuns]
        PROVE  n.pc = "burnin" /\ n.red = FALSE /\ n.backend = me.backend
    BY <2>3, <1>f, Fields
  <2> QED
    BY <2>1, <2>2, <2>3, <2>i
<1>7. CASE Bump(h)
  <2>1. n = [me EXCEPT !.pc = IF me.report.stable THEN "record" ELSE "fallback"]
    BY <1>7, <1>k DEF Bump
  <2>i. me.pc # "idle"
    BY <1>7 DEF Bump
  <2> QED
    BY <2>1, <2>i, <1>f, Fields
<1>8. CASE Persist(h) \/ ReadForMirror(h) \/ WriteMirror(h) \/ Record(h)
  <2>1. PICK p \in {"export", "mirror", "record", "pr", "done"} : \E found :
           n = [me EXCEPT !.pc = p, !.pending = found] \/ n = [me EXCEPT !.pc = p]
    BY <1>8, <1>k DEF Persist, ReadForMirror, WriteMirror, Record
  <2>i. me.pc # "idle"
    BY <1>8 DEF Persist, ReadForMirror, WriteMirror, Record
  <2> QED
    BY <2>1, <2>i, <1>f, Fields
<1>9. CASE Answer(h) \/ Crash(h)
  BY <1>9, <1>k, <1>i DEF Answer, Crash
<1>10. CASE WriteFails(h)
  <2>1. n = [me EXCEPT !.pc = "lost"]
    BY <1>10, <1>k DEF WriteFails
  <2>i. me.pc # "idle"
    BY <1>10 DEF WriteFails
  <2> QED
    BY <2>1, <2>i, <1>f, Fields
<1>11. CASE Fallback(h)
  <2>1. PICK d \in Diagnoses(me.failure) :
             LET s == Planner(None, me.read, d, me.failure.trace)
                 ops == Plan(s, me.read, d, me.failure.trace)
                 tried == [me EXCEPT !.fallback = TRUE,
                             !.report.trial.strategy = IF s = None THEN @ ELSE s]
             IN  Step(h, IF s = None \/ ops = me.report.trial.ops
                         THEN [tried EXCEPT !.pc = "record"]
                         ELSE [tried EXCEPT !.pc = "diff",
                                 !.trial = [strategy |-> s, ops |-> ops, diagnosis |-> d]])
    BY <1>11 DEF Fallback
  <2> DEFINE s == Planner(None, me.read, d, me.failure.trace)
             ops == Plan(s, me.read, d, me.failure.trace)
             trial == [strategy |-> s, ops |-> ops, diagnosis |-> d]
             tried == [me EXCEPT !.fallback = TRUE,
                         !.report.trial.strategy = IF s = None THEN @ ELSE s]
  <2>2. n = IF s = None \/ ops = me.report.trial.ops
            THEN [tried EXCEPT !.pc = "record"]
            ELSE [tried EXCEPT !.pc = "diff", !.trial = trial]
    BY <2>1, <1>k
  <2>3. DOMAIN tried = DOMAIN Idle /\ tried.backend = me.backend
    BY <1>f, Fields
  <2>i. me.pc # "idle"
    BY <1>11 DEF Fallback
  <2> HIDE DEF s, ops, trial, tried
  <2> QED
    BY <2>2, <2>3, <2>i, Fields
<1> HIDE DEF Done
<1>12. CASE \E f \in Failures, o \in Overrides, b \in Backends, m \in Modes : Start(h, f, o, b, m)
  <2>1. PICK f \in Failures, o \in Overrides, b \in Backends, m \in Modes : Start(h, f, o, b, m)
    BY <1>12
  <2> QED
    BY <2>1, <1>1 DEF Done
<1>13. CASE Go(h) /\ ~BurninRun(h)
  BY <1>2, <1>3, <1>4, <1>5, <1>6, <1>7, <1>8, <1>9, <1>11, <1>13 DEF Go, Run, Store
<1>14. CASE BurninRun(h)
  BY <1>14
<1> QED
  BY <1>9, <1>10, <1>12, <1>13, <1>14 DEF Done

\* A burn-in charges the recipe it tries with its first failed run; what was no
\* run of the test ends it.
LEMMA BurninOwes ==
    ASSUME TypeOK, ChargeInv, OutcomesSeen, NEW h \in Heals, BurninRun(h)
    PROVE  /\ \/ Charge(heal[h].recipe)
              \/ /\ UNCHANGED charges
                 /\ \A s : h \in Owing(s)' => h \in Owing(s)
           /\ \A s : h \in Owing(s)' => s = heal[h].recipe
           /\ heal'[h].pc = "bump" => /\ heal'[h].used /\ ~heal'[h].fallback
                                      /\ heal'[h].report.stable = ~heal'[h].red
           /\ heal'[h].backend = heal[h].backend
<1> DEFINE me == heal[h]
           n == heal'[h]
           text == IF me.copy = None \/ OwnCopies THEN Apply(source, me.trial.ops) ELSE me.copy
<1>t. HealType(me)
  BY DEF TypeOK
<1>f. DOMAIN me = DOMAIN Idle /\ DOMAIN me.report = {"trial", "diff", "stable", "error"}
  BY <1>t, Fields DEF HealType
<1>k. \A next : Step(h, next) => heal'[h] = next
  BY StepKeeps
<1>1. PICK outcome \in Outcomes :
        LET ran == [me EXCEPT !.copy = text, !.burnt = @ \cup {text}, !.left = @ - 1,
                              !.red = @ \/ outcome # "passed"]
        IN  /\ Step(h, IF text = None \/ Seen(h, outcome) THEN Aborted(h)
                       ELSE IF me.left = 1 THEN BurntIn(ran) ELSE ran)
            /\ charges' = IF outcome = "failed" /\ ~me.red /\ me.used /\ ~me.fallback
                          THEN Extended(charges, me.recipe, 1 +
                                 IF me.recipe \in DOMAIN charges THEN charges[me.recipe] ELSE 0)
                          ELSE charges
  BY DEF BurninRun
<1>2. me.pc = "burnin"
  BY DEF BurninRun
<1> DEFINE ran == [me EXCEPT !.copy = text, !.burnt = @ \cup {text}, !.left = @ - 1,
                             !.red = @ \/ outcome # "passed"]
<1>3. n = IF text = None \/ Seen(h, outcome) THEN Aborted(h)
          ELSE IF me.left = 1 THEN BurntIn(ran) ELSE ran
  BY <1>1, <1>k
<1> HIDE DEF text
<1>4. /\ DOMAIN ran = DOMAIN Idle /\ ran.report = me.report /\ ran.trial = me.trial
      /\ ran.red = (me.red \/ outcome # "passed") /\ ran.pc = "burnin" /\ ran.used = me.used
      /\ ran.fallback = me.fallback /\ ran.recipe = me.recipe /\ ran.backend = me.backend
  BY <1>2, <1>f, Fields
<1> HIDE DEF ran
<1>5. outcome = "norun" => Seen(h, outcome)
  BY <1>2 DEF Seen, OutcomesSeen, ChargeInv
<1>6. /\ Aborted(h).pc = "record" /\ Aborted(h).backend = me.backend
  BY <1>f, Fields DEF Aborted
<1> DEFINE retried == ran.fallback /\ ran.used
           reported == [ran EXCEPT !.report.diff = ran.diff, !.report.stable = ~ran.red,
                                   !.report.trial = ran.trial, !.used = @ /\ ~retried]
<1>7. /\ DOMAIN reported = DOMAIN Idle /\ reported.red = ran.red /\ reported.recipe = me.recipe
      /\ reported.report = [me.report EXCEPT !.diff = ran.diff, !.stable = ~ran.red,
                                             !.trial = ran.trial]
      /\ reported.used = (ran.used /\ ~retried) /\ reported.fallback = ran.fallback
      /\ reported.backend = me.backend
  BY <1>4, <1>f, Fields
<1> HIDE DEF reported
<1>8. reported.report.stable = ~ran.red
  BY <1>7, <1>f
<1> DEFINE place == IF ran.used /\ ~retried THEN "bump"
                    ELSE IF ~ran.red /\ Parts(ran.failure) # None THEN "persist" ELSE "record"
<1>9. BurntIn(ran) = [reported EXCEPT !.pc = place]
  BY DEF BurntIn, reported
<1>10. place = "bump" => ran.used /\ ~ran.fallback
  BY <1>4, <1>t DEF HealType
<1>10a. place \in {"bump", "persist", "record"}
  OBVIOUS
<1> HIDE DEF place
<1>11. CASE text = None \/ Seen(h, outcome)
  <2>1. n.pc = "record" /\ n.backend = me.backend
    BY <1>3, <1>6, <1>11
  <2>2. \A s : h \notin Owing(s)'
    BY <2>1 DEF Owing
  <2>3. UNCHANGED charges \/ Charge(me.recipe)
    BY BurninCharges
  <2> QED
    BY <2>1, <2>2, <2>3
<1>12. CASE ~(text = None \/ Seen(h, outcome))
  <2>1. outcome \in {"passed", "failed"}
    BY <1>5, <1>12 DEF Outcomes
  <2>2. /\ n.pc \in {"burnin", "bump", "persist", "record"} /\ n.red = ran.red
        /\ n.recipe = me.recipe /\ n.backend = me.backend /\ n.fallback = me.fallback
        /\ n.pc \in {"burnin", "bump"} => n.used = me.used
        /\ n.pc = "bump" => ran.used /\ ~ran.fallback /\ n.report.stable = ~ran.red
    <3>1. CASE me.left = 1
      <4>1. n = [reported EXCEPT !.pc = place]
        BY <1>3, <1>9, <1>12, <3>1
      <4>2. /\ n.pc = place /\ n.red = ran.red /\ n.recipe = me.recipe
            /\ n.backend = me.backend /\ n.fallback = ran.fallback /\ n.report = reported.report
            /\ n.used = reported.used
        BY <4>1, <1>7, Fields
      <4>3. place = "bump" => reported.used = ran.used
        BY <1>4, <1>7, <1>10, <1>t DEF HealType
      <4> HIDE DEF n
      <4> QED
        BY <4>2, <4>3, <1>4, <1>8, <1>10, <1>10a
    <3>2. CASE me.left # 1
      <4>1. n = ran
        BY <1>3, <1>12, <3>2
      <4> QED
        BY <4>1, <1>4
    <3> QED
      BY <3>1, <3>2
  <2>3. \A s : h \in Owing(s)' => /\ n.pc \in {"burnin", "bump"} /\ n.red /\ n.used
                                  /\ ~n.fallback /\ n.recipe = s
    BY DEF Owing
  <2>4. \A s : me.red /\ me.used /\ ~me.fallback /\ me.recipe = s => h \in Owing(s)
    BY <1>2 DEF Owing
  <2>5. CASE outcome = "failed" /\ ~me.red /\ me.used /\ ~me.fallback
    <3>1. Charge(me.recipe)
      BY <1>1, <2>5 DEF Charge
    <3> HIDE DEF n
    <3> QED
      BY <2>2, <2>3, <3>1, <1>4 DEF n
  <2>6. CASE ~(outcome = "failed" /\ ~me.red /\ me.used /\ ~me.fallback)
    <3>1. UNCHANGED charges
      BY <1>1, <2>6
    <3>2. \A s : h \in Owing(s)' => h \in Owing(s)
      <4> SUFFICES ASSUME NEW s, h \in Owing(s)' PROVE h \in Owing(s)
        OBVIOUS
      <4>1. /\ n.pc \in {"burnin", "bump"} /\ n.red /\ n.used /\ ~n.fallback /\ n.recipe = s
        BY <2>3
      <4> HIDE DEF n
      <4>2. me.used /\ ~me.fallback /\ me.recipe = s /\ (me.red \/ outcome # "passed")
        BY <4>1, <2>2, <1>4
      <4>3. me.red
        BY <4>2, <2>1, <2>6
      <4> QED
        BY <4>2, <4>3, <2>4
    <3> HIDE DEF n
    <3> QED
      BY <2>2, <2>3, <3>1, <3>2, <1>4 DEF n
  <2> QED
    BY <2>5, <2>6
<1> QED
  BY <1>11, <1>12

\* The heals are finite, and so are those that have something to account for.
LEMMA HealSets == \A S \in SUBSET Heals : IsFiniteSet(S) /\ Cardinality(S) \in Nat
  BY HealerAssumption, FS_Subset, FS_CardinalityType

\* One heal more, one less.
LEMMA FewerOwe ==
    ASSUME NEW A \in SUBSET Heals, NEW B \in SUBSET Heals, NEW h
    PROVE  /\ A \subseteq B => Cardinality(A) <= Cardinality(B)
           /\ A \subseteq B \cup {h} => Cardinality(A) <= Cardinality(B) + 1
           /\ h \in B /\ A \subseteq B \ {h} => Cardinality(A) + 1 <= Cardinality(B)
<1>1. /\ IsFiniteSet(A) /\ IsFiniteSet(B) /\ Cardinality(A) \in Nat /\ Cardinality(B) \in Nat
  BY HealSets
<1>2. A \subseteq B => Cardinality(A) <= Cardinality(B)
  BY <1>1, FS_Subset
<1>3. ASSUME A \subseteq B \cup {h} PROVE Cardinality(A) <= Cardinality(B) + 1
  <2>1. /\ IsFiniteSet(B \cup {h})
        /\ Cardinality(B \cup {h}) = IF h \in B THEN Cardinality(B) ELSE Cardinality(B) + 1
    BY <1>1, FS_AddElement
  <2>2. Cardinality(A) <= Cardinality(B \cup {h})
    BY <1>3, <2>1, FS_Subset
  <2> QED
    BY <1>1, <2>1, <2>2
<1>4. ASSUME h \in B, A \subseteq B \ {h} PROVE Cardinality(A) + 1 <= Cardinality(B)
  <2>1. IsFiniteSet(B \ {h}) /\ Cardinality(B \ {h}) = Cardinality(B) - 1
    BY <1>1, <1>4, FS_RemoveElement
  <2>2. Cardinality(A) <= Cardinality(B \ {h})
    BY <1>4, <2>1, FS_Subset
  <2> QED
    BY <1>1, <2>1, <2>2
<1> QED
  BY <1>2, <1>3, <1>4

\* What is nobody's recipe has no counter, no charge and no debtor.
LEMMA ChargeAll ==
    ASSUME TypeOK, ChargeInv, NEW s PROVE Bad(s) + Cardinality(Owing(s)) <= Charged(s)
<1>1. CASE s \in DOMAIN recipes \cup DOMAIN charges \cup {heal[h].recipe : h \in Heals}
  BY <1>1 DEF ChargeInv
<1>2. CASE s \notin DOMAIN recipes \cup DOMAIN charges \cup {heal[h].recipe : h \in Heals}
  <2>1. Bad(s) = 0 /\ Charged(s) = 0
    BY <1>2 DEF Bad, Charged
  <2>2. Owing(s) = {}
    BY <1>2 DEF Owing
  <2>3. Cardinality(Owing(s)) = 0
    BY <2>2, FS_EmptySet
  <2> QED
    BY <2>1, <2>3
<1> QED
  BY <1>1, <1>2

\* One more failure on a row was charged, now or when the run failed.
LEMMA ChargeStep ==
    ASSUME TypeOK, ChargeInv, OutcomesSeen, NEW h \in Heals,
           \/ \E f \in Failures, o \in Overrides, b \in Backends, m \in Modes : Start(h, f, o, b, m)
           \/ Go(h) \/ WriteFails(h) \/ Crash(h)
    PROVE  \A s : Bad(s)' + Cardinality(Owing(s)') <= Charged(s)'
<1> SUFFICES ASSUME NEW s PROVE Bad(s)' + Cardinality(Owing(s)') <= Charged(s)'
  OBVIOUS
<1>1. \A g \in Heals : g # h => heal'[g] = heal[g]
  BY HealStepForm, StepKeeps
<1>2. Owing(s) \in SUBSET Heals /\ Owing(s)' \in SUBSET Heals
  BY DEF Owing
<1>3. Owing(s)' \subseteq Owing(s) \cup {h}
  BY <1>1 DEF Owing
<1>4. /\ Bad(s) \in Nat /\ Charged(s) \in Nat /\ Cardinality(Owing(s)) \in Nat
      /\ Cardinality(Owing(s)') \in Nat
  BY <1>2, CountersTyped, HealSets
<1>5. Bad(s) + Cardinality(Owing(s)) <= Charged(s)
  BY ChargeAll
<1> DEFINE owed == Owing(s)
           owes == Owing(s)'
<1>6. /\ owes \subseteq owed => Cardinality(owes) <= Cardinality(owed)
      /\ Cardinality(owes) <= Cardinality(owed) + 1
      /\ h \in owed /\ owes \subseteq owed \ {h} => Cardinality(owes) + 1 <= Cardinality(owed)
  BY <1>2, <1>3, FewerOwe
<1>7. CASE BurninRun(h)
  <2>1. Bad(s)' = Bad(s)
    BY <1>7 DEF BurninRun, Bad
  <2>2. h \in owes => s = heal[h].recipe
    BY <1>7, BurninOwes
  <2>3. CASE Charge(heal[h].recipe)
    <3>1. Charged(s)' = IF s = heal[h].recipe THEN Charged(s) + 1 ELSE Charged(s)
      BY <2>3, OneCharge
    <3>2. CASE s = heal[h].recipe
      BY <1>4, <1>5, <1>6, <2>1, <3>1, <3>2
    <3>3. CASE s # heal[h].recipe
      <4>1. owes \subseteq owed
        BY <1>3, <2>2, <3>3
      <4> QED
        BY <1>4, <1>5, <1>6, <2>1, <3>1, <3>3, <4>1
    <3> QED
      BY <3>2, <3>3
  <2>4. CASE UNCHANGED charges /\ \A r : h \in Owing(r)' => h \in Owing(r)
    <3>1. Charged(s)' = Charged(s)
      BY <2>4 DEF Charged
    <3>2. owes \subseteq owed
      BY <1>3, <2>4
    <3> QED
      BY <1>4, <1>5, <1>6, <2>1, <3>1, <3>2
  <2> QED
    BY <1>7, <2>3, <2>4, BurninOwes
<1>8. CASE ~BurninRun(h)
  <2>1. h \notin owes
    BY <1>8, Places DEF Owing, ChargeInv
  <2>2. owes \subseteq owed \ {h}
    BY <1>3, <2>1
  <2>3. Cardinality(owes) <= Cardinality(owed)
    BY <1>6, <2>2
  <2>4. CASE Stale(h)
    <3>1. BumpRecipe(heal[h].recipe, FALSE) /\ Charge(heal[h].recipe)
      BY <2>4 DEF Stale
    <3>2. Charged(s)' = IF s = heal[h].recipe THEN Charged(s) + 1 ELSE Charged(s)
      BY <3>1, OneCharge
    <3>b. /\ DOMAIN recipes' = DOMAIN recipes
          /\ \A r \in DOMAIN recipes : recipes'[r].bad =
                IF r = heal[h].recipe THEN recipes[r].bad + 1 ELSE recipes[r].bad
      BY <3>1, BumpedRow
    <3>3. \/ Bad(s)' = Bad(s)
          \/ Bad(s)' = Bad(s) + 1 /\ s = heal[h].recipe
      BY <3>b DEF Bad
    <3> QED
      BY <1>4, <1>5, <2>3, <3>2, <3>3
  <2>5. CASE Bump(h)
    <3> DEFINE stable == heal[h].report.stable
    <3>1. BumpRecipe(heal[h].recipe, stable) /\ stable \in BOOLEAN /\ UNCHANGED charges
      BY <2>5 DEF Bump, TypeOK, HealType
    <3>2. \/ Bad(s)' = Bad(s)
          \/ Bad(s)' = Bad(s) + 1 /\ s = heal[h].recipe /\ ~stable
      BY <3>1, BumpedRow DEF Bad
    <3>3. s = heal[h].recipe /\ ~stable => h \in owed
      BY <2>5 DEF Bump, ChargeInv, Owing, TypeOK, HealType
    <3>4. Charged(s)' = Charged(s)
      BY <3>1 DEF Charged
    <3> HIDE DEF stable
    <3> QED
      BY <1>4, <1>5, <1>6, <2>2, <2>3, <3>2, <3>3, <3>4
  <2>6. CASE Persist(h)
    <3> DEFINE parts == Parts(heal[h].failure)
    <3>1. Upsert(parts, heal[h].report.trial) /\ UNCHANGED charges
      BY <2>6 DEF Persist
    <3>2. /\ DOMAIN recipes' = DOMAIN recipes \cup {parts.sig}
          /\ \A r \in DOMAIN recipes : r # parts.sig => recipes'[r] = recipes[r]
          /\ recipes'[parts.sig].bad \in {0, Bad(parts.sig)}
      BY <3>1, StoredRow
    <3>3. Bad(s)' \in {0, Bad(s)}
      BY <3>2 DEF Bad
    <3>4. Charged(s)' = Charged(s)
      BY <3>1 DEF Charged
    <3> QED
      BY <1>4, <1>5, <2>3, <3>3, <3>4
  <2>7. CASE UNCHANGED <<recipes, charges>>
    <3>1. Bad(s)' = Bad(s) /\ Charged(s)' = Charged(s)
      BY <2>7 DEF Bad, Charged
    <3> QED
      BY <1>4, <1>5, <2>3, <3>1
  <2> QED
    BY <1>8, <2>4, <2>5, <2>6, <2>7, StoreSteps
<1> QED
  BY <1>7, <1>8

\* Every step keeps the failures on the rows paid for.
LEMMA ChargeInvStep ==
    ASSUME TypeOK, ChargeInv, OutcomesSeen, [Next]_vars PROVE ChargeInv'
<1>1. ASSUME NEW h \in Heals,
             \/ \E f \in Failures, o \in Overrides, b \in Backends, m \in Modes :
                   Start(h, f, o, b, m)
             \/ Go(h) \/ WriteFails(h) \/ Crash(h)
      PROVE  ChargeInv'
  <2>1. \A s : Bad(s)' + Cardinality(Owing(s)') <= Charged(s)'
    BY <1>1, ChargeStep
  <2>2. \A g \in Heals : g # h => heal'[g] = heal[g]
    BY <1>1, HealStepForm, StepKeeps
  <2>3. heal'[h].pc = "bump" =>
          heal'[h].used /\ ~heal'[h].fallback /\ heal'[h].report.stable = ~heal'[h].red
    BY <1>1, Places, BurninOwes
  <2>4. heal'[h].pc # "idle" => heal'[h].backend \in Backends
    <3>1. CASE BurninRun(h)
      BY <3>1, BurninOwes DEF BurninRun, ChargeInv
    <3>2. CASE ~BurninRun(h)
      BY <1>1, <3>2, Places DEF ChargeInv
    <3> QED
      BY <3>1, <3>2
  <2> QED
    BY <2>1, <2>2, <2>3, <2>4 DEF ChargeInv
<1>2. CASE Edit \/ UNCHANGED vars
  <2>1. UNCHANGED <<heal, recipes, charges>>
    BY <1>2 DEF Edit, vars
  <2> QED
    BY <2>1 DEF ChargeInv, Bad, Charged, Owing
<1> QED
  BY <1>1, <1>2 DEF Next

\* At first no row has a failure.
LEMMA ChargeInvInit == Init => ChargeInv
<1> SUFFICES ASSUME Init PROVE ChargeInv
  OBVIOUS
<1>1. \A s : Bad(s) = 0 /\ Charged(s) = 0 /\ Owing(s) = {}
  BY DEF Init, Bad, Charged, Owing, Idle
<1>2. \A s : Cardinality(Owing(s)) = 0
  BY <1>1, FS_EmptySet
<1> QED
  BY <1>1, <1>2 DEF ChargeInv, Init, Idle

\* When the sandboxes tell a run of the test from what never ran it, every failure
\* on a row was charged for a failed run or a source it does not fit.
THEOREM ChargeCorrect == ASSUME OutcomesSeen PROVE Spec => []ChargeInv
<1>1. TypeOK /\ ChargeInv /\ [Next]_vars => ChargeInv'
  BY ChargeInvStep
<1> QED
  BY <1>1, ChargeInvInit, TypeCorrect, PTL DEF Spec

\* No recipe is charged for a runner or a sandbox that was not there (docker.py,
\* subproc.py), however many heals use it at once.
THEOREM FairlyChargedCorrect == ASSUME OutcomesSeen PROVE Spec => []FairlyCharged
<1>1. TypeOK /\ ChargeInv => FairlyCharged
  <2> SUFFICES ASSUME TypeOK, ChargeInv, NEW s \in DOMAIN recipes
               PROVE  recipes[s].bad <= IF s \in DOMAIN charges THEN charges[s] ELSE 0
    BY DEF FairlyCharged
  <2>1. Bad(s) + Cardinality(Owing(s)) <= Charged(s)
    BY ChargeAll
  <2>2. Bad(s) \in Nat /\ Charged(s) \in Nat /\ Cardinality(Owing(s)) \in Nat
    BY CountersTyped, HealSets DEF Owing
  <2> QED
    BY <2>1, <2>2 DEF Bad, Charged
<1> QED
  BY <1>1, TypeCorrect, ChargeCorrect, PTL
=============================================================================
