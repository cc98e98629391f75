--------------------------- MODULE DetectiveProofs --------------------------
(* With one scanner, the reports of the scans keep the promise of FlakyNews, *)
(* for every history, every set of tunables and any number of crashes: each  *)
(* step of the detective is a step of FlakyNews or changes nothing there.    *)
(* The last part proves the invariants of TestHistory, the database that the *)
(* detective reads, for all its writers.                                     *)
EXTENDS Detective, FiniteSetTheorems, TLAPS

KnownCases(cases) == \A c \in cases : TestKey(c.test) \in Keys

\* Every key the detective handles is that of a test CI or the pipeline wrote.
KnownData ==
    /\ DOMAIN report = Reports
    /\ \A f \in Reports : report[f] # None => KnownCases(report[f].cases)
    /\ history = [runs |-> history.runs, next |-> history.next]
    /\ \A r \in history.runs : KnownCases(r.cases)
    /\ DOMAIN rows = Scanners
    /\ \A s \in Scanners : KnownCases(rows[s])

KnownVerdicts ==
    /\ DOMAIN new = Scanners /\ DOMAIN prev = Scanners
    /\ DOMAIN snapshot \subseteq Keys
    /\ \A s \in Scanners : DOMAIN new[s] \subseteq Keys /\ prev[s] \subseteq Keys

\* What a scan under way knows of the record, and what the reader knows of it.
ScanInv ==
    /\ DOMAIN pc = Scanners
    /\ \A s \in Scanners : pc[s] = "replace" => prev[s] = FlakyKeys(snapshot)
    /\ \A s \in Scanners : Pending(s) => snapshot = new[s]

ReaderInv == (told \ OnRecord) \cup (OnRecord \ told) \subseteq lost

NewsInv == KnownData /\ KnownVerdicts /\ ScanInv /\ ReaderInv

\* The rows a scan reads name no test that no run names.
LEMMA WindowedKnown ==
    ASSUME NEW runs, NEW cutoff, \A r \in runs : KnownCases(r.cases)
    PROVE  KnownCases(WindowedRows(runs, cutoff))
  BY DEF KnownCases, WindowedRows, Counted, LogicalRuns, InWindow

\* Verdicts are on keys of the rows they are computed from.
LEMMA VerdictsKnown ==
    ASSUME NEW read, NEW tunables, KnownCases(read)
    PROVE  DOMAIN Verdicts(read, tunables) \subseteq Keys
  BY DEF KnownCases, Verdicts

\* The keys a known verdict set calls flaky.
LEMMA FlakyKnown ==
    ASSUME NEW verdicts, DOMAIN verdicts \subseteq Keys
    PROVE  FlakyKeys(verdicts) \subseteq Keys
  BY DEF FlakyKeys

\* Nothing is on record before the first run.
LEMMA NothingKnown == DOMAIN NoVerdicts = {} /\ FlakyKeys(NoVerdicts) = {}
  BY DEF NoVerdicts, FlakyKeys

\* With one scanner the record is what that scanner left or found.
LEMMA RecordOf ==
    ASSUME NEW s, Scanners = {s}
    PROVE  OnRecord = IF Pending(s) THEN prev[s] ELSE FlakyKeys(snapshot)
  BY DEF OnRecord

\* The initial states are initial states of FlakyNews.
LEMMA NewsInit == ASSUME OneScanner PROVE Init => NewsInv /\ News!Init
<1> SUFFICES ASSUME Init PROVE NewsInv /\ News!Init
  OBVIOUS
<1>1. PICK s : Scanners = {s}
  BY DEF OneScanner
<1>2. ~Pending(s) /\ OnRecord = {}
  BY <1>1, RecordOf, NothingKnown DEF Init, Pending
<1>3. KnownData
  BY DEF Init, KnownData, KnownCases
<1>4. KnownVerdicts
  BY NothingKnown DEF Init, KnownVerdicts
<1>5. ScanInv
  BY DEF Init, ScanInv, Pending
<1>6. ReaderInv /\ News!Init
  BY <1>2 DEF Init, ReaderInv, News!Init
<1> QED
  BY <1>3, <1>4, <1>5, <1>6 DEF NewsInv

-----------------------------------------------------------------------------
(* Known keys stay known.                                                    *)

\* Data known before a step of CI, an ingest, a prune or a feed is known after it.
LEMMA AroundKnown == KnownData /\ Around => KnownData'
<1> SUFFICES ASSUME KnownData, Around PROVE KnownData'
  OBVIOUS
<1> USE DEF KnownData
<1>1. CASE Tick
  BY <1>1 DEF Tick, UnchangedScans, scans
<1>2. ASSUME NEW f \in Reports, CiWrites(f) PROVE KnownData'
  <2>1. PICK cases \in Contents :
           report' = [report EXCEPT ![f] = [stamp |-> now, cases |-> cases]]
    BY <1>2 DEF CiWrites
  <2>2. KnownCases(cases)
    BY DEF KnownCases, Keys
  <2> QED
    BY <1>2, <2>1, <2>2 DEF CiWrites, UnchangedScans, scans
<1>3. ASSUME NEW f \in Reports, Ingest(f) PROVE KnownData'
  <2>1. KnownCases(report[f].cases)
    BY <1>3 DEF Ingest
  <2>2. history'.runs = history.runs \cup
                          {Row(history.next, f, report[f].stamp, report[f].cases)}
    BY <1>3 DEF Ingest
  <2>3. \A r \in history'.runs : KnownCases(r.cases)
    BY <2>1, <2>2 DEF Row
  <2>4. history' = [runs |-> history'.runs, next |-> history'.next]
    BY <1>3 DEF Ingest
  <2> QED
    BY <1>3, <2>3, <2>4 DEF Ingest, UnchangedScans, scans
<1>4. ASSUME NEW cutoff \in 1..now, Prune(cutoff) PROVE KnownData'
  <2>1. history' = [runs |-> InWindow(history.runs, cutoff), next |-> history.next]
    BY <1>4 DEF Prune
  <2>2. history'.runs \subseteq history.runs
    BY <2>1 DEF InWindow
  <2> QED
    BY <1>4, <2>1, <2>2 DEF Prune, UnchangedScans, scans
<1>5. ASSUME NEW id \in Ids, Feed(id) PROVE KnownData'
  <2>1. KnownCases({FedCase(id)})
    BY DEF KnownCases, Keys
  <2>2. \A r \in history'.runs : r \in history.runs \/ r.cases = {FedCase(id)}
    BY <1>5 DEF Feed, Row
  <2>3. \A r \in history'.runs : KnownCases(r.cases)
    BY <2>1, <2>2
  <2>4. history' = [runs |-> history'.runs, next |-> history'.next]
    BY <1>5 DEF Feed
  <2> QED
    BY <1>5, <2>3, <2>4 DEF Feed, UnchangedScans, scans
<1> QED
  BY <1>1, <1>2, <1>3, <1>4, <1>5 DEF Around

\* Those steps leave the scans and what they told alone.
LEMMA AroundKeeps == Around => UNCHANGED <<snapshot, audit, scans, told, lost, crashes>>
  BY DEF Around, Tick, CiWrites, Ingest, Prune, Feed, UnchangedScans

\* Steps of a scan leave the data around alone, and its rows known.
LEMMA ScanKnown ==
    ASSUME NEW s \in Scanners, KnownData,
           (\E p \in Params : Read(s, p)) \/ Go(s) \/ Crash(s)
    PROVE  KnownData'
<1> USE DEF KnownData
<1>1. UNCHANGED <<report, history>>
  BY DEF Read, Go, Crash, KeepSnapshot, ReadPrevious, Replace, Record, Report, environment
<1>2. KnownCases({})
  BY DEF KnownCases
<1>3. ASSUME NEW p \in Params, Read(s, p) PROVE KnownData'
  BY <1>1, <1>3, WindowedKnown DEF Read
<1>4. CASE rows' = [rows EXCEPT ![s] = {}]
  BY <1>1, <1>2, <1>4
<1>5. CASE UNCHANGED rows
  BY <1>1, <1>5
<1> QED
  BY <1>3, <1>4, <1>5 DEF Go, Crash, KeepSnapshot, ReadPrevious, Replace, Record, Report, End

-----------------------------------------------------------------------------
(* The steps of a scan.                                                      *)

\* Every step of Detective is one of FlakyNews or changes nothing it sees.
LEMMA NewsStep ==
    ASSUME OneScanner PROVE NewsInv /\ [Next]_vars => NewsInv' /\ [News!Next]_(News!newsVars)
<1> SUFFICES ASSUME NewsInv, [Next]_vars
             PROVE  NewsInv' /\ [News!Next]_(News!newsVars)
  OBVIOUS
<1>0. PICK s : Scanners = {s}
  BY DEF OneScanner
<1> DEFINE Done == NewsInv' /\ [News!Next]_(News!newsVars)
<1>a. /\ OnRecord = IF Pending(s) THEN prev[s] ELSE FlakyKeys(snapshot)
      /\ OnRecord' = IF Pending(s)' THEN prev'[s] ELSE FlakyKeys(snapshot')
  BY <1>0 DEF OnRecord
<1>b. /\ DOMAIN pc = {s} /\ DOMAIN new = {s} /\ DOMAIN prev = {s} /\ DOMAIN rows = {s}
  BY <1>0 DEF NewsInv, ScanInv, KnownVerdicts, KnownData
<1>c. KnownVerdicts /\ ScanInv /\ ReaderInv
  BY DEF NewsInv
<1>1. CASE Around
  <2>1. UNCHANGED <<pc, rows, params, new, prev, snapshot, told, lost>>
    BY <1>1, AroundKeeps DEF scans
  <2>2. UNCHANGED OnRecord
    BY <1>a, <2>1 DEF Pending
  <2>3. KnownData'
    BY <1>1, AroundKnown DEF NewsInv
  <2>4. KnownVerdicts' /\ ScanInv' /\ ReaderInv'
    BY <1>c, <2>1, <2>2 DEF KnownVerdicts, ScanInv, ReaderInv, Pending
  <2>5. UNCHANGED News!newsVars
    BY <2>1, <2>2 DEF News!newsVars
  <2> QED
    BY <2>3, <2>4, <2>5 DEF NewsInv
<1>2. CASE (\E p \in Params : Read(s, p)) \/ Go(s) \/ Crash(s)
  <2>0. KnownData'
    BY <1>0, <1>2, ScanKnown DEF NewsInv
  <2>1. ASSUME NEW p \in Params, Read(s, p) PROVE Done
    <3>1. ~Pending(s) /\ ~Pending(s)' /\ UNCHANGED <<new, prev, snapshot, told, lost>>
      BY <2>1, <1>b DEF Read, Pending
    <3>2. pc' = [pc EXCEPT ![s] = "classify"]
      BY <2>1 DEF Read
    <3>3. UNCHANGED OnRecord
      BY <1>a, <3>1
    <3>4. KnownVerdicts' /\ ReaderInv'
      BY <1>c, <3>1, <3>3 DEF KnownVerdicts, ReaderInv
    <3>5. ScanInv'
      BY <1>0, <1>c, <3>1, <3>2 DEF ScanInv, Pending
    <3> QED
      BY <2>0, <3>1, <3>3, <3>4, <3>5 DEF NewsInv, News!newsVars
  <2>2. ASSUME End(s), KnownVerdicts' => ReaderInv',
               KnownVerdicts' => [News!Next]_(News!newsVars),
               DOMAIN snapshot' \subseteq Keys
        PROVE  Done
    <3>1. KnownVerdicts'
      BY <1>0, <1>b, <1>c, <2>2, NothingKnown DEF End, KnownVerdicts
    <3>2. ScanInv'
      BY <1>0, <1>b, <2>2 DEF End, ScanInv, Pending
    <3> QED
      BY <2>0, <2>2, <3>1, <3>2 DEF NewsInv
  <2>3. CASE KeepSnapshot(s)
    <3>1. ~Pending(s) /\ ~Pending(s)' /\ UNCHANGED <<snapshot, told, lost>>
      BY <2>3, <1>b DEF KeepSnapshot, End, Pending
    <3>2. UNCHANGED OnRecord
      BY <1>a, <3>1
    <3>3. ReaderInv' /\ UNCHANGED News!newsVars
      BY <1>c, <3>1, <3>2 DEF ReaderInv, News!newsVars
    <3>4. End(s) /\ DOMAIN snapshot' \subseteq Keys
      BY <1>c, <2>3, <3>1 DEF KeepSnapshot, KnownVerdicts
    <3> QED
      BY <2>2, <3>3, <3>4
  <2>4. CASE ReadPrevious(s)
    <3> DEFINE found == Verdicts(rows[s], params[s])
    <3>1. /\ ~Pending(s) /\ ~Pending(s)' /\ UNCHANGED <<snapshot, told, lost>>
          /\ pc' = [pc EXCEPT ![s] = "replace"]
          /\ new' = [new EXCEPT ![s] = found]
          /\ prev' = [prev EXCEPT ![s] = FlakyKeys(snapshot)]
      BY <2>4, <1>b DEF ReadPrevious, Pending
    <3>2. DOMAIN found \subseteq Keys
      BY <1>0, VerdictsKnown DEF NewsInv, KnownData
    <3>3. FlakyKeys(snapshot) \subseteq Keys
      BY <1>c, FlakyKnown DEF KnownVerdicts
    <3> HIDE DEF found
    <3>4. KnownVerdicts'
      BY <1>0, <1>b, <1>c, <3>1, <3>2, <3>3 DEF KnownVerdicts
    <3>5. ScanInv'
      BY <1>0, <1>b, <3>1 DEF ScanInv
    <3>6. UNCHANGED OnRecord
      BY <1>a, <3>1
    <3> QED
      BY <2>0, <1>c, <3>1, <3>4, <3>5, <3>6 DEF NewsInv, ReaderInv, News!newsVars
  <2>5. CASE Replace(s)
    <3>1. /\ ~Pending(s) /\ Pending(s)' /\ UNCHANGED <<new, prev, told, lost>>
          /\ pc[s] = "replace" /\ snapshot' = new[s]
          /\ pc' = [pc EXCEPT ![s] = "record"]
      BY <2>5, <1>b DEF Replace, Pending
    <3>2. prev[s] = FlakyKeys(snapshot)
      BY <1>0, <1>c, <3>1 DEF ScanInv
    <3>3. UNCHANGED OnRecord
      BY <1>a, <3>1, <3>2
    <3>4. KnownVerdicts'
      BY <1>0, <1>c, <3>1 DEF KnownVerdicts
    <3>5. ScanInv'
      BY <1>0, <1>b, <3>1 DEF ScanInv, Pending
    <3> QED
      BY <2>0, <1>c, <3>1, <3>3, <3>4, <3>5 DEF NewsInv, ReaderInv, News!newsVars
  <2>6. CASE Record(s)
    <3>1. /\ Pending(s) /\ Pending(s)' /\ UNCHANGED <<new, prev, snapshot, told, lost>>
          /\ pc' = [pc EXCEPT ![s] = "report"]
      BY <2>6, <1>b DEF Record, Pending
    <3>2. UNCHANGED OnRecord
      BY <1>a, <3>1
    <3>3. KnownVerdicts' /\ ReaderInv'
      BY <1>c, <3>1, <3>2 DEF KnownVerdicts, ReaderInv
    <3>4. ScanInv'
      BY <1>0, <1>b, <1>c, <3>1 DEF ScanInv, Pending
    <3> QED
      BY <2>0, <3>1, <3>2, <3>3, <3>4 DEF NewsInv, News!newsVars
  <2>7. ASSUME Pending(s), End(s), UNCHANGED snapshot
        PROVE  /\ OnRecord = prev[s] /\ OnRecord' = FlakyKeys(new[s])
               /\ FlakyKeys(new[s]) \in SUBSET Keys
               /\ DOMAIN snapshot' \subseteq Keys
    <3>1. ~Pending(s)'
      BY <1>b, <2>7 DEF End, Pending
    <3>2. snapshot = new[s]
      BY <1>0, <1>c, <2>7 DEF ScanInv
    <3> QED
      BY <1>a, <1>c, <2>7, <3>1, <3>2, FlakyKnown DEF KnownVerdicts
  <2>8. CASE Report(s)
    <3>1. /\ Pending(s) /\ End(s) /\ UNCHANGED snapshot
          /\ told' = (told \cup NewlyFlaky(s)) \ NewlyResolved(s)
          /\ lost' = lost \ (NewlyFlaky(s) \cup NewlyResolved(s))
      BY <2>8 DEF Report, Pending
    <3>2. News!Tell(FlakyKeys(new[s]))
      BY <2>7, <3>1 DEF News!Tell, News!Changed, News!New, News!Gone, NewlyFlaky, NewlyResolved
    <3>3. ReaderInv'
      BY <1>c, <2>7, <3>1 DEF ReaderInv, NewlyFlaky, NewlyResolved
    <3> QED
      BY <2>2, <2>7, <3>1, <3>2, <3>3 DEF News!Next
  <2>9. CASE Crash(s)
    <3>1. CASE Pending(s)
      <4>1. /\ End(s) /\ UNCHANGED <<snapshot, told>>
            /\ lost' = lost \cup (NewlyFlaky(s) \cup NewlyResolved(s))
        BY <2>9, <3>1 DEF Crash
      <4>2. News!Lose(FlakyKeys(new[s]))
        BY <2>7, <3>1, <4>1 DEF News!Lose, News!Changed, News!New, News!Gone, NewlyFlaky, NewlyResolved
      <4>3. ReaderInv'
        BY <1>c, <2>7, <3>1, <4>1 DEF ReaderInv, NewlyFlaky, NewlyResolved
      <4> QED
        BY <2>2, <2>7, <3>1, <4>1, <4>2, <4>3 DEF News!Next
    <3>2. CASE ~Pending(s)
      <4>1. End(s) /\ UNCHANGED <<snapshot, told, lost>>
        BY <2>9, <3>2 DEF Crash
      <4>2. ~Pending(s)'
        BY <1>b, <4>1 DEF End, Pending
      <4>3. UNCHANGED OnRecord
        BY <1>a, <3>2, <4>1, <4>2
      <4>4. ReaderInv' /\ UNCHANGED News!newsVars
        BY <1>c, <4>1, <4>3 DEF ReaderInv, News!newsVars
      <4>5. DOMAIN snapshot' \subseteq Keys
        BY <1>c, <4>1 DEF KnownVerdicts
      <4> QED
        BY <2>2, <4>1, <4>4, <4>5
    <3> QED
      BY <3>1, <3>2
  <2> QED
    BY <1>2, <2>1, <2>3, <2>4, <2>5, <2>6, <2>8, <2>9 DEF Go
<1>3. CASE UNCHANGED vars
  <2>1. UNCHANGED <<report, history, pc, rows, params, new, prev, snapshot, told, lost>>
    BY <1>3 DEF vars, scans
  <2>2. UNCHANGED OnRecord
    BY <1>a, <2>1 DEF Pending
  <2> QED
    BY <2>1, <2>2 DEF NewsInv, KnownData, KnownVerdicts, ScanInv, ReaderInv, Pending, News!newsVars
<1> QED
  BY <1>0, <1>1, <1>2, <1>3 DEF Next

-----------------------------------------------------------------------------
(* What FlakyNews says of its reader.                                        *)

ReaderErrsOnLost == told \subseteq OnRecord \cup lost /\ OnRecord \subseteq told \cup lost

\* Of the abstract specification: a reader of every report errs about no test but
\* those whose news a scan took with it when it died (scan.py stores before its
\* caller prints).
THEOREM ReaderKnowsAll == News!Spec => [](News!ReaderKnows /\ News!ReaderMisses)
<1>1. News!Init => ReaderErrsOnLost
  BY DEF News!Init, ReaderErrsOnLost
<1>2. ReaderErrsOnLost /\ [News!Next]_(News!newsVars) => ReaderErrsOnLost'
  <2> SUFFICES ASSUME ReaderErrsOnLost, [News!Next]_(News!newsVars) PROVE ReaderErrsOnLost'
    OBVIOUS
  <2>1. ASSUME NEW flaky \in SUBSET Keys, News!Tell(flaky) PROVE ReaderErrsOnLost'
    BY <2>1 DEF News!Tell, ReaderErrsOnLost, News!New, News!Gone, News!Changed
  <2>2. ASSUME NEW flaky \in SUBSET Keys, News!Lose(flaky) PROVE ReaderErrsOnLost'
    BY <2>2 DEF News!Lose, ReaderErrsOnLost, News!New, News!Gone, News!Changed
  <2>3. CASE UNCHANGED News!newsVars
    BY <2>3 DEF News!newsVars, ReaderErrsOnLost
  <2> QED
    BY <2>1, <2>2, <2>3 DEF News!Next
<1>3. ReaderErrsOnLost => News!ReaderKnows /\ News!ReaderMisses
  BY DEF ReaderErrsOnLost, News!ReaderKnows, News!ReaderMisses
<1> QED
  BY <1>1, <1>2, <1>3, PTL DEF News!Spec

-----------------------------------------------------------------------------
\* The reports of one scanner implement FlakyNews (reporting.flaky_changes
\* against the record read before the verdicts are replaced).
THEOREM ReportsImplementNews == OneScanner => (Spec => KeepsNews)
<1> SUFFICES ASSUME OneScanner PROVE Spec => KeepsNews
  OBVIOUS
<1>1. Init => NewsInv /\ News!Init
  BY NewsInit
<1>2. NewsInv /\ [Next]_vars => NewsInv' /\ [News!Next]_(News!newsVars)
  BY NewsStep
<1> QED
  BY <1>1, <1>2, PTL DEF Spec, KeepsNews, News!Spec

\* Between scans the reader of all reports errs only about tests whose news a
\* scan took with it when it died.
THEOREM ReaderKeepsUp == OneScanner => (Spec => []TellsAll)
<1> SUFFICES ASSUME OneScanner PROVE Spec => []TellsAll
  OBVIOUS
<1>1. NewsInv => TellsAll
  BY DEF NewsInv, ReaderInv, TellsAll, OnRecord
<1>2. Init => NewsInv
  BY NewsInit
<1>3. NewsInv /\ [Next]_vars => NewsInv'
  BY NewsStep
<1> QED
  BY <1>1, <1>2, <1>3, PTL DEF Spec
-----------------------------------------------------------------------------
(* Verdicts are never wiped.                                                 *)

\* A verdict has at least one counted run.
LEMMA VerdictsFounded == ASSUME NEW read, NEW tunables PROVE Founded(Verdicts(read, tunables))
  BY DEF Founded, Verdicts

\* Of the scans only ReadPrevious leads to a replacement, with verdicts that are some.
LEMMA FoundStep == FoundInv /\ [Next]_vars => FoundInv'
<1> SUFFICES ASSUME FoundInv, [Next]_vars PROVE FoundInv'
  OBVIOUS
<1>1. CASE Around
  <2>1. UNCHANGED <<pc, new>>
    BY <1>1, AroundKeeps DEF scans
  <2> QED
    BY <2>1 DEF FoundInv
<1>2. ASSUME NEW s \in Scanners, NEW p \in Params, Read(s, p) PROVE FoundInv'
  <2>1. pc' = [pc EXCEPT ![s] = "classify"] /\ new' = new
    BY <1>2 DEF Read
  <2> QED
    BY <2>1 DEF FoundInv
<1>3. ASSUME NEW s \in Scanners, ReadPrevious(s) PROVE FoundInv'
  <2> DEFINE found == Verdicts(rows[s], params[s])
  <2>1. /\ pc' = [pc EXCEPT ![s] = "replace"] /\ new' = [new EXCEPT ![s] = found]
        /\ DOMAIN found # {}
    BY <1>3 DEF ReadPrevious
  <2>2. Founded(found)
    BY VerdictsFounded
  <2> HIDE DEF found
  <2> QED
    BY <2>1, <2>2 DEF FoundInv
<1>4. ASSUME NEW s \in Scanners, Replace(s) \/ Record(s) PROVE FoundInv'
  <2>1. /\ pc' = [pc EXCEPT ![s] = "record"] \/ pc' = [pc EXCEPT ![s] = "report"]
        /\ new' = new
    BY <1>4 DEF Replace, Record
  <2> QED
    BY <2>1 DEF FoundInv
<1>5. ASSUME NEW s \in Scanners, KeepSnapshot(s) \/ Report(s) \/ Crash(s) PROVE FoundInv'
  <2>1. pc' = [pc EXCEPT ![s] = "idle"] /\ new' = [new EXCEPT ![s] = NoVerdicts]
    BY <1>5 DEF KeepSnapshot, Report, Crash, End
  <2> QED
    BY <2>1 DEF FoundInv
<1>6. CASE UNCHANGED vars
  BY <1>6 DEF vars, scans, FoundInv
<1> QED
  BY <1>1, <1>2, <1>3, <1>4, <1>5, <1>6 DEF Next, Go

\* Nothing but a replacement changes the verdicts on record.
LEMMA OnlyReplaced ==
    ASSUME [Next]_vars, snapshot' # snapshot
    PROVE  \E s \in Scanners : pc[s] = "replace" /\ snapshot' = new[s]
<1>1. CASE Around
  BY <1>1, AroundKeeps
<1>2. ASSUME NEW s \in Scanners, NEW p \in Params, Read(s, p) PROVE FALSE
  BY <1>2 DEF Read
<1>3. ASSUME NEW s \in Scanners, Go(s) \/ Crash(s) PROVE Replace(s)
  BY <1>3 DEF Go, KeepSnapshot, ReadPrevious, Record, Report, Crash
<1>4. ASSUME NEW s \in Scanners, Replace(s) PROVE pc[s] = "replace" /\ snapshot' = new[s]
  BY <1>4 DEF Replace
<1>5. ~ UNCHANGED vars
  BY DEF vars
<1> QED
  BY <1>1, <1>2, <1>3, <1>4, <1>5 DEF Next

\* Verdicts once on record are never wiped, however many processes scan, and
\* none stands on no run (the "do NOT overwrite" of scan.py).
THEOREM SnapshotSurvivesCorrect == Spec => SnapshotSurvives
<1>1. Init => FoundInv
  BY DEF Init, FoundInv
<1>2. FoundInv /\ [Next]_vars
        => [ /\ DOMAIN snapshot # {} => DOMAIN snapshot' # {}
             /\ \A k \in DOMAIN snapshot' : Runs(snapshot'[k]) > 0 ]_snapshot
  BY OnlyReplaced DEF FoundInv, Founded
<1> QED
  BY <1>1, <1>2, FoundStep, PTL DEF Spec, SnapshotSurvives

-----------------------------------------------------------------------------
(* The runs, and the content of each report that was ingested last.          *)

\* The records of new runs: numbered from the next number on, at the present time.
NewRuns(more, file, stamp, cases) ==
    \A d \in more :
        /\ d \in RunRecord /\ d.file = file /\ d.stamp = stamp /\ d.cases = cases
        /\ d.at = now /\ d.id >= history.next

\* A finite set of new runs, numbered apart, leaves the runs in order.
LEMMA AddedRuns ==
    ASSUME RunsInv, NEW more, NEW next \in Nat, NEW file, NEW stamp, NEW cases,
           NewRuns(more, file, stamp, cases), IsFiniteSet(more), next >= history.next,
           \A d \in more : d.id < next,
           \A d, e \in more : d.id = e.id => d = e,
           history' = [runs |-> history.runs \cup more, next |-> next],
           UNCHANGED <<now, report>>
    PROVE  RunsInv'
<1>1. history'.runs = history.runs \cup more /\ history'.next = next
  OBVIOUS
<1>2. IsFiniteSet(history'.runs)
  BY <1>1, FS_Union DEF RunsInv
<1>3. history'.runs \subseteq RunRecord
  BY <1>1 DEF RunsInv, NewRuns
<1>4. \A r \in history'.runs : r.id < history'.next /\ r.at <= now
  <2>1. ASSUME NEW r \in history.runs PROVE r.id < next /\ r.at <= now
    <3>1. r.id \in Nat /\ r.id < history.next /\ r.at <= now /\ history.next \in Nat
      BY DEF RunsInv, RunRecord
    <3> QED
      BY <3>1
  <2>2. ASSUME NEW r \in more PROVE r.id < next /\ r.at <= now
    BY DEF NewRuns, RunsInv
  <2> QED
    BY <1>1, <2>1, <2>2
<1>5. \A r, q \in history'.runs : r.id = q.id => r = q
  <2>1. \A r \in history.runs, d \in more : r.id # d.id
    <3> SUFFICES ASSUME NEW r \in history.runs, NEW d \in more PROVE r.id # d.id
      OBVIOUS
    <3>1. r.id \in Nat /\ d.id \in Nat /\ r.id < history.next /\ d.id >= history.next
      BY DEF RunsInv, RunRecord, NewRuns
    <3> QED
      BY <3>1 DEF RunsInv
  <2> QED
    BY <1>1, <2>1 DEF RunsInv
<1>6. history' = [runs |-> history'.runs, next |-> history'.next]
  BY <1>1
<1>7. history'.next \in Nat \ {0}
  BY <1>1 DEF RunsInv
<1> QED
  BY <1>2, <1>3, <1>4, <1>5, <1>6, <1>7 DEF RunsInv

\* The last of some new runs of one report becomes its newest, and those of the other
\* reports stay theirs.
LEMMA AddedTruth ==
    ASSUME RunsInv, TruthInv, NEW more, NEW last \in more, NEW file, NEW stamp, NEW cases,
           NewRuns(more, file, stamp, cases),
           \A d \in more : d # last => last.id > d.id,
           history'.runs = history.runs \cup more,
           truth' = Latest(file, stamp, cases)
    PROVE  TruthInv'
<1> DEFINE Entry(r) == [file |-> r.file, stamp |-> r.stamp, cases |-> r.cases]
           newest == {q \in history.runs : Newest(q)}
           Same(r) == r.file = file /\ r.stamp = stamp
<1>1. \A r \in history.runs : r.at \in Nat /\ r.id \in Nat /\ r.at <= now /\ r.id < history.next
  BY DEF RunsInv, RunRecord
<1>2. \A d \in more : d.at = now /\ d.id \in Nat /\ d.id >= history.next /\ Same(d)
                      /\ d.cases = cases
  BY DEF NewRuns, RunRecord
<1>3. now \in Nat /\ history.next \in Nat
  BY DEF RunsInv
<1>4. \A r \in history.runs, d \in more : IngestedAfter(d, r) /\ ~IngestedAfter(r, d) /\ r # d
  <2> SUFFICES ASSUME NEW r \in history.runs, NEW d \in more
               PROVE  IngestedAfter(d, r) /\ ~IngestedAfter(r, d) /\ r # d
    OBVIOUS
  <2>1. r.id < d.id /\ r.at <= d.at /\ r.at \in Nat /\ d.at \in Nat /\ r.id \in Nat /\ d.id \in Nat
    BY <1>1, <1>2, <1>3
  <2> QED
    BY <2>1 DEF IngestedAfter
<1>5. \A d \in more : d # last => IngestedAfter(last, d) /\ ~IngestedAfter(d, last)
  <2> SUFFICES ASSUME NEW d \in more, d # last
               PROVE  IngestedAfter(last, d) /\ ~IngestedAfter(d, last)
    OBVIOUS
  <2>1. last.id > d.id /\ last.at = now /\ d.at = now /\ last.id \in Nat /\ d.id \in Nat
    BY <1>2
  <2> QED
    BY <1>3, <2>1 DEF IngestedAfter
<1> DEFINE NewestNext(r) == \A q \in history.runs \cup more :
                q # r /\ q.file = r.file /\ q.stamp = r.stamp => IngestedAfter(r, q)
<1>6. {q \in history.runs \cup more : NewestNext(q)} = {q \in newest : ~Same(q)} \cup {last}
  <2>1. NewestNext(last)
    BY <1>4, <1>5
  <2>2. ASSUME NEW d \in more, NewestNext(d) PROVE d = last
    BY <1>2, <1>5, <2>2
  <2>3. ASSUME NEW r \in history.runs
        PROVE  NewestNext(r) <=> Newest(r) /\ ~Same(r)
    <3>1. ASSUME NewestNext(r) PROVE Newest(r) /\ ~Same(r)
      <4>1. Newest(r)
        BY <3>1 DEF Newest
      <4>2. ~Same(r)
        BY <1>2, <1>4, <3>1
      <4> QED
        BY <4>1, <4>2
    <3>2. ASSUME Newest(r), ~Same(r) PROVE NewestNext(r)
      BY <1>2, <3>2 DEF Newest
    <3> QED
      BY <3>1, <3>2
  <2> HIDE DEF NewestNext
  <2> QED
    BY <2>1, <2>2, <2>3
<1>7. truth = {Entry(r) : r \in newest}
  BY DEF TruthInv
<1>8. {t \in truth : t.file # file \/ t.stamp # stamp} = {Entry(r) : r \in {q \in newest : ~Same(q)}}
  BY <1>7
<1>9. Entry(last) = [file |-> file, stamp |-> stamp, cases |-> cases]
  BY <1>2
<1>10. truth' = {Entry(r) : r \in {q \in newest : ~Same(q)} \cup {last}}
  BY <1>8, <1>9 DEF Latest
<1>11. TruthInv' <=> truth' = {Entry(r) : r \in {q \in history'.runs : Newest(q)'}}
  BY DEF TruthInv
<1>12. \A q : Newest(q)' <=> NewestNext(q)
  BY DEF Newest
<1> QED
  BY <1>6, <1>10, <1>11, <1>12
\* The new run of a report, and those of a feedback, are new runs.
LEMMA RowIsNew ==
    ASSUME RunsInv, NEW n \in Nat, n >= history.next, NEW file \in FileNames,
           NEW stamp \in Nat, NEW cases \in Stored
    PROVE  LET d == Row(n, file, stamp, cases)
           IN  /\ d \in RunRecord /\ d.file = file /\ d.stamp = stamp /\ d.cases = cases
               /\ d.at = now /\ d.id = n
  BY DEF RunsInv, Row, RunRecord

\* An ingest adds one run to its report.
LEMMA IngestCounted ==
    ASSUME CountInv, NEW f \in Reports, Ingest(f)
    PROVE  CountInv'
<1> DEFINE doc == report[f]
           d == Row(history.next, f, doc.stamp, doc.cases)
<1>1. /\ doc.stamp \in Nat /\ doc.cases \in Stored /\ f \in FileNames
      /\ history.next \in Nat /\ history.next >= history.next /\ RunsInv /\ TruthInv
  BY DEF CountInv, RunsInv, Ingest, Stored, FileNames
<1>2. /\ history' = [runs |-> history.runs \cup {d}, next |-> history.next + 1]
      /\ truth' = Latest(f, doc.stamp, doc.cases) /\ UNCHANGED <<now, report>>
  BY DEF Ingest
<1>3. d \in RunRecord /\ d.file = f /\ d.stamp = doc.stamp /\ d.cases = doc.cases
      /\ d.at = now /\ d.id = history.next
  BY <1>1, RowIsNew
<1> HIDE DEF d, doc
<1>4. NewRuns({d}, f, doc.stamp, doc.cases)
  BY <1>1, <1>3 DEF NewRuns
<1>5. IsFiniteSet({d})
  BY FS_Singleton
<1>6. RunsInv'
  BY <1>1, <1>2, <1>3, <1>4, <1>5, AddedRuns
<1>7. TruthInv'
  BY <1>1, <1>2, <1>4, AddedTruth
<1> QED
  BY <1>6, <1>7 DEF CountInv

\* A feedback adds its runs to the report of the burn-ins.
LEMMA FeedCounted ==
    ASSUME CountInv, NEW id \in Ids, Feed(id)
    PROVE  CountInv'
<1> DEFINE cases == {FedCase(id)}
           numbers == history.next..(history.next + Repeats - 1)
           row(n) == Row(n, "synthetic", now, cases)
           more == {row(n) : n \in numbers}
           last == row(history.next + Repeats - 1)
<1>1. /\ now \in Nat /\ cases \in Stored /\ "synthetic" \in FileNames
      /\ history.next \in Nat /\ Repeats \in Nat \ {0} /\ RunsInv /\ TruthInv
  BY DetectiveAssumption DEF CountInv, RunsInv, Stored, FileNames
<1>2. /\ history' = [runs |-> history.runs \cup more, next |-> history.next + Repeats]
      /\ truth' = Latest("synthetic", now, cases) /\ UNCHANGED <<now, report>>
  BY DEF Feed
<1>3. \A n \in numbers :
         /\ row(n) \in RunRecord /\ row(n).file = "synthetic" /\ row(n).stamp = now
         /\ row(n).cases = cases /\ row(n).at = now /\ row(n).id = n
  <2> SUFFICES ASSUME NEW n \in numbers
               PROVE  /\ row(n) \in RunRecord /\ row(n).file = "synthetic" /\ row(n).stamp = now
                      /\ row(n).cases = cases /\ row(n).at = now /\ row(n).id = n
    OBVIOUS
  <2>1. n \in Nat /\ n >= history.next
    BY <1>1
  <2> HIDE DEF cases
  <2> QED
    BY <1>1, <2>1, RowIsNew
<1>4. IsFiniteSet(more)
  <2> DEFINE f == [n \in numbers |-> row(n)]
  <2>1. f \in Surjection(numbers, more)
    BY DEF Surjection
  <2>2. IsFiniteSet(numbers)
    BY <1>1, FS_Interval
  <2> HIDE DEF f, more, numbers
  <2> QED
    BY <2>1, <2>2, FS_Surjection
<1>5. /\ history.next + Repeats - 1 \in numbers
      /\ \A n \in numbers : n \in Nat /\ n >= history.next /\ n < history.next + Repeats
      /\ history.next + Repeats \in Nat /\ history.next + Repeats >= history.next
  BY <1>1
<1>6. last \in more /\ \A d \in more : \E n \in numbers : d = row(n)
  BY <1>5
<1> HIDE DEF cases, numbers, row, more
<1>7. /\ \A d \in more : d.id < history.next + Repeats
      /\ \A d \in more, e \in more : d.id = e.id => d = e
  BY <1>3, <1>5, <1>6
<1>8. \A d \in more : d # last => last.id > d.id
  <2> SUFFICES ASSUME NEW n \in numbers, row(n) # last PROVE last.id > row(n).id
    BY <1>6
  <2>1. n # history.next + Repeats - 1 /\ n \in Nat /\ n < history.next + Repeats
    BY <1>5
  <2>2. n < history.next + Repeats - 1
    BY <1>1, <2>1
  <2> QED
    BY <1>3, <1>5, <2>2
<1>9. NewRuns(more, "synthetic", now, cases)
  BY <1>3, <1>5, <1>6 DEF NewRuns
<1> HIDE DEF last
<1>10. RunsInv'
  BY <1>1, <1>2, <1>4, <1>5, <1>7, <1>9, AddedRuns
<1>11. TruthInv'
  BY <1>1, <1>2, <1>6, <1>8, <1>9, AddedTruth
<1> QED
  BY <1>10, <1>11 DEF CountInv

\* The time of a run of the model's is the stamp of its report.
LEMMA StampIsTime ==
    ASSUME NEW r \in RunRecord
    PROVE  EffectiveTime(r) = r.stamp /\ r.stamp \in Nat /\ r.at \in Nat /\ r.id \in Nat
  BY DetectiveAssumption DEF RunRecord, EffectiveTime

\* A prune takes whole reports.
LEMMA PruneCounted ==
    ASSUME CountInv, NEW cutoff \in Int, Prune(cutoff)
    PROVE  CountInv'
<1> DEFINE kept == {r \in history.runs : r.stamp >= cutoff}
<1>1. RunsInv /\ TruthInv
  BY DEF CountInv
<1>2. \A r \in history.runs : EffectiveTime(r) = r.stamp /\ r.stamp \in Nat
  BY <1>1, StampIsTime DEF RunsInv
<1>3. InWindow(history.runs, cutoff) = kept
  BY <1>2 DEF InWindow
<1>4. /\ history' = [runs |-> kept, next |-> history.next]
      /\ truth' = {t \in truth : t.stamp >= cutoff} /\ UNCHANGED <<now, report>>
  BY <1>1, <1>3 DEF Prune, RunsInv
<1>5. kept \in SUBSET history.runs
  OBVIOUS
<1>6. IsFiniteSet(kept)
  BY <1>1, <1>5, FS_Subset DEF RunsInv
<1>7. RunsInv'
  BY <1>1, <1>4, <1>5, <1>6 DEF RunsInv
<1>8. TruthInv'
  <2> DEFINE Entry(r) == [file |-> r.file, stamp |-> r.stamp, cases |-> r.cases]
             newest == {q \in history.runs : Newest(q)}
             NewestNext(r) == \A q \in kept :
                 q # r /\ q.file = r.file /\ q.stamp = r.stamp => IngestedAfter(r, q)
  <2>1. \A r \in kept : NewestNext(r) <=> Newest(r)
    BY DEF Newest
  <2>2. truth = {Entry(r) : r \in newest}
    BY <1>1 DEF TruthInv
  <2>3. {t \in truth : t.stamp >= cutoff} = {Entry(r) : r \in {q \in newest : q.stamp >= cutoff}}
    BY <2>2
  <2>4. {q \in kept : NewestNext(q)} = {q \in newest : q.stamp >= cutoff}
    BY <2>1
  <2>5. truth' = {Entry(r) : r \in {q \in kept : NewestNext(q)}}
    BY <1>4, <2>3, <2>4
  <2>6. history'.runs = kept
    BY <1>4
  <2>7. \A q : Newest(q)' <=> NewestNext(q)
    BY <2>6 DEF Newest
  <2>8. TruthInv' <=> truth' = {Entry(r) : r \in {q \in history'.runs : Newest(q)'}}
    BY DEF TruthInv
  <2> QED
    BY <2>5, <2>6, <2>7, <2>8
<1> QED
  BY <1>7, <1>8 DEF CountInv

\* Every step keeps the runs in order and the truth theirs.
LEMMA CountStep == CountInv /\ [Next]_vars => CountInv'
<1> SUFFICES ASSUME CountInv, [Next]_vars PROVE CountInv'
  OBVIOUS
<1>1. CASE UNCHANGED environment
  BY <1>1 DEF environment, CountInv, RunsInv, TruthInv, Newest
<1>2. CASE Tick
  <2>1. now' = now + 1 /\ UNCHANGED <<report, history, truth>>
    BY <1>2 DEF Tick
  <2>2. \A r \in history.runs : r.at <= now + 1
    <3> SUFFICES ASSUME NEW r \in history.runs PROVE r.at <= now + 1
      OBVIOUS
    <3>1. r.at \in Nat /\ r.at <= now /\ now \in Nat
      BY DEF CountInv, RunsInv, RunRecord
    <3> QED
      BY <3>1
  <2>3. now + 1 \in 1..MaxTime
    BY <1>2, DetectiveAssumption DEF Tick, CountInv, RunsInv
  <2>4. RunsInv'
    BY <2>1, <2>2, <2>3 DEF CountInv, RunsInv
  <2>5. TruthInv'
    BY <2>1 DEF CountInv, TruthInv, Newest
  <2> QED
    BY <2>4, <2>5 DEF CountInv
<1>3. ASSUME NEW f \in Reports, CiWrites(f) PROVE CountInv'
  <2>1. PICK cases \in Contents :
           report' = [report EXCEPT ![f] = [stamp |-> now, cases |-> cases]]
    BY <1>3 DEF CiWrites
  <2>2. UNCHANGED <<now, history, truth>>
    BY <1>3 DEF CiWrites
  <2>3. RunsInv'
    BY <2>1, <2>2 DEF CountInv, RunsInv
  <2>4. TruthInv'
    BY <2>2 DEF CountInv, TruthInv, Newest
  <2> QED
    BY <2>3, <2>4 DEF CountInv
<1>4. ASSUME NEW f \in Reports, Ingest(f) PROVE CountInv'
  BY <1>4, IngestCounted
<1>5. ASSUME NEW cutoff \in 1..now, Prune(cutoff) PROVE CountInv'
  <2>1. cutoff \in Int
    BY DEF CountInv, RunsInv
  <2> QED
    BY <1>5, <2>1, PruneCounted
<1>6. ASSUME NEW id \in Ids, Feed(id) PROVE CountInv'
  BY <1>6, FeedCounted
<1>7. ASSUME NEW s \in Scanners, (\E p \in Params : Read(s, p)) \/ Go(s) \/ Crash(s)
      PROVE  UNCHANGED environment
  BY <1>7 DEF Read, Go, Crash, KeepSnapshot, ReadPrevious, Replace, Record, Report
<1>8. CASE UNCHANGED vars
  BY <1>1, <1>8 DEF vars, environment
<1> QED
  BY <1>1, <1>2, <1>3, <1>4, <1>5, <1>6, <1>7, <1>8 DEF Next, Around

\* An empty history is in order.
LEMMA CountInit == Init => CountInv
<1> SUFFICES ASSUME Init PROVE CountInv
  OBVIOUS
<1>1. history = [runs |-> {}, next |-> 1] /\ history.runs = {} /\ history.next = 1
  BY DEF Init
<1>2. RunsInv
  BY <1>1, FS_EmptySet, DetectiveAssumption DEF Init, RunsInv
<1>3. TruthInv
  BY <1>1 DEF Init, TruthInv
<1> QED
  BY <1>2, <1>3 DEF CountInv
-----------------------------------------------------------------------------
(* The query for old SQLite builds.                                          *)

\* The order of ingest is a strict total order on runs with different numbers.
LEMMA IngestOrder ==
    ASSUME NEW r \in RunRecord, NEW q \in RunRecord
    PROVE  /\ ~IngestedAfter(r, r)
           /\ IngestedAfter(r, q) => ~IngestedAfter(q, r)
           /\ r.id # q.id => IngestedAfter(r, q) \/ IngestedAfter(q, r)
           /\ \A s \in RunRecord :
                 IngestedAfter(r, q) /\ IngestedAfter(q, s) => IngestedAfter(r, s)
<1>1. /\ r.at \in Nat /\ r.id \in Nat /\ q.at \in Nat /\ q.id \in Nat
      /\ \A s \in RunRecord : s.at \in Nat /\ s.id \in Nat
  BY DEF RunRecord
<1> QED
  BY <1>1 DEF IngestedAfter

Sorted(s, V) ==
    /\ s \in [1..Cardinality(V) -> V]
    /\ \A i, j \in DOMAIN s : i < j => IngestedAfter(s[i], s[j])

\* A finite set of runs has its members in order: each is at the place that the
\* number of those ingested after it leaves it.
LEMMA SortedExists ==
    ASSUME NEW V \in SUBSET RunRecord, IsFiniteSet(V), \A r, q \in V : r.id = q.id => r = q
    PROVE  \E s : Sorted(s, V)
<1> DEFINE n == Cardinality(V)
           Above(r) == {q \in V : IngestedAfter(q, r)}
           rank == [r \in V |-> Cardinality(Above(r)) + 1]
<1>1. n \in Nat
  BY FS_CardinalityType
<1>2. ASSUME NEW r \in V
      PROVE  IsFiniteSet(Above(r)) /\ Cardinality(Above(r)) \in Nat /\ rank[r] \in 1..n
  <2>1. Above(r) \in SUBSET V /\ r \notin Above(r)
    BY IngestOrder
  <2>2. IsFiniteSet(Above(r)) /\ Cardinality(Above(r)) <= n /\ (n = Cardinality(Above(r)) => V = Above(r))
    BY <2>1, FS_Subset
  <2>3. Cardinality(Above(r)) \in Nat
    BY <2>2, FS_CardinalityType
  <2>4. Cardinality(Above(r)) # n
    BY <2>1, <2>2
  <2> HIDE DEF Above
  <2> QED
    BY <1>1, <2>2, <2>3, <2>4
<1>3. ASSUME NEW r \in V, NEW q \in V, IngestedAfter(q, r)
      PROVE  rank[q] < rank[r]
  <2>1. Above(q) \in SUBSET Above(r) /\ q \in Above(r) /\ q \notin Above(q)
    BY <1>3, IngestOrder
  <2>2. /\ Cardinality(Above(q)) <= Cardinality(Above(r))
        /\ Cardinality(Above(r)) = Cardinality(Above(q)) => Above(r) = Above(q)
    BY <1>2, <2>1, FS_Subset
  <2>3. Cardinality(Above(q)) # Cardinality(Above(r))
    BY <2>1, <2>2
  <2>4. Cardinality(Above(q)) \in Nat /\ Cardinality(Above(r)) \in Nat
    BY <1>2
  <2> HIDE DEF Above
  <2> QED
    BY <2>2, <2>3, <2>4
<1>4. \A r, q \in V : r # q => IngestedAfter(r, q) \/ IngestedAfter(q, r)
  BY IngestOrder
<1> HIDE DEF Above
<1>5. rank \in [V -> 1..n]
  BY <1>2
<1> HIDE DEF rank
<1>6. \A r, q \in V : r # q => rank[r] # rank[q]
  <2> SUFFICES ASSUME NEW r \in V, NEW q \in V, r # q PROVE rank[r] # rank[q]
    OBVIOUS
  <2>1. rank[r] < rank[q] \/ rank[q] < rank[r]
    BY <1>3, <1>4
  <2>2. rank[r] \in Nat /\ rank[q] \in Nat
    BY <1>1, <1>5
  <2> QED
    BY <2>1, <2>2
<1>7. rank \in Injection(V, 1..n)
  BY <1>5, <1>6 DEF Injection, IsInjective
<1>8. IsFiniteSet(1..n) /\ Cardinality(1..n) = n
  <2>1. IsFiniteSet(1..n) /\ Cardinality(1..n) = IF 1 > n THEN 0 ELSE n - 1 + 1
    BY <1>1, FS_Interval
  <2> QED
    BY <1>1, <2>1
<1>9. rank \in Surjection(V, 1..n)
  BY <1>7, <1>8, FS_Injection
<1>10. \A i \in 1..n : \E r \in V : rank[r] = i
  BY <1>9 DEF Surjection
<1> DEFINE s == [i \in 1..n |-> CHOOSE r \in V : rank[r] = i]
<1>11. \A i \in 1..n : s[i] \in V /\ rank[s[i]] = i
  BY <1>10
<1>12. s \in [1..n -> V] /\ DOMAIN s = 1..n
  BY <1>11
<1> HIDE DEF s
<1>13. ASSUME NEW i \in 1..n, NEW j \in 1..n, i < j PROVE IngestedAfter(s[i], s[j])
  <2>1. s[i] # s[j]
    BY <1>11, <1>13
  <2>2. CASE IngestedAfter(s[j], s[i])
    <3>1. rank[s[j]] < rank[s[i]]
      BY <1>3, <1>11, <2>2
    <3>2. j < i
      BY <1>11, <3>1
    <3> QED
      BY <1>1, <1>13, <3>2
  <2> QED
    BY <1>4, <1>11, <2>1, <2>2
<1>14. Sorted(s, V)
  BY <1>12, <1>13 DEF Sorted
<1> QED
  BY <1>14

\* Whatever order of that kind is taken, every run is in it.
LEMMA SortedCovers ==
    ASSUME NEW V \in SUBSET RunRecord, IsFiniteSet(V), NEW s, Sorted(s, V)
    PROVE  DOMAIN s = 1..Cardinality(V) /\ \A r \in V : \E i \in DOMAIN s : s[i] = r
<1> DEFINE n == Cardinality(V)
<1>1. n \in Nat
  BY FS_CardinalityType
<1>2. s \in [1..n -> V] /\ DOMAIN s = 1..n
  BY DEF Sorted
<1>3. \A i, j \in 1..n : i # j => s[i] # s[j]
  <2> SUFFICES ASSUME NEW i \in 1..n, NEW j \in 1..n, i # j PROVE s[i] # s[j]
    OBVIOUS
  <2>1. i < j \/ j < i
    BY <1>1
  <2>2. IngestedAfter(s[i], s[j]) \/ IngestedAfter(s[j], s[i])
    BY <1>2, <2>1 DEF Sorted
  <2>3. s[i] \in RunRecord
    BY <1>2
  <2> QED
    BY <2>2, <2>3, IngestOrder
<1>4. s \in Injection(1..n, V)
  BY <1>2, <1>3 DEF Injection, IsInjective
<1>5. IsFiniteSet(1..n) /\ Cardinality(1..n) = n
  <2>1. IsFiniteSet(1..n) /\ Cardinality(1..n) = IF 1 > n THEN 0 ELSE n - 1 + 1
    BY <1>1, FS_Interval
  <2> QED
    BY <1>1, <2>1
<1>6. s \in Surjection(1..n, V)
  BY <1>4, <1>5, FS_Injection
<1> QED
  BY <1>2, <1>6 DEF Surjection

\* Going down the sorted rows and keeping the first of each key keeps the runs that
\* the window-function query keeps.
LEMMA FallbackAgrees ==
    ASSUME RunsInv, NEW cutoff
    PROVE  Survivors(history.runs, cutoff) = LogicalRuns(history.runs, cutoff)
<1> DEFINE V == InWindow(history.runs, cutoff)
           s == SortedRuns(V)
<1>1. V \in SUBSET history.runs
  BY DEF InWindow
<1>2. V \in SUBSET RunRecord /\ IsFiniteSet(V) /\ \A r, q \in V : r.id = q.id => r = q
  BY <1>1, FS_Subset DEF RunsInv
<1> HIDE DEF V
<1>3. Sorted(s, V)
  <2>1. \E t : Sorted(t, V)
    BY <1>2, SortedExists
  <2>2. SortedRuns(V) = CHOOSE t \in [1..Cardinality(V) -> V] :
            \A i, j \in DOMAIN t : i < j => IngestedAfter(t[i], t[j])
    BY DEF SortedRuns
  <2> QED
    BY <2>1, <2>2 DEF Sorted
<1> HIDE DEF s
<1>4. DOMAIN s = 1..Cardinality(V) /\ \A r \in V : \E i \in DOMAIN s : s[i] = r
  BY <1>2, <1>3, SortedCovers
<1>5. Cardinality(V) \in Nat /\ \A i \in DOMAIN s : s[i] \in V /\ i \in Nat
  BY <1>2, <1>3, <1>4, FS_CardinalityType DEF Sorted
<1> DEFINE first(i) == \A h \in 1..(i - 1) : LogicalKey(s[h]) # LogicalKey(s[i])
           latest(r) == \A q \in V : q # r /\ LogicalKey(q) = LogicalKey(r) => IngestedAfter(r, q)
<1>6. ASSUME NEW i \in DOMAIN s PROVE first(i) <=> latest(s[i])
  <2>1. ASSUME first(i), NEW q \in V, q # s[i], LogicalKey(q) = LogicalKey(s[i])
        PROVE  IngestedAfter(s[i], q)
    <3>1. PICK j \in DOMAIN s : s[j] = q
      BY <1>4
    <3>2. j \notin 1..(i - 1) /\ j # i
      BY <2>1, <3>1
    <3>3. i < j
      BY <1>4, <1>5, <3>2
    <3> QED
      BY <1>3, <3>1, <3>3 DEF Sorted
  <2>2. ASSUME latest(s[i]), NEW h \in 1..(i - 1), LogicalKey(s[h]) = LogicalKey(s[i])
        PROVE  FALSE
    <3>1. h \in DOMAIN s /\ h < i
      BY <1>4, <1>5
    <3>2. IngestedAfter(s[h], s[i])
      BY <1>3, <3>1 DEF Sorted
    <3>3. s[h] \in V /\ s[i] \in V /\ s[h] \in RunRecord /\ s[i] \in RunRecord
      BY <1>2, <1>5, <3>1
    <3>4. s[h] # s[i]
      BY <3>2, <3>3, IngestOrder
    <3>5. IngestedAfter(s[i], s[h])
      BY <2>2, <3>3, <3>4
    <3> QED
      BY <3>2, <3>3, <3>5, IngestOrder
  <2> QED
    BY <2>1, <2>2
<1>7. Survivors(history.runs, cutoff) = {s[i] : i \in {j \in DOMAIN s : first(j)}}
  BY DEF Survivors, s, V
<1>8. LogicalRuns(history.runs, cutoff) = {r \in V : latest(r)}
  BY DEF LogicalRuns, V
<1> HIDE DEF first, latest
<1> QED
  BY <1>4, <1>5, <1>6, <1>7, <1>8
-----------------------------------------------------------------------------
(* Each report counts once.                                                  *)

\* The runs a scan counts are the newest of the reports in its window.
LEMMA CountedRuns ==
    ASSUME RunsInv, NEW cutoff \in Int
    PROVE  LogicalRuns(history.runs, cutoff)
             = {r \in history.runs : r.stamp >= cutoff /\ Newest(r)}
<1>1. \A r \in history.runs : EffectiveTime(r) = r.stamp
  BY StampIsTime DEF RunsInv
<1>2. InWindow(history.runs, cutoff) = {r \in history.runs : r.stamp >= cutoff}
  BY <1>1 DEF InWindow
<1>3. \A r, q \in history.runs :
         LogicalKey(q) = LogicalKey(r) <=> q.file = r.file /\ q.stamp = r.stamp
  BY <1>1 DEF LogicalKey
<1>4. ASSUME NEW r \in history.runs, r.stamp >= cutoff
      PROVE  Newest(r) <=> \A q \in InWindow(history.runs, cutoff) :
                               q # r /\ LogicalKey(q) = LogicalKey(r) => IngestedAfter(r, q)
  BY <1>2, <1>3, <1>4 DEF Newest
<1> QED
  BY <1>2, <1>4 DEF LogicalRuns

\* The cases of the runs are finitely many, and records of a test and a status.
LEMMA FiniteCases ==
    ASSUME RunsInv
    PROVE  /\ IsFiniteSet(UNION {r.cases : r \in history.runs})
           /\ \A r \in history.runs : \A c \in r.cases : c = [test |-> c.test, status |-> c.status]
<1> DEFINE S == {r.cases : r \in history.runs}
           f == [r \in history.runs |-> r.cases]
<1>1. \A r \in history.runs : r.cases \in Stored
  BY DEF RunsInv, RunRecord
<1>2. \A cases \in Stored :
         IsFiniteSet(cases) /\ \A c \in cases : c = [test |-> c.test, status |-> c.status]
  <2>1. ASSUME NEW id \in Ids
        PROVE  /\ IsFiniteSet({FedCase(id)})
               /\ \A c \in {FedCase(id)} : c = [test |-> c.test, status |-> c.status]
    <3>1. FedCase(id) = [test |-> FedCase(id).test, status |-> FedCase(id).status]
      BY DEF FedCase
    <3>2. IsFiniteSet({FedCase(id)})
      BY FS_Singleton
    <3> QED
      BY <3>1, <3>2
  <2> QED
    BY <2>1, DetectiveAssumption DEF Stored
<1>3. f \in Surjection(history.runs, S)
  BY DEF Surjection
<1>4. IsFiniteSet(history.runs)
  BY DEF RunsInv
<1>5. \A T \in S : IsFiniteSet(T)
  BY <1>1, <1>2
<1> HIDE DEF f, S
<1>6. IsFiniteSet(S)
  BY <1>3, <1>4, FS_Surjection
<1>7. IsFiniteSet(UNION S)
  BY <1>5, <1>6, FS_UNION
<1> QED
  BY <1>1, <1>2, <1>7 DEF S

\* The rows a scan counts for a test are as many as the cases of it in the contents
\* last ingested: both stand for the cases of the newest runs.
LEMMA RowsAreCases ==
    ASSUME CountInv, NEW cutoff \in Int, NEW key, NEW statuses, "skipped" \notin statuses
    PROVE  LET counted == {row \in WindowedRows(history.runs, cutoff) :
                              TestKey(row.test) = key /\ row.status \in statuses}
           IN  /\ Cardinality(counted) = Weighs(key, statuses, cutoff)
               /\ Cardinality(counted) \in Nat
<1> DEFINE counted == {row \in WindowedRows(history.runs, cutoff) :
                          TestKey(row.test) = key /\ row.status \in statuses}
           all == UNION {r.cases : r \in history.runs}
           newest == LogicalRuns(history.runs, cutoff)
           pairs == {x \in history.runs \X all :
                        /\ x[1] \in newest /\ x[2] \in x[1].cases
                        /\ TestKey(x[2].test) = key /\ x[2].status \in statuses}
           weighed == UNION {{<<t.file, t.stamp, c>> : c \in CountedContent(t, key, statuses)} :
                                t \in {u \in truth : u.stamp >= cutoff}}
           row(r, c) == [run |-> r.id, eff |-> EffectiveTime(r), test |-> c.test,
                         status |-> c.status]
<1>1. RunsInv /\ TruthInv
  BY DEF CountInv
<1>2. newest = {r \in history.runs : r.stamp >= cutoff /\ Newest(r)}
  BY <1>1, CountedRuns
<1>3. /\ IsFiniteSet(all)
      /\ \A r \in history.runs : \A c \in r.cases : c = [test |-> c.test, status |-> c.status]
  BY <1>1, FiniteCases
<1>4. IsFiniteSet(pairs)
  <2>1. IsFiniteSet(history.runs \X all)
    BY <1>1, <1>3, FS_Product DEF RunsInv
  <2>2. pairs \in SUBSET (history.runs \X all)
    OBVIOUS
  <2> QED
    BY <2>1, <2>2, FS_Subset
<1>5. \A x \in pairs : /\ x[1] \in newest /\ x[1] \in history.runs /\ x[2] \in x[1].cases
                       /\ TestKey(x[2].test) = key /\ x[2].status \in statuses
                       /\ x = <<x[1], x[2]>>
  OBVIOUS
<1>6. \A r \in newest : \A c \in r.cases :
         TestKey(c.test) = key /\ c.status \in statuses => <<r, c>> \in pairs
  BY <1>2
<1> HIDE DEF pairs, all, newest
<1>7. ExistsBijection(pairs, counted)
  <2> DEFINE f == [x \in pairs |-> row(x[1], x[2])]
  <2>1. \A w : w \in WindowedRows(history.runs, cutoff) <=>
           \E r \in newest : \E c \in r.cases : c.status # "skipped" /\ w = row(r, c)
    BY DEF WindowedRows, Counted, newest
  <2>2. ASSUME NEW x \in pairs PROVE f[x] \in counted
    <3>1. x[2].status # "skipped"
      BY <1>5
    <3>2. row(x[1], x[2]) \in WindowedRows(history.runs, cutoff)
      BY <1>5, <2>1, <3>1
    <3> QED
      BY <1>5, <3>2
  <2>3. ASSUME NEW w \in counted PROVE \E x \in pairs : f[x] = w
    <3>1. PICK r \in newest : \E c \in r.cases : c.status # "skipped" /\ w = row(r, c)
      BY <2>1
    <3>2. PICK c \in r.cases : w = row(r, c)
      BY <3>1
    <3>3. <<r, c>> \in pairs
      BY <1>6, <3>2
    <3>4. f[<<r, c>>] = w
      BY <3>2, <3>3
    <3> QED
      BY <3>3, <3>4
  <2>4. ASSUME NEW x \in pairs, NEW y \in pairs, f[x] = f[y] PROVE x = y
    <3>1. x[1].id = y[1].id /\ x[2].test = y[2].test /\ x[2].status = y[2].status
      BY <2>4
    <3>2. x[1] = y[1]
      BY <1>1, <1>5, <3>1 DEF RunsInv
    <3>3. x[2] = y[2]
      BY <1>3, <1>5, <3>1
    <3> QED
      BY <1>5, <3>2, <3>3
  <2>5. f \in [pairs -> counted]
    BY <2>2
  <2> HIDE DEF f, counted
  <2>6. f \in Bijection(pairs, counted)
    BY <2>3, <2>4, <2>5 DEF Bijection, Injection, Surjection, IsInjective
  <2> QED
    BY <2>6 DEF ExistsBijection
<1>8. ExistsBijection(pairs, weighed)
  <2> DEFINE g == [x \in pairs |-> <<x[1].file, x[1].stamp, x[2]>>]
             Entry(r) == [file |-> r.file, stamp |-> r.stamp, cases |-> r.cases]
  <2>1. \A t : t \in {u \in truth : u.stamp >= cutoff} <=> \E r \in newest : t = Entry(r)
    BY <1>1, <1>2 DEF TruthInv
  <2>2. \A w : w \in weighed <=>
           \E r \in newest : \E c \in r.cases :
              TestKey(c.test) = key /\ c.status \in statuses /\ w = <<r.file, r.stamp, c>>
    <3>1. \A w : w \in weighed <=>
             \E t \in {u \in truth : u.stamp >= cutoff} : \E c \in t.cases :
                TestKey(c.test) = key /\ c.status \in statuses /\ w = <<t.file, t.stamp, c>>
      BY DEF CountedContent
    <3>2. \A r : Entry(r).file = r.file /\ Entry(r).stamp = r.stamp /\ Entry(r).cases = r.cases
      OBVIOUS
    <3> HIDE DEF Entry, weighed
    <3> QED
      BY <2>1, <3>1, <3>2
  <2> HIDE DEF weighed
  <2>3. ASSUME NEW x \in pairs PROVE g[x] \in weighed
    BY <1>5, <2>2
  <2>4. ASSUME NEW w \in weighed PROVE \E x \in pairs : g[x] = w
    <3>1. PICK r \in newest : \E c \in r.cases :
             TestKey(c.test) = key /\ c.status \in statuses /\ w = <<r.file, r.stamp, c>>
      BY <2>2
    <3>2. PICK c \in r.cases :
             TestKey(c.test) = key /\ c.status \in statuses /\ w = <<r.file, r.stamp, c>>
      BY <3>1
    <3>3. <<r, c>> \in pairs
      BY <1>6, <3>2
    <3>4. g[<<r, c>>] = w
      BY <3>2, <3>3
    <3> QED
      BY <3>3, <3>4
  <2>5. ASSUME NEW x \in pairs, NEW y \in pairs, g[x] = g[y] PROVE x = y
    <3>1. x[1].file = y[1].file /\ x[1].stamp = y[1].stamp /\ x[2] = y[2]
      BY <2>5
    <3>2. /\ x[1] \in history.runs /\ y[1] \in history.runs
          /\ Newest(x[1]) /\ Newest(y[1])
      BY <1>2, <1>5
    <3>3. x[1] \in RunRecord /\ y[1] \in RunRecord
      BY <1>1, <3>2 DEF RunsInv
    <3>4. x[1] = y[1]
      BY <3>1, <3>2, <3>3, IngestOrder DEF Newest
    <3> QED
      BY <1>5, <3>1, <3>4
  <2>6. g \in [pairs -> weighed]
    BY <2>3
  <2> HIDE DEF g
  <2>7. g \in Bijection(pairs, weighed)
    BY <2>4, <2>5, <2>6 DEF Bijection, Injection, Surjection, IsInjective
  <2> QED
    BY <2>7 DEF ExistsBijection
<1>9. weighed = UNION {{<<t.file, t.stamp, c>> : c \in CountedContent(t, key, statuses)} :
                          t \in {u \in truth : u.stamp >= cutoff}}
  OBVIOUS
<1> HIDE DEF counted, weighed
<1>10. IsFiniteSet(counted) /\ Cardinality(counted) = Cardinality(pairs)
  BY <1>4, <1>7, FS_Bijection
<1>11. Cardinality(weighed) = Cardinality(pairs)
  BY <1>4, <1>8, FS_Bijection
<1>12. Cardinality(counted) \in Nat
  BY <1>10, FS_CardinalityType
<1>13. Cardinality(weighed) = Weighs(key, statuses, cutoff)
  BY DEF weighed, Weighs
<1> QED
  BY <1>10, <1>11, <1>12, <1>13 DEF counted

\* A scan counts each report once, with the content ingested last, by the query of
\* any SQLite build (query.py, "the result is identical").
THEOREM EachReportOnceCorrect == Spec => []EachReportOnce
<1>1. CountInv => EachReportOnce
  <2> SUFFICES ASSUME CountInv, NEW p \in Params
               PROVE  LET read == WindowedRows(history.runs, Cutoff(p))
                          verdict == Verdicts(read, p)
                      IN  /\ read = FallbackRows(history.runs, Cutoff(p))
                          /\ \A k \in Keys :
                               LET passes == Weighs(k, {"passed"}, Cutoff(p))
                                   fails == Weighs(k, CountedFails(p.errors), Cutoff(p))
                               IN  IF k \in DOMAIN verdict
                                   THEN verdict[k].passes = passes /\ verdict[k].fails = fails
                                   ELSE passes + fails = 0
    BY DEF EachReportOnce
  <2> DEFINE read == WindowedRows(history.runs, Cutoff(p))
             own(k) == {r \in read : TestKey(r.test) = k}
             passed(k) == {r \in own(k) : r.status = "passed"}
             failed(k) == {r \in own(k) : r.status \in CountedFails(p.errors)}
  <2>1. Cutoff(p) \in Int /\ RunsInv
    BY DetectiveAssumption DEF Cutoff, CountInv, RunsInv
  <2>2. read = FallbackRows(history.runs, Cutoff(p))
    BY <2>1, FallbackAgrees DEF FallbackRows, WindowedRows
  <2>3. "skipped" \notin {"passed"} /\ "skipped" \notin CountedFails(p.errors)
    BY DEF CountedFails, FailStatuses
  <2> HIDE DEF read
  <2>4. ASSUME NEW k
        PROVE  /\ Cardinality(passed(k)) = Weighs(k, {"passed"}, Cutoff(p))
               /\ Cardinality(failed(k)) = Weighs(k, CountedFails(p.errors), Cutoff(p))
               /\ Cardinality(passed(k)) \in Nat /\ Cardinality(failed(k)) \in Nat
    <3> DEFINE of(statuses) == {r \in read : TestKey(r.test) = k /\ r.status \in statuses}
    <3>1. passed(k) = of({"passed"}) /\ failed(k) = of(CountedFails(p.errors))
      OBVIOUS
    <3>2. ASSUME NEW statuses, "skipped" \notin statuses
          PROVE  /\ Cardinality(of(statuses)) = Weighs(k, statuses, Cutoff(p))
                 /\ Cardinality(of(statuses)) \in Nat
      BY <2>1, <3>2, RowsAreCases DEF read
    <3> HIDE DEF passed, failed, of
    <3> QED
      BY <2>3, <3>1, <3>2
  <2>5. ASSUME NEW k
        PROVE  /\ VerdictOn(read, k, p).passes = Cardinality(passed(k))
               /\ VerdictOn(read, k, p).fails = Cardinality(failed(k))
    BY DEF VerdictOn
  <2>6. ASSUME NEW k, k \notin {TestKey(r.test) : r \in read}
        PROVE  Cardinality(passed(k)) = 0 /\ Cardinality(failed(k)) = 0
    <3>1. passed(k) = {} /\ failed(k) = {}
      BY <2>6
    <3> HIDE DEF passed, failed
    <3> QED
      BY <3>1, FS_EmptySet
  <2> HIDE DEF passed, failed
  <2>7. ASSUME NEW k
        PROVE  IF k \in DOMAIN Verdicts(read, p)
               THEN /\ Verdicts(read, p)[k].passes = Cardinality(passed(k))
                    /\ Verdicts(read, p)[k].fails = Cardinality(failed(k))
               ELSE Cardinality(passed(k)) + Cardinality(failed(k)) = 0
    <3>1. CASE k \in DOMAIN Verdicts(read, p)
      <4>1. Verdicts(read, p)[k] = VerdictOn(read, k, p)
        BY <3>1 DEF Verdicts
      <4> QED
        BY <2>5, <3>1, <4>1
    <3>2. CASE k \notin DOMAIN Verdicts(read, p)
      <4>1. k \notin {TestKey(r.test) : r \in read} \/ ~(Runs(VerdictOn(read, k, p)) > 0)
        BY <3>2 DEF Verdicts
      <4>2. Runs(VerdictOn(read, k, p)) = Cardinality(passed(k)) + Cardinality(failed(k))
        BY <2>5 DEF Runs
      <4> QED
        BY <2>4, <2>6, <3>2, <4>1, <4>2
    <3> QED
      BY <3>1, <3>2
  <2> QED
    BY <2>2, <2>4, <2>7 DEF read
<1> QED
  BY <1>1, CountInit, CountStep, PTL DEF Spec
-----------------------------------------------------------------------------
(* Types.                                                                    *)

TypeInv == KnownData /\ KnownVerdicts /\ told \cup lost \subseteq Keys

\* A scan's verdicts, and what it reports of them, are about known tests, however
\* many scans overlap.
LEMMA TypeStep == TypeInv /\ [Next]_vars => TypeInv'
<1> SUFFICES ASSUME TypeInv, [Next]_vars PROVE TypeInv'
  OBVIOUS
<1>1. CASE Around
  <2>1. UNCHANGED <<new, prev, snapshot, told, lost>>
    BY <1>1, AroundKeeps DEF scans
  <2>2. KnownData'
    BY <1>1, AroundKnown DEF TypeInv
  <2> QED
    BY <2>1, <2>2 DEF TypeInv, KnownVerdicts
<1>2. ASSUME NEW s \in Scanners, (\E p \in Params : Read(s, p)) \/ Go(s) \/ Crash(s)
      PROVE  TypeInv'
  <2>1. KnownData'
    BY <1>2, ScanKnown DEF TypeInv
  <2>2. KnownVerdicts /\ told \cup lost \subseteq Keys
    BY DEF TypeInv
  <2>3. NewlyFlaky(s) \cup NewlyResolved(s) \subseteq Keys
    <3>1. FlakyKeys(new[s]) \subseteq Keys
      BY <2>2, FlakyKnown DEF KnownVerdicts
    <3> QED
      BY <2>2, <3>1 DEF NewlyFlaky, NewlyResolved, KnownVerdicts
  <2>4. CASE UNCHANGED <<new, prev, snapshot, told, lost>>
    BY <2>1, <2>2, <2>4 DEF TypeInv, KnownVerdicts
  <2>5. ASSUME End(s), UNCHANGED snapshot, told' \cup lost' \subseteq Keys PROVE TypeInv'
    <3>1. KnownVerdicts'
      BY <2>2, <2>5, NothingKnown DEF End, KnownVerdicts
    <3> QED
      BY <2>1, <2>5, <3>1 DEF TypeInv
  <2>6. CASE KeepSnapshot(s) \/ Report(s) \/ Crash(s)
    BY <2>2, <2>3, <2>5, <2>6 DEF KeepSnapshot, Report, Crash
  <2>7. CASE Replace(s)
    BY <2>1, <2>2, <2>7 DEF Replace, TypeInv, KnownVerdicts
  <2>8. CASE ReadPrevious(s)
    <3> DEFINE found == Verdicts(rows[s], params[s])
    <3>1. /\ new' = [new EXCEPT ![s] = found] /\ prev' = [prev EXCEPT ![s] = FlakyKeys(snapshot)]
          /\ UNCHANGED <<snapshot, told, lost>>
      BY <2>8 DEF ReadPrevious
    <3>2. DOMAIN found \subseteq Keys
      BY VerdictsKnown DEF TypeInv, KnownData
    <3>3. FlakyKeys(snapshot) \subseteq Keys
      BY <2>2, FlakyKnown DEF KnownVerdicts
    <3> HIDE DEF found
    <3> QED
      BY <2>1, <2>2, <3>1, <3>2, <3>3 DEF TypeInv, KnownVerdicts
  <2> QED
    BY <1>2, <2>4, <2>6, <2>7, <2>8 DEF Go, Read, Record
<1>3. CASE UNCHANGED vars
  BY <1>3 DEF vars, scans, TypeInv, KnownData, KnownVerdicts
<1> QED
  BY <1>1, <1>2, <1>3 DEF Next

\* Every variable keeps its type, with any number of scanners.
THEOREM TypeCorrect == Spec => []TypeOK
<1>1. Init => TypeInv
  <2> SUFFICES ASSUME Init PROVE TypeInv
    OBVIOUS
  <2>1. KnownData
    BY DEF Init, KnownData, KnownCases
  <2> QED
    BY <2>1, NothingKnown DEF Init, TypeInv, KnownVerdicts
<1>2. TypeInv /\ CountInv => TypeOK
  <2> SUFFICES ASSUME TypeInv, CountInv PROVE TypeOK
    OBVIOUS
  <2>1. \A r \in history.runs : r.id < history.next /\ r.at \in 1..now
    <3> SUFFICES ASSUME NEW r \in history.runs PROVE r.id < history.next /\ r.at \in 1..now
      OBVIOUS
    <3>1. r.at \in Nat \ {0} /\ r.at <= now /\ now \in Nat /\ r.id < history.next
      BY DEF CountInv, RunsInv, RunRecord
    <3> QED
      BY <3>1
  <2> QED
    BY <2>1 DEF TypeInv, KnownVerdicts, CountInv, RunsInv, TypeOK
<1> QED
  BY <1>1, <1>2, TypeStep, CountInit, CountStep, PTL DEF Spec

-----------------------------------------------------------------------------
(* The database under the detective's history, with the threads and the      *)
(* processes that write it: TestHistory, for all its users, reports and      *)
(* bounds that TestHistory assumes.                                          *)
CONSTANTS Threads, Clis, Doc, Unbindable, FedIds, FedTests, Bursts, Cutoffs, Directory,
          RunLimit, MaxFaults

VARIABLES db, lock, tx, view, cli, thread, mixed, refused, fed, faults

Hist == INSTANCE TestHistory WITH
            Ids <- FedIds, FedTest <- FedTests, Repeats <- Bursts, MaxRuns <- RunLimit

Given == Hist!HistoryAssumption

\* The sizes TestHistory speaks of.
LEMMA SameSizes == \A S : Hist!Cardinality(S) = Cardinality(S)
  BY DEF Hist!Cardinality, Cardinality

-----------------------------------------------------------------------------
(* What the operators on the database return.                                *)

\* A run is added with the next id and no cases.
LEMMA RunAdded ==
    ASSUME Given, NEW d \in Hist!Databases, NEW file \in Hist!Files \cup {"synthetic"},
           NEW stamp \in Hist!Stamps,
           NEW e, e = Hist!AddRun(d, file, stamp, 0)
    PROVE  /\ e \in Hist!Databases /\ e # None /\ e.next = d.next + 1 /\ e.ver = d.ver
           /\ e.runs = d.runs \cup {[id |-> d.next, file |-> file, stamp |-> stamp,
                                     at |-> 0, cases |-> {}]}
<1> DEFINE r == [id |-> d.next, file |-> file, stamp |-> stamp, at |-> 0, cases |-> {}]
<1>1. r \in Hist!Rows
  BY DEF Hist!Rows, Hist!Databases
<1>2. e = [d EXCEPT !.runs = @ \cup {r}, !.next = @ + 1]
  BY DEF Hist!AddRun
<1> HIDE DEF r
<1> DEFINE runs == d.runs \cup {r}
<1>4. d = [runs |-> d.runs, next |-> d.next, ver |-> d.ver] /\ d.next + 1 \in Nat
      /\ d.ver \in Nat /\ runs \in SUBSET Hist!Rows
  BY <1>1 DEF Hist!Databases
<1>5. e = [runs |-> runs, next |-> d.next + 1, ver |-> d.ver]
  BY <1>2, <1>4
<1> HIDE DEF runs
<1>3. e \in Hist!Databases /\ e.next = d.next + 1 /\ e.ver = d.ver /\ e.runs = d.runs \cup {r}
  BY <1>4, <1>5 DEF Hist!Databases, runs
<1> QED
  BY <1>3 DEF Given, r

\* The cases of a run take the place of those it had; its other fields stay.
LEMMA CasesAdded ==
    ASSUME Given, NEW d \in Hist!Databases, NEW n \in Nat, NEW cases \in SUBSET Hist!Cases,
           NEW e, e = Hist!AddCases(d, n, cases)
    PROVE  /\ e \in Hist!Databases /\ e # None /\ e.next = d.next /\ e.ver = d.ver
           /\ \A r \in e.runs : r.id # n => r \in d.runs
           /\ \A r \in e.runs : r.id = n => r.cases = cases /\ \E q \in d.runs :
                                   q.id = n /\ q.file = r.file /\ q.stamp = r.stamp
           /\ \A r \in d.runs : r.id # n => r \in e.runs
           /\ \A r \in d.runs : r.id = n => \E q \in e.runs :
                 q.id = n /\ q.file = r.file /\ q.stamp = r.stamp /\ q.cases = cases
<1> DEFINE With(r) == IF r.id = n THEN [r EXCEPT !.cases = cases] ELSE r
<1>1. \A r \in Hist!Rows : /\ With(r) \in Hist!Rows /\ With(r).id = r.id
                           /\ With(r).file = r.file /\ With(r).stamp = r.stamp
                           /\ r.id = n => With(r).cases = cases
                           /\ r.id # n => With(r) = r
  BY DEF Hist!Rows
<1>2. e = [d EXCEPT !.runs = {With(r) : r \in @}]
  BY DEF Hist!AddCases
<1>3. d.runs \subseteq Hist!Rows
  BY DEF Hist!Databases
<1> HIDE DEF With
<1>4. /\ e \in Hist!Databases /\ e.next = d.next /\ e.ver = d.ver
      /\ e.runs = {With(r) : r \in d.runs}
  BY <1>1, <1>2, <1>3 DEF Hist!Databases
<1>5. e # None
  BY <1>4 DEF Given
<1>6. /\ \A r \in e.runs : r.id # n => r \in d.runs
      /\ \A r \in d.runs : r.id # n => r \in e.runs
  BY <1>1, <1>3, <1>4
<1>7. ASSUME NEW r \in e.runs, r.id = n
      PROVE  r.cases = cases /\ \E q \in d.runs : q.id = n /\ q.file = r.file /\ q.stamp = r.stamp
  <2>1. PICK q \in d.runs : r = With(q)
    BY <1>4, <1>7
  <2> QED
    BY <1>1, <1>3, <1>7, <2>1
<1>8. ASSUME NEW r \in d.runs, r.id = n
      PROVE  \E q \in e.runs : q.id = n /\ q.file = r.file /\ q.stamp = r.stamp /\ q.cases = cases
  <2>1. With(r) \in e.runs
    BY <1>4
  <2> QED
    BY <1>1, <1>3, <1>8, <2>1
<1> QED
  BY <1>4, <1>5, <1>6, <1>7, <1>8

\* A run that is dropped takes no other with it.
LEMMA RunDropped ==
    ASSUME Given, NEW d \in Hist!Databases, NEW n \in Nat, NEW e, e = Hist!DropRun(d, n)
    PROVE  /\ e \in Hist!Databases /\ e # None /\ e.next = d.next /\ e.ver = d.ver
           /\ e.runs = {r \in d.runs : r.id # n}
<1>1. /\ e \in Hist!Databases /\ e.next = d.next /\ e.ver = d.ver
      /\ e.runs = {r \in d.runs : r.id # n}
  BY DEF Hist!DropRun, Hist!Databases
<1> QED
  BY <1>1 DEF Given

\* Each of them keeps the ids below the next.
LEMMA StillNumbered ==
    ASSUME Given, NEW d \in Hist!Databases, Hist!Numbered(d)
    PROVE  /\ \A file \in Hist!Files \cup {"synthetic"}, stamp \in Hist!Stamps :
                Hist!Numbered(Hist!AddRun(d, file, stamp, 0))
           /\ \A n \in Nat : \A cases \in SUBSET Hist!Cases : Hist!Numbered(Hist!AddCases(d, n, cases))
           /\ \A n \in Nat : Hist!Numbered(Hist!DropRun(d, n))
           /\ \A r \in d.runs : r.id \in Nat
<1>1. d.next \in Nat /\ \A r \in d.runs : r.id \in Nat /\ r.id < d.next
  BY DEF Hist!Numbered, Hist!Databases, Hist!Rows
<1>2. ASSUME NEW file \in Hist!Files \cup {"synthetic"}, NEW stamp \in Hist!Stamps
      PROVE  Hist!Numbered(Hist!AddRun(d, file, stamp, 0))
  <2> DEFINE e == Hist!AddRun(d, file, stamp, 0)
             r == [id |-> d.next, file |-> file, stamp |-> stamp, at |-> 0, cases |-> {}]
  <2>1. e.runs = d.runs \cup {r} /\ e.next = d.next + 1
    BY RunAdded
  <2>2. r.id = d.next
    OBVIOUS
  <2> HIDE DEF e, r
  <2>3. \A q \in e.runs : q.id < e.next
    BY <1>1, <2>1, <2>2
  <2> QED
    BY <2>3 DEF Hist!Numbered, e
<1>3. ASSUME NEW n \in Nat, NEW cases \in SUBSET Hist!Cases PROVE Hist!Numbered(Hist!AddCases(d, n, cases))
  <2> DEFINE e == Hist!AddCases(d, n, cases)
  <2>1. /\ e.next = d.next /\ \A r \in e.runs : r.id # n => r \in d.runs
        /\ \A r \in e.runs : r.id = n => \E q \in d.runs : q.id = n
    BY CasesAdded
  <2> HIDE DEF e
  <2>2. \A r \in e.runs : r.id < e.next
    BY <1>1, <2>1
  <2> QED
    BY <2>2 DEF Hist!Numbered, e
<1>4. ASSUME NEW n \in Nat PROVE Hist!Numbered(Hist!DropRun(d, n))
  <2> DEFINE e == Hist!DropRun(d, n)
  <2>1. e.next = d.next /\ e.runs = {r \in d.runs : r.id # n}
    BY RunDropped
  <2> HIDE DEF e
  <2>2. \A r \in e.runs : r.id < e.next
    BY <1>1, <2>1
  <2> QED
    BY <2>2 DEF Hist!Numbered, e
<1> QED
  BY <1>1, <1>2, <1>3, <1>4

\* A lookup counts at least the runs that hold what was fed back.
LEMMA LookupCounts ==
    ASSUME Given, NEW d \in Hist!Databases, Hist!Numbered(d), NEW id \in FedIds,
           NEW ns \in SUBSET Nat,
           \A n \in ns : Hist!Holds(d.runs, id, n)
    PROVE  Hist!FailureLookup(d.runs, id).total >= Cardinality(ns)
<1> DEFINE cases == UNION {r.cases : r \in d.runs}
           exact == Hist!CasesOf(d.runs, {c \in cases : Hist!Exactly(id, c)})
           found == IF exact # {} THEN exact
                    ELSE Hist!CasesOf(d.runs, {c \in cases : c.test.name = id[Len(id)]})
           counted == {m[1] : m \in found}
<1>1. ASSUME NEW n \in ns PROVE <<n, Hist!FedRow(id)>> \in exact
  <2>1. PICK r \in d.runs : r.id = n /\ Hist!FedRow(id) \in r.cases
    BY DEF Hist!Holds
  <2>2. Hist!Exactly(id, Hist!FedRow(id))
    BY DEF Given
  <2>3. Hist!FedRow(id) \in {c \in cases : Hist!Exactly(id, c)}
    BY <2>1, <2>2
  <2> HIDE DEF cases
  <2> QED
    BY <2>1, <2>3 DEF Hist!CasesOf
<1>2. counted \subseteq 0 .. (d.next - 1)
  <2>1. ASSUME NEW cs, NEW m \in Hist!CasesOf(d.runs, cs) PROVE m[1] \in 0 .. (d.next - 1)
    <3>1. PICK r \in d.runs : m[1] = r.id
      BY DEF Hist!CasesOf
    <3>2. r.id \in Nat /\ d.next \in Nat /\ r.id < d.next
      BY DEF Hist!Databases, Hist!Rows, Hist!Numbered
    <3> QED
      BY <3>1, <3>2
  <2> HIDE DEF cases
  <2> QED
    BY <2>1
<1>3. IsFiniteSet(0 .. (d.next - 1))
  BY FS_Interval DEF Hist!Databases
<1>4. ns \subseteq counted
  <2> SUFFICES ASSUME NEW n \in ns PROVE n \in counted
    OBVIOUS
  <2>1. <<n, Hist!FedRow(id)>> \in exact
    BY <1>1
  <2> HIDE DEF exact
  <2> QED
    BY <2>1
<1>5. Hist!FailureLookup(d.runs, id).total = Cardinality(counted)
  BY SameSizes DEF Hist!FailureLookup
<1> HIDE DEF counted
<1>6. IsFiniteSet(counted)
  BY <1>2, <1>3, FS_Subset
<1>7. Cardinality(ns) <= Cardinality(counted)
  BY <1>4, <1>6, FS_Subset
<1>8. Cardinality(ns) \in Nat /\ Cardinality(counted) \in Nat
  BY <1>4, <1>6, FS_Subset, FS_CardinalityType
<1> QED
  BY <1>5, <1>7, <1>8

-----------------------------------------------------------------------------
(* What the statements do to the storage.                                    *)

\* What a connection sees is a database, with numbered runs.
LEMMA SeenIsDatabase ==
    ASSUME Given, Hist!StorageOK, NEW c \in Hist!Conns
    PROVE  Hist!Seen(c) \in Hist!Databases /\ (view[c] # None => view[c] \in Hist!Databases)
  BY DEF Hist!StorageOK, Hist!Seen

LEMMA SeenIsNumbered ==
    ASSUME Given, Hist!HistoryInv, NEW c \in Hist!Conns PROVE Hist!Numbered(Hist!Seen(c))
<1>1. CASE view[c] = None
  BY <1>1 DEF Hist!HistoryInv, Hist!OnDisk, Hist!Seen
<1>2. CASE view[c] # None
  <2>1. CASE c = Hist!Gate
    BY <1>2, <2>1 DEF Hist!HistoryInv, Hist!OfGateway, Hist!Seen
  <2>2. CASE c \in Clis
    BY <1>2, <2>2 DEF Hist!HistoryInv, Hist!OfProcess, Hist!Ahead, Hist!Seen
  <2> QED
    BY <2>1, <2>2 DEF Hist!Conns
<1> QED
  BY <1>1, <1>2

\* A statement takes the lock and changes what its connection sees.
LEMMA WriteEffect ==
    ASSUME Given, Hist!StorageOK, NEW c \in Hist!Conns, NEW d \in Hist!Databases,
           Hist!Write(c, d)
    PROVE  /\ Hist!StorageOK' /\ Hist!CanWrite(c)
           /\ db' = db /\ lock' = c /\ tx' = tx \cup {c}
           /\ view'[c] = d /\ view'[c] # None
           /\ \A e \in Hist!Conns \ {c} : view'[e] = view[e]
<1>1. /\ Hist!CanWrite(c) /\ db' = db /\ lock' = c /\ tx' = tx \cup {c}
      /\ view' = [view EXCEPT ![c] = d]
  BY DEF Hist!Write
<1>2. d # None
  BY DEF Given
<1>3. view'[c] = d /\ \A e \in Hist!Conns \ {c} : view'[e] = view[e]
  BY <1>1 DEF Hist!StorageOK
<1> QED
  BY <1>1, <1>2, <1>3 DEF Hist!StorageOK

LEMMA RefusedEffect ==
    ASSUME Given, Hist!StorageOK, NEW c \in Hist!Conns, Hist!Refused(c)
    PROVE  /\ Hist!StorageOK' /\ ~Hist!CanWrite(c)
           /\ db' = db /\ lock' = lock /\ tx' = tx \cup {c} /\ view' = view
  BY DEF Hist!Refused, Hist!StorageOK

\* The end of a transaction, committed or not.
LEMMA CloseEffect ==
    ASSUME Given, Hist!StorageOK, NEW c \in Hist!Conns, Hist!Close(c)
    PROVE  /\ Hist!StorageOK'
           /\ db' = db /\ lock' = (IF lock = c THEN None ELSE lock) /\ tx' = tx \ {c}
           /\ view'[c] = None /\ \A e \in Hist!Conns \ {c} : view'[e] = view[e]
<1>1. /\ db' = db /\ lock' = (IF lock = c THEN None ELSE lock) /\ tx' = tx \ {c}
      /\ view' = [view EXCEPT ![c] = None]
  BY DEF Hist!Close
<1>2. view'[c] = None /\ \A e \in Hist!Conns \ {c} : view'[e] = view[e]
  BY <1>1 DEF Hist!StorageOK
<1> QED
  BY <1>1, <1>2 DEF Hist!StorageOK

LEMMA CommitEffect ==
    ASSUME Given, Hist!StorageOK, NEW c \in Hist!Conns, Hist!Commit(c),
           lock = c => view[c] # None
    PROVE  /\ Hist!StorageOK'
           /\ lock # c => db' = db
           /\ lock = c => /\ db'.runs = view[c].runs /\ db'.next = view[c].next
                          /\ db'.ver = db.ver + 1
           /\ lock' = (IF lock = c THEN None ELSE lock) /\ tx' = tx \ {c}
           /\ view'[c] = None /\ \A e \in Hist!Conns \ {c} : view'[e] = view[e]
<1>1. /\ db' = IF lock = c THEN [view[c] EXCEPT !.ver = db.ver + 1] ELSE db
      /\ lock' = (IF lock = c THEN None ELSE lock) /\ tx' = tx \ {c}
      /\ view' = [view EXCEPT ![c] = None]
  BY DEF Hist!Commit
<1>2. view'[c] = None /\ \A e \in Hist!Conns \ {c} : view'[e] = view[e]
  BY <1>1 DEF Hist!StorageOK
<1>3. db' \in Hist!Databases /\ (lock = c => /\ db'.runs = view[c].runs /\ db'.next = view[c].next
                                             /\ db'.ver = db.ver + 1)
  BY <1>1, SeenIsDatabase DEF Hist!StorageOK, Hist!Databases
<1> QED
  BY <1>1, <1>2, <1>3 DEF Hist!StorageOK

-----------------------------------------------------------------------------
(* What a step of one leaves alone of the others.                            *)

\* A process that takes no part in a step keeps its part of the invariant.
LEMMA OtherProcess ==
    ASSUME Given, Hist!HistoryInv, NEW c \in Clis,
           cli'[c] = cli[c], view'[c] = view[c], lock' = c <=> lock = c,
           lock = c => db' = db, mixed => mixed'
    PROVE  Hist!OfProcess(c)'
<1>1. Hist!OfProcess(c)
  BY DEF Hist!HistoryInv
<1> QED
  BY <1>1 DEF Hist!OfProcess, Hist!Ahead, Hist!File

\* What a step of a process may do to the database: add runs or drop old ones.
KeepsFed == \A r \in db.runs : r.stamp = Hist!FedStamp => r \in db'.runs

LEMMA KeptHolds ==
    ASSUME NEW R, NEW S, \A r \in R : r.stamp = Hist!FedStamp => r \in S
    PROVE  /\ \A n : Hist!Begun(R, n) => Hist!Begun(S, n)
           /\ \A id, n : Hist!Holds(R, id, n) => Hist!Holds(S, id, n)
  BY DEF Hist!Begun, Hist!Holds

LEMMA GatewayKept ==
    ASSUME Given, Hist!HistoryInv, Hist!UnchangedGate, view'[Hist!Gate] = view[Hist!Gate],
           Hist!Gate \in tx' <=> Hist!Gate \in tx,
           lock' = Hist!Gate <=> lock = Hist!Gate,
           db' = db \/ (lock # Hist!Gate /\ db'.ver = db.ver + 1 /\ KeepsFed)
    PROVE  Hist!OfGateway' /\ Hist!FeedsKept' /\ Hist!Apart'
<1>1. /\ thread' = thread /\ mixed' = mixed /\ refused' = refused /\ fed' = fed
  BY DEF Hist!UnchangedGate
<1>2. db.ver \in Nat /\ (view[Hist!Gate] # None => view[Hist!Gate].ver \in Nat)
  BY DEF Hist!HistoryInv, Hist!TypeOK, Hist!StorageOK, Hist!Databases, Hist!Conns
<1>3. Hist!OfGateway'
  BY <1>1, <1>2 DEF Hist!HistoryInv, Hist!OfGateway
<1>4. Hist!Apart'
  BY <1>1 DEF Hist!HistoryInv, Hist!Apart
<1>5. /\ \A n : Hist!Begun(db.runs, n) => Hist!Begun(db'.runs, n)
      /\ \A id, n : Hist!Holds(db.runs, id, n) => Hist!Holds(db'.runs, id, n)
      /\ \A n : Hist!Begun(Hist!Seen(Hist!Gate).runs, n) => Hist!Begun(Hist!Seen(Hist!Gate)'.runs, n)
      /\ \A id, n : Hist!Holds(Hist!Seen(Hist!Gate).runs, id, n) => Hist!Holds(Hist!Seen(Hist!Gate)'.runs, id, n)
  BY KeptHolds DEF KeepsFed, Hist!Seen
<1>6. \A id, ns : Hist!Committed(id, ns) => Hist!Committed(id, ns)'
  BY <1>5 DEF Hist!Committed
<1>7. Hist!FeedsKept'
  BY <1>1, <1>5, <1>6 DEF Hist!HistoryInv, Hist!FeedsKept, Hist!KeptFor
<1> QED
  BY <1>3, <1>4, <1>7

-----------------------------------------------------------------------------
(* The steps of the command-line processes.                                  *)

LEMMA ProcessStep ==
    ASSUME Given, Hist!HistoryInv, NEW c \in Clis, Hist!TypeOK', Hist!OnDisk',
           Hist!OfProcess(c)', Hist!UnchangedGate,
           \A d \in Clis \ {c} : cli'[d] = cli[d],
           \A e \in Hist!Conns \ {c} : /\ view'[e] = view[e]
                                       /\ lock' = e <=> lock = e
                                       /\ e \in tx' <=> e \in tx,
           db' = db \/ (lock \in {c, None} /\ db'.ver = db.ver + 1 /\ KeepsFed)
    PROVE  Hist!HistoryInv'
<1>1. Hist!Gate # c /\ Hist!Gate \in Hist!Conns /\ Hist!Gate # None
  BY DEF Given, Hist!Conns
<1>2. Hist!OfGateway' /\ Hist!FeedsKept' /\ Hist!Apart'
  BY <1>1, GatewayKept
<1>3. ASSUME NEW d \in Clis \ {c} PROVE Hist!OfProcess(d)'
  <2>1. d \in Hist!Conns /\ d # None
    BY DEF Given, Hist!Conns
  <2>2. lock = d => db' = db
    BY <2>1
  <2> QED
    BY <2>1, <2>2, OtherProcess DEF Hist!UnchangedGate
<1> QED
  BY <1>2, <1>3 DEF Hist!HistoryInv

\* A process of its type, and the others as they were.
LEMMA ProcessTypes ==
    ASSUME Given, Hist!TypeOK, NEW c \in Clis, Hist!StorageOK', Hist!UnchangedGate,
           faults' \in Nat, NEW p \in Hist!Ingests, cli' = [cli EXCEPT ![c] = p]
    PROVE  Hist!TypeOK' /\ cli'[c] = p /\ \A d \in Clis \ {c} : cli'[d] = cli[d]
  BY DEF Hist!TypeOK, Hist!UnchangedGate

\* Where a process stands.
LEMMA ProcessFacts ==
    ASSUME Given, Hist!HistoryInv, NEW c \in Clis
    PROVE  /\ Hist!TypeOK /\ Hist!StorageOK /\ faults \in Nat /\ c \in Hist!Conns /\ c # None /\ Hist!OnDisk /\ Hist!OfProcess(c)
           /\ cli[c] \in Hist!Ingests /\ Hist!IdleCli \in Hist!Ingests
           /\ db \in Hist!Databases /\ db.next \in Nat /\ Hist!Seen(c) \in Hist!Databases /\ Hist!Numbered(Hist!Seen(c))
           /\ lock = c => Hist!Seen(c) = view[c]
           /\ lock # c => Hist!Seen(c) = db
<1>1. Hist!TypeOK /\ Hist!StorageOK /\ faults \in Nat /\ c \in Hist!Conns /\ c # None /\ Hist!OnDisk /\ Hist!OfProcess(c) /\ cli[c] \in Hist!Ingests
  BY DEF Hist!HistoryInv, Hist!TypeOK, Given, Hist!Conns
<1>2. Hist!IdleCli \in Hist!Ingests
  BY DEF Hist!IdleCli, Hist!Ingests
<1>3. db \in Hist!Databases /\ db.next \in Nat
  BY <1>1 DEF Hist!StorageOK, Hist!Databases
<1>4. (lock = c => Hist!Seen(c) = view[c]) /\ (lock # c => Hist!Seen(c) = db)
  BY <1>1 DEF Hist!OfProcess, Hist!Seen
<1> QED
  BY <1>1, <1>2, <1>3, <1>4, SeenIsDatabase, SeenIsNumbered

LEMMA StartIngestStep ==
    ASSUME Given, Hist!HistoryInv, NEW c \in Clis, NEW files \in Seq(Hist!Files),
           NEW one \in BOOLEAN,
           Hist!StartIngest(c, files, one)
    PROVE  Hist!HistoryInv'
<1>1. /\ cli[c] = Hist!IdleCli /\ UNCHANGED <<db, lock, tx, view, faults>> /\ Hist!UnchangedGate
      /\ cli' = [cli EXCEPT ![c] = [Hist!IdleCli EXCEPT !.pc = "file", !.todo = files, !.one = one]]
  BY DEF Hist!StartIngest
<1> DEFINE p == [Hist!IdleCli EXCEPT !.pc = "file", !.todo = files, !.one = one]
<1>2. p \in Hist!Ingests /\ p.pc = "file" /\ p.run = 0 /\ p.got = {}
  BY DEF Hist!IdleCli, Hist!Ingests
<1>3. Hist!IdleCli.pc = "idle"
  BY DEF Hist!IdleCli
<1> HIDE DEF p
<1>4. Hist!TypeOK' /\ cli'[c] = p /\ \A d \in Clis \ {c} : cli'[d] = cli[d]
  <2>1. Hist!StorageOK' /\ faults' \in Nat
    BY <1>1, ProcessFacts DEF Hist!StorageOK
  <2>2. cli' = [cli EXCEPT ![c] = p]
    BY <1>1 DEF p
  <2> QED
    BY <1>1, <1>2, <2>1, <2>2, ProcessFacts, ProcessTypes
<1>5. Hist!OnDisk'
  BY <1>1, ProcessFacts DEF Hist!OnDisk, Hist!UnchangedGate
<1>6. Hist!OfProcess(c)'
  BY <1>1, <1>2, <1>3, <1>4, ProcessFacts DEF Hist!OfProcess
<1> QED
  BY <1>1, <1>4, <1>5, <1>6, ProcessStep

\* The file that raised is left behind.
LEMMA SkipFileEffect ==
    ASSUME Given, Hist!HistoryInv, NEW c \in Clis, Hist!SkipFile(c), cli[c].todo # <<>>
    PROVE  \E p \in Hist!Ingests :
             /\ cli' = [cli EXCEPT ![c] = p]
             /\ cli[c].one => p = Hist!IdleCli
             /\ ~cli[c].one => p.pc = "file" /\ ~p.one /\ p.run = 0 /\ p.got = cli[c].got
<1>1. cli' = [cli EXCEPT ![c] = IF cli[c].one THEN Hist!IdleCli
                                ELSE [cli[c] EXCEPT !.pc = "file", !.todo = Tail(@), !.run = 0]]
  BY DEF Hist!SkipFile
<1>2. CASE cli[c].one
  BY <1>1, <1>2, ProcessFacts
<1>3. CASE ~cli[c].one
  <2> DEFINE p == [cli[c] EXCEPT !.pc = "file", !.todo = Tail(@), !.run = 0]
  <2>1. Tail(cli[c].todo) \in Seq(Hist!Files) /\ cli[c] \in Hist!Ingests
    BY ProcessFacts DEF Hist!Ingests
  <2>2. p \in Hist!Ingests /\ p.pc = "file" /\ ~p.one /\ p.run = 0 /\ p.got = cli[c].got
    BY <1>3, <2>1 DEF Hist!Ingests
  <2> QED
    BY <1>1, <1>3, <2>2
<1> QED
  BY <1>2, <1>3

LEMMA ParseErrorStep ==
    ASSUME Given, Hist!HistoryInv, NEW c \in Clis, Hist!ParseError(c) PROVE Hist!HistoryInv'
<1>1. /\ cli[c].pc = "file" /\ Hist!SkipFile(c) /\ cli[c].todo # <<>>
      /\ UNCHANGED <<db, lock, tx, view, faults>> /\ Hist!UnchangedGate
  BY DEF Hist!ParseError
<1>2. PICK p \in Hist!Ingests :
             /\ cli' = [cli EXCEPT ![c] = p]
             /\ cli[c].one => p = Hist!IdleCli
             /\ ~cli[c].one => p.pc = "file" /\ ~p.one /\ p.run = 0 /\ p.got = cli[c].got
  BY <1>1, SkipFileEffect
<1>4. Hist!TypeOK' /\ cli'[c] = p /\ \A d \in Clis \ {c} : cli'[d] = cli[d]
  <2>1. Hist!StorageOK' /\ faults' \in Nat
    BY <1>1, ProcessFacts DEF Hist!StorageOK
  <2> QED
    BY <1>1, <1>2, <2>1, ProcessFacts, ProcessTypes
<1>5. Hist!OnDisk'
  BY <1>1, ProcessFacts DEF Hist!OnDisk, Hist!UnchangedGate
<1>6. Hist!OfProcess(c)'
  <2>1. CASE cli[c].one
    BY <1>1, <1>2, <1>4, <2>1, ProcessFacts DEF Hist!OfProcess, Hist!IdleCli
  <2>2. CASE ~cli[c].one
    <3>1. lock = c => Hist!Ahead(c)'
      BY <1>1, <1>2, <1>4, <2>2, ProcessFacts DEF Hist!OfProcess, Hist!Ahead,
         Hist!UnchangedGate
    <3> QED
      BY <1>1, <1>2, <1>4, <2>2, <3>1, ProcessFacts DEF Hist!OfProcess
  <2> QED
    BY <2>1, <2>2
<1> QED
  BY <1>1, <1>4, <1>5, <1>6, ProcessStep

LEMMA InsertRunStep ==
    ASSUME Given, Hist!HistoryInv, NEW c \in Clis, Hist!InsertRun(c) PROVE Hist!HistoryInv'
<1> DEFINE stamp == Hist!ParsedRun(Doc[Hist!File(c)]).stamp
           d == Hist!AddRun(Hist!Seen(c), Hist!File(c), stamp, 0)
           p == [cli[c] EXCEPT !.pc = "cases", !.run = Hist!Seen(c).next]
           n == Hist!Seen(c).next
<1>1. /\ cli[c].pc = "file" /\ cli[c].todo # <<>> /\ ~Hist!ParseFails(Doc[Hist!File(c)])
      /\ Hist!Write(c, d) /\ UNCHANGED faults /\ Hist!UnchangedGate
      /\ cli' = [cli EXCEPT ![c].pc = "cases", ![c].run = Hist!Seen(c).next]
  BY DEF Hist!InsertRun
<1>2. Hist!File(c) \in Hist!Parsed /\ stamp \in Hist!Stamps /\ n \in Nat
  <2>1. Hist!File(c) \in Hist!Files
    BY <1>1, ProcessFacts DEF Hist!Ingests, Hist!File
  <2> QED
    BY <1>1, <2>1, ProcessFacts DEF Hist!Parsed, Hist!Stamps, Hist!Databases
<1>3. PICK r : /\ d \in Hist!Databases /\ d # None /\ d.next = n + 1 /\ d.ver = Hist!Seen(c).ver
               /\ d.runs = Hist!Seen(c).runs \cup {r} /\ r.id = n /\ r.file = Hist!File(c)
               /\ Hist!Numbered(d)
  <2>1. Hist!Seen(c) \in Hist!Databases /\ Hist!Numbered(Hist!Seen(c)) /\ Hist!File(c) \in Hist!Files \cup {"synthetic"}
    BY <1>2, ProcessFacts DEF Hist!Parsed
  <2>2. /\ d \in Hist!Databases /\ d # None /\ d.next = n + 1 /\ d.ver = Hist!Seen(c).ver
        /\ d.runs = Hist!Seen(c).runs \cup {[id |-> n, file |-> Hist!File(c), stamp |-> stamp,
                                         at |-> 0, cases |-> {}]}
    BY <1>2, <2>1, RunAdded
  <2>3. Hist!Numbered(d)
    BY <1>2, <2>1, StillNumbered
  <2> DEFINE r == [id |-> n, file |-> Hist!File(c), stamp |-> stamp, at |-> 0, cases |-> {}]
  <2>4. r.id = n /\ r.file = Hist!File(c)
    OBVIOUS
  <2>5. d.runs = Hist!Seen(c).runs \cup {r}
    BY <2>2
  <2> HIDE DEF r, d
  <2> QED
    BY <2>2, <2>3, <2>4, <2>5
<1>4. p \in Hist!Ingests /\ cli' = [cli EXCEPT ![c] = p] /\ p.pc = "cases" /\ p.run = n
      /\ p.got = cli[c].got /\ p.todo = cli[c].todo
  <2>1. p \in Hist!Ingests /\ p.pc = "cases" /\ p.run = n /\ p.got = cli[c].got /\ p.todo = cli[c].todo
    BY <1>2, ProcessFacts DEF Hist!Ingests
  <2>2. cli' = [cli EXCEPT ![c] = p]
    BY <1>1, ProcessFacts DEF Hist!TypeOK, Hist!Ingests
  <2> QED
    BY <2>1, <2>2
<1> HIDE DEF d, p
<1>5. /\ Hist!StorageOK' /\ Hist!CanWrite(c) /\ db' = db /\ lock' = c /\ tx' = tx \cup {c}
      /\ view'[c] = d /\ \A e \in Hist!Conns \ {c} : view'[e] = view[e]
  BY <1>1, <1>3, ProcessFacts, WriteEffect
<1>6. Hist!TypeOK' /\ cli'[c] = p /\ \A e \in Clis \ {c} : cli'[e] = cli[e]
  BY <1>1, <1>4, <1>5, ProcessFacts, ProcessTypes
<1>7. Hist!OnDisk'
  BY <1>1, <1>5, ProcessFacts DEF Hist!OnDisk, Hist!UnchangedGate
<1>8. db.runs \subseteq Hist!Seen(c).runs /\ db.next <= n /\ \A q \in Hist!Seen(c).runs : q.id < n
  BY ProcessFacts DEF Hist!OfProcess, Hist!Ahead, Hist!Numbered
<1>9. \A q \in Hist!Seen(c).runs : Hist!Orphan(q) => mixed
  BY <1>1, ProcessFacts DEF Hist!OfProcess, Hist!Ahead, Hist!OnDisk
<1>10. \A m \in cli[c].got \ {0} : db.next <= m /\ m < n
  BY ProcessFacts DEF Hist!OfProcess, Hist!Ahead
<1>11. Hist!Ahead(c)'
  <2>1. Hist!Numbered(d) /\ db.runs \subseteq d.runs /\ db.next <= d.next
    BY <1>2, <1>3, <1>8, ProcessFacts
  <2>2. \A m \in (cli[c].got \cup {n}) \ {0} : db.next <= m /\ m < d.next
    <3>1. cli[c].got \subseteq Nat
      BY ProcessFacts DEF Hist!Ingests
    <3> QED
      BY <1>2, <1>3, <1>8, <1>10, <3>1, ProcessFacts
  <2>3. \A q \in d.runs : Hist!Orphan(q) => mixed \/ q.id = n
    BY <1>3, <1>9
  <2> QED
    BY <1>1, <1>4, <1>5, <1>6, <2>1, <2>2, <2>3 DEF Hist!Ahead, Hist!Orphan,
       Hist!UnchangedGate, Hist!Numbered
<1>12. Hist!OfProcess(c)'
  <2>1. Hist!File(c)' = Hist!File(c)
    BY <1>4, <1>6 DEF Hist!File
  <2>2. \A q \in d.runs : q.id = n => q.file = Hist!File(c)
    BY <1>2, <1>3, <1>8, ProcessFacts DEF Hist!Databases, Hist!Rows
  <2> QED
    BY <1>1, <1>2, <1>3, <1>4, <1>5, <1>6, <1>8, <1>11, <2>1, <2>2 DEF Hist!OfProcess
<1>13. \A e \in Hist!Conns \ {c} : lock' = e <=> lock = e
  BY <1>5, ProcessFacts DEF Hist!CanWrite, Given
<1> QED
  BY <1>1, <1>5, <1>6, <1>7, <1>12, <1>13, ProcessStep

LEMMA InsertRefusedStep ==
    ASSUME Given, Hist!HistoryInv, NEW c \in Clis, Hist!InsertRefused(c) PROVE Hist!HistoryInv'
<1>1. /\ cli[c].pc = "file" /\ Hist!SkipFile(c) /\ cli[c].todo # <<>> /\ lock # c
      /\ UNCHANGED faults /\ Hist!UnchangedGate
      /\ IF cli[c].one THEN Hist!Close(c) ELSE Hist!Refused(c)
  BY DEF Hist!InsertRefused, Hist!CanWrite
<1>2. PICK p \in Hist!Ingests :
             /\ cli' = [cli EXCEPT ![c] = p]
             /\ cli[c].one => p = Hist!IdleCli
             /\ ~cli[c].one => p.pc = "file" /\ ~p.one /\ p.run = 0 /\ p.got = cli[c].got
  BY <1>1, SkipFileEffect
<1>3. /\ Hist!StorageOK' /\ db' = db /\ lock' = lock /\ view'[c] = None
      /\ \A e \in Hist!Conns \ {c} : view'[e] = view[e] /\ (e \in tx' <=> e \in tx)
  <2>1. view[c] = None
    BY <1>1, ProcessFacts DEF Hist!OfProcess
  <2>2. CASE cli[c].one
    BY <1>1, <2>1, <2>2, ProcessFacts, CloseEffect
  <2>3. CASE ~cli[c].one
    BY <1>1, <2>1, <2>3, ProcessFacts, RefusedEffect
  <2> QED
    BY <2>2, <2>3
<1>4. Hist!TypeOK' /\ cli'[c] = p /\ \A d \in Clis \ {c} : cli'[d] = cli[d]
  BY <1>1, <1>2, <1>3, ProcessFacts, ProcessTypes
<1>5. Hist!OnDisk'
  BY <1>1, <1>3, ProcessFacts DEF Hist!OnDisk, Hist!UnchangedGate
<1>6. p.run = 0 /\ p.got \subseteq {0} /\ p.pc # "cases"
  BY <1>1, <1>2, ProcessFacts DEF Hist!OfProcess, Hist!IdleCli
<1>7. Hist!OfProcess(c)'
  BY <1>1, <1>3, <1>4, <1>6 DEF Hist!OfProcess
<1> QED
  BY <1>1, <1>3, <1>4, <1>5, <1>7, ProcessStep

LEMMA InsertCasesStep ==
    ASSUME Given, Hist!HistoryInv, NEW c \in Clis, Hist!InsertCases(c) PROVE Hist!HistoryInv'
<1> DEFINE cases == Hist!ParsedRun(Doc[Hist!File(c)]).cases
           n == cli[c].run
           d == Hist!AddCases(Hist!Seen(c), n, cases)
           p == [cli[c] EXCEPT !.pc = IF cli[c].one THEN "commit" ELSE "file",
                               !.todo = Tail(@), !.got = @ \cup {cli[c].run}, !.run = 0]
<1>1. /\ cli[c].pc = "cases" /\ Hist!Write(c, d) /\ UNCHANGED faults /\ Hist!UnchangedGate
      /\ cli' = [cli EXCEPT ![c] = p]
  BY DEF Hist!InsertCases
<1>2. /\ lock = c /\ cli[c].todo # <<>> /\ Hist!File(c) \in Hist!Parsed /\ db.next <= n /\ Hist!Ahead(c)
      /\ Hist!Seen(c) = view[c] /\ \A r \in view[c].runs : r.id = n => r.file = Hist!File(c)
  BY <1>1, ProcessFacts DEF Hist!OfProcess
<1>3. n \in Nat /\ cases \in SUBSET Hist!Cases
  BY <1>2, ProcessFacts DEF Hist!Ingests, Hist!Cases
<1>4. /\ d \in Hist!Databases /\ d.next = view[c].next /\ Hist!Numbered(d)
      /\ \A r \in d.runs : r.id # n => r \in view[c].runs
      /\ \A r \in d.runs : r.id = n => r.cases = cases /\ r.file = Hist!File(c)
      /\ \A r \in view[c].runs : r.id # n => r \in d.runs
  <2>1. view[c] \in Hist!Databases /\ Hist!Numbered(view[c])
    BY <1>2, ProcessFacts
  <2>2. Hist!Numbered(d)
    BY <1>2, <1>3, <2>1, StillNumbered
  <2>3. /\ d \in Hist!Databases /\ d.next = view[c].next
        /\ \A r \in d.runs : r.id # n => r \in view[c].runs
        /\ \A r \in d.runs : r.id = n => r.cases = cases /\ \E q \in view[c].runs :
                                q.id = n /\ q.file = r.file /\ q.stamp = r.stamp
        /\ \A r \in view[c].runs : r.id # n => r \in d.runs
    BY <1>2, <1>3, <2>1, CasesAdded
  <2> HIDE DEF d, cases
  <2> QED
    BY <1>2, <2>2, <2>3
<1>5. /\ p \in Hist!Ingests /\ p.pc \in {"commit", "file"} /\ p.run = 0 /\ p.got = cli[c].got \cup {n}
      /\ p.pc = "file" => ~p.one
  <2>1. Tail(cli[c].todo) \in Seq(Hist!Files) /\ cli[c] \in Hist!Ingests
    BY <1>2, ProcessFacts DEF Hist!Ingests
  <2> QED
    BY <1>3, <2>1 DEF Hist!Ingests
<1> HIDE DEF d, p
<1>6. /\ Hist!StorageOK' /\ db' = db /\ lock' = c /\ tx' = tx \cup {c}
      /\ view'[c] = d /\ view'[c] # None /\ \A e \in Hist!Conns \ {c} : view'[e] = view[e]
  BY <1>1, <1>4, ProcessFacts, WriteEffect
<1>7. Hist!TypeOK' /\ cli'[c] = p /\ \A e \in Clis \ {c} : cli'[e] = cli[e]
  BY <1>1, <1>5, <1>6, ProcessFacts, ProcessTypes
<1>8. Hist!OnDisk'
  BY <1>1, <1>6, ProcessFacts DEF Hist!OnDisk, Hist!UnchangedGate
<1>9. Hist!Ahead(c)'
  <2>1. \A r \in db.runs : r \in view[c].runs /\ r.id < db.next /\ r.id \in Nat
    BY <1>2, ProcessFacts DEF Hist!Ahead, Hist!OnDisk, Hist!Numbered, Hist!Databases, Hist!Rows
  <2>2. db.runs \subseteq d.runs
    BY <1>2, <1>3, <1>4, <2>1, ProcessFacts
  <2>3. db.next <= d.next
    BY <1>2, <1>4 DEF Hist!Ahead
  <2>4. \A m \in (cli[c].got \cup {n}) \ {0} : db.next <= m /\ m < d.next
    BY <1>2, <1>4 DEF Hist!Ahead
  <2>5. \A r \in d.runs : Hist!Orphan(r) => mixed
    <3>1. \A r \in d.runs : Hist!Orphan(r) => r.id # n
      BY <1>2, <1>4 DEF Hist!Orphan, Hist!Parsed
    <3> QED
      BY <1>2, <1>4, <3>1 DEF Hist!Ahead
  <2> QED
    BY <1>1, <1>4, <1>5, <1>6, <1>7, <2>2, <2>3, <2>4, <2>5 DEF Hist!Ahead, Hist!Orphan,
       Hist!UnchangedGate, Hist!Numbered
<1>10. Hist!OfProcess(c)'
  BY <1>5, <1>6, <1>7, <1>9 DEF Hist!OfProcess
<1>11. \A e \in Hist!Conns \ {c} : lock' = e <=> lock = e
  BY <1>2, <1>6
<1> QED
  BY <1>1, <1>6, <1>7, <1>8, <1>10, <1>11, ProcessStep

LEMMA UndoFileStep ==
    ASSUME Given, Hist!HistoryInv, NEW c \in Clis, Hist!UndoFile(c) PROVE Hist!HistoryInv'
<1> DEFINE n == cli[c].run
           d == Hist!DropRun(Hist!Seen(c), n)
<1>1. /\ cli[c].pc = "cases" /\ Hist!SkipFile(c) /\ UNCHANGED faults /\ Hist!UnchangedGate
      /\ IF cli[c].one THEN Hist!Close(c) ELSE Hist!Write(c, d)
  BY DEF Hist!UndoFile
<1>2. /\ lock = c /\ cli[c].todo # <<>> /\ db.next <= n /\ Hist!Ahead(c) /\ Hist!Seen(c) = view[c]
  BY <1>1, ProcessFacts DEF Hist!OfProcess
<1>3. PICK p \in Hist!Ingests :
             /\ cli' = [cli EXCEPT ![c] = p]
             /\ cli[c].one => p = Hist!IdleCli
             /\ ~cli[c].one => p.pc = "file" /\ ~p.one /\ p.run = 0 /\ p.got = cli[c].got
  BY <1>1, <1>2, SkipFileEffect
<1>4. CASE cli[c].one
  <2>1. /\ Hist!StorageOK' /\ db' = db /\ lock' = None /\ view'[c] = None
        /\ \A e \in Hist!Conns \ {c} : view'[e] = view[e] /\ (e \in tx' <=> e \in tx)
    BY <1>1, <1>2, <1>4, ProcessFacts, CloseEffect
  <2>2. Hist!TypeOK' /\ cli'[c] = p /\ \A e \in Clis \ {c} : cli'[e] = cli[e]
    BY <1>1, <1>3, <2>1, ProcessFacts, ProcessTypes
  <2>3. Hist!OnDisk'
    BY <1>1, <2>1, ProcessFacts DEF Hist!OnDisk, Hist!UnchangedGate
  <2>4. Hist!OfProcess(c)'
    BY <1>3, <1>4, <2>1, <2>2, ProcessFacts DEF Hist!OfProcess, Hist!IdleCli
  <2>5. \A e \in Hist!Conns \ {c} : lock' = e <=> lock = e
    BY <1>2, <2>1 DEF Given
  <2> QED
    BY <1>1, <2>1, <2>2, <2>3, <2>4, <2>5, ProcessStep
<1>5. CASE ~cli[c].one
  <2>1. n \in Nat /\ view[c] \in Hist!Databases /\ Hist!Numbered(view[c])
    BY <1>2, ProcessFacts DEF Hist!Ingests
  <2>2. d \in Hist!Databases /\ d.next = view[c].next /\ d.runs = {r \in view[c].runs : r.id # n}
        /\ Hist!Numbered(d)
    <3>1. d = Hist!DropRun(view[c], n)
      BY <1>2
    <3>2. Hist!Numbered(Hist!DropRun(view[c], n))
      BY <2>1, StillNumbered
    <3> HIDE DEF d, n
    <3> QED
      BY <2>1, <3>1, <3>2, RunDropped
  <2> HIDE DEF d
  <2>3. /\ Hist!StorageOK' /\ db' = db /\ lock' = c /\ tx' = tx \cup {c}
        /\ view'[c] = d /\ view'[c] # None /\ \A e \in Hist!Conns \ {c} : view'[e] = view[e]
    BY <1>1, <1>5, <2>2, ProcessFacts, WriteEffect
  <2>4. Hist!TypeOK' /\ cli'[c] = p /\ \A e \in Clis \ {c} : cli'[e] = cli[e]
    BY <1>1, <1>3, <2>3, ProcessFacts, ProcessTypes
  <2>5. Hist!OnDisk'
    BY <1>1, <2>3, ProcessFacts DEF Hist!OnDisk, Hist!UnchangedGate
  <2>6. Hist!Ahead(c)'
    <3>1. \A r \in db.runs : r \in view[c].runs /\ r.id < db.next /\ r.id \in Nat
      BY <1>2, ProcessFacts DEF Hist!Ahead, Hist!OnDisk, Hist!Numbered, Hist!Databases,
         Hist!Rows
    <3>2. db.runs \subseteq d.runs
      BY <1>2, <2>1, <2>2, <3>1, ProcessFacts
    <3>3. db.next <= d.next
      BY <1>2, <2>2 DEF Hist!Ahead
    <3>4. \A m \in cli[c].got \ {0} : db.next <= m /\ m < d.next
      BY <1>2, <2>2 DEF Hist!Ahead
    <3>5. \A r \in d.runs : Hist!Orphan(r) => mixed
      BY <1>2, <2>2 DEF Hist!Ahead
    <3> QED
      BY <1>1, <1>3, <1>5, <2>2, <2>3, <2>4, <3>2, <3>3, <3>4, <3>5
         DEF Hist!Ahead, Hist!Orphan, Hist!UnchangedGate, Hist!Numbered
  <2>7. Hist!OfProcess(c)'
    BY <1>3, <1>5, <2>3, <2>4, <2>6 DEF Hist!OfProcess
  <2> QED
    BY <1>1, <1>2, <2>3, <2>4, <2>5, <2>7, ProcessStep
<1> QED
  BY <1>4, <1>5

LEMMA CommitBatchStep ==
    ASSUME Given, Hist!HistoryInv, NEW c \in Clis, Hist!CommitBatch(c) PROVE Hist!HistoryInv'
<1>1. /\ cli[c].pc \in {"commit", "file"} /\ Hist!Commit(c) /\ UNCHANGED faults /\ Hist!UnchangedGate
      /\ cli' = [cli EXCEPT ![c] = Hist!IdleCli]
  BY DEF Hist!CommitBatch
<1>2. lock = c => view[c] # None /\ Hist!Ahead(c)
  BY ProcessFacts DEF Hist!OfProcess
<1>3. /\ Hist!StorageOK'
      /\ lock # c => db' = db
      /\ lock = c => /\ db'.runs = view[c].runs /\ db'.next = view[c].next
                     /\ db'.ver = db.ver + 1
      /\ lock' = (IF lock = c THEN None ELSE lock) /\ tx' = tx \ {c}
      /\ view'[c] = None /\ \A e \in Hist!Conns \ {c} : view'[e] = view[e]
  BY <1>1, <1>2, ProcessFacts, CommitEffect
<1>4. Hist!TypeOK' /\ cli'[c] = Hist!IdleCli /\ \A e \in Clis \ {c} : cli'[e] = cli[e]
  BY <1>1, <1>3, ProcessFacts, ProcessTypes
<1>5. Hist!OnDisk'
  <2>1. CASE lock = c
    BY <1>1, <1>2, <1>3, <2>1 DEF Hist!OnDisk, Hist!Ahead, Hist!Numbered, Hist!Orphan,
       Hist!UnchangedGate
  <2>2. CASE lock # c
    BY <1>1, <1>3, <2>2, ProcessFacts DEF Hist!OnDisk, Hist!UnchangedGate
  <2> QED
    BY <2>1, <2>2
<1>6. lock' # c
  BY <1>3, ProcessFacts
<1>7. Hist!OfProcess(c)'
  BY <1>3, <1>4, <1>6 DEF Hist!OfProcess, Hist!IdleCli
<1>8. \A e \in Hist!Conns \ {c} : lock' = e <=> lock = e
  BY <1>3 DEF Given
<1>9. db' = db \/ (lock \in {c, None} /\ db'.ver = db.ver + 1 /\ KeepsFed)
  BY <1>2, <1>3 DEF KeepsFed, Hist!Ahead
<1> QED
  BY <1>1, <1>3, <1>4, <1>5, <1>7, <1>8, <1>9, ProcessStep

LEMMA PruneStep ==
    ASSUME Given, Hist!HistoryInv, NEW c \in Clis, NEW cut \in Cutoffs, Hist!Prune(c, cut)
    PROVE  Hist!HistoryInv'
<1>1. /\ cli[c] = Hist!IdleCli /\ Hist!CanWrite(c) /\ UNCHANGED <<lock, tx, view, cli, faults>> /\ Hist!UnchangedGate
      /\ db' = [db EXCEPT !.runs = Hist!InWindow(@, cut), !.ver = @ + 1]
  BY DEF Hist!Prune
<1>2. lock = None
  BY <1>1, ProcessFacts DEF Hist!CanWrite, Hist!OfProcess, Hist!IdleCli
<1>3. /\ db' \in Hist!Databases /\ db'.next = db.next /\ db'.ver = db.ver + 1
      /\ db'.runs = Hist!InWindow(db.runs, cut) /\ db'.runs \subseteq db.runs
  <2> DEFINE R == Hist!InWindow(db.runs, cut)
  <2>1. R \subseteq db.runs
    BY DEF Hist!InWindow
  <2>2. db' = [db EXCEPT !.runs = R, !.ver = @ + 1]
    BY <1>1
  <2> HIDE DEF R
  <2>3. /\ db = [runs |-> db.runs, next |-> db.next, ver |-> db.ver] /\ db.ver + 1 \in Nat
        /\ db.next \in Nat /\ R \in SUBSET Hist!Rows
    BY <2>1, ProcessFacts DEF Hist!Databases
  <2>4. db' = [runs |-> R, next |-> db.next, ver |-> db.ver + 1]
    BY <2>2, <2>3
  <2>5. db' \in Hist!Databases /\ db'.next = db.next /\ db'.ver = db.ver + 1 /\ db'.runs = R
    BY <2>3, <2>4 DEF Hist!Databases
  <2> QED
    BY <2>1, <2>5 DEF R
<1>4. KeepsFed
  <2> SUFFICES ASSUME NEW r \in db.runs, r.stamp = Hist!FedStamp PROVE r \in db'.runs
    BY DEF KeepsFed
  <2>1. Hist!EffectiveTime(r) = Hist!FedStamp
    BY DEF Hist!EffectiveTime, Given, Hist!Stamps
  <2>2. Hist!FedStamp >= cut
    BY DEF Given, Hist!FedStamp
  <2> QED
    BY <1>3, <2>1, <2>2 DEF Hist!InWindow
<1>5. Hist!TypeOK'
  BY <1>1, <1>3, ProcessFacts DEF Hist!TypeOK, Hist!StorageOK, Hist!UnchangedGate
<1>6. Hist!OnDisk'
  BY <1>1, <1>3, ProcessFacts DEF Hist!OnDisk, Hist!Numbered, Hist!UnchangedGate, Hist!Orphan
<1>7. Hist!OfProcess(c)'
  BY <1>1, <1>2, ProcessFacts DEF Hist!OfProcess, Hist!IdleCli
<1> QED
  BY <1>1, <1>2, <1>3, <1>4, <1>5, <1>6, <1>7, ProcessStep

LEMMA CliCrashStep ==
    ASSUME Given, Hist!HistoryInv, NEW c \in Clis, Hist!CliCrash(c) PROVE Hist!HistoryInv'
<1>1. /\ Hist!Close(c) /\ faults' = faults + 1 /\ Hist!UnchangedGate
      /\ cli' = [cli EXCEPT ![c] = Hist!IdleCli]
  BY DEF Hist!CliCrash
<1>2. /\ Hist!StorageOK' /\ db' = db /\ lock' = (IF lock = c THEN None ELSE lock) /\ view'[c] = None
      /\ \A e \in Hist!Conns \ {c} : view'[e] = view[e] /\ (e \in tx' <=> e \in tx)
  BY <1>1, ProcessFacts, CloseEffect
<1>3. Hist!TypeOK' /\ cli'[c] = Hist!IdleCli /\ \A e \in Clis \ {c} : cli'[e] = cli[e]
  <2>1. faults' \in Nat
    BY <1>1, ProcessFacts
  <2> QED
    BY <1>1, <1>2, <2>1, ProcessFacts, ProcessTypes
<1>4. Hist!OnDisk'
  BY <1>1, <1>2, ProcessFacts DEF Hist!OnDisk, Hist!UnchangedGate
<1>5. lock' # c
  BY <1>2, ProcessFacts
<1>6. Hist!OfProcess(c)'
  BY <1>2, <1>3, <1>5 DEF Hist!OfProcess, Hist!IdleCli
<1>7. \A e \in Hist!Conns \ {c} : lock' = e <=> lock = e
  BY <1>2 DEF Given
<1> QED
  BY <1>1, <1>2, <1>3, <1>4, <1>6, <1>7, ProcessStep

-----------------------------------------------------------------------------
(* The steps of the gateway.                                                 *)

LEMMA GatewayStep ==
    ASSUME Given, Hist!HistoryInv, Hist!TypeOK', Hist!OnDisk', Hist!OfGateway',
           Hist!FeedsKept', Hist!Apart',
           cli' = cli, mixed => mixed', db' = db \/ lock = Hist!Gate,
           \A c \in Clis : view'[c] = view[c] /\ (lock' = c <=> lock = c)
    PROVE  Hist!HistoryInv'
<1> SUFFICES ASSUME NEW c \in Clis PROVE Hist!OfProcess(c)'
  BY DEF Hist!HistoryInv
<1>1. lock = c => db' = db
  BY DEF Given
<1> QED
  BY <1>1, OtherProcess

\* Where the gateway stands: what it can write on is its own or the database.
LEMMA GatewayFacts ==
    ASSUME Given, Hist!HistoryInv
    PROVE  /\ Hist!TypeOK /\ Hist!StorageOK /\ faults \in Nat /\ Hist!OnDisk /\ Hist!OfGateway /\ Hist!FeedsKept /\ Hist!Apart
           /\ Hist!Gate \in Hist!Conns /\ Hist!Gate # None /\ \A c \in Clis : c \in Hist!Conns /\ c # Hist!Gate /\ c # None
           /\ Hist!Seen(Hist!Gate) \in Hist!Databases /\ Hist!Numbered(Hist!Seen(Hist!Gate)) /\ Hist!Seen(Hist!Gate).next \in Nat
           /\ lock = Hist!Gate => Hist!Seen(Hist!Gate) = view[Hist!Gate]
           /\ Hist!CanWrite(Hist!Gate) /\ lock # Hist!Gate => Hist!Seen(Hist!Gate) = db /\ lock = None
           /\ Hist!IdleThread \in Hist!Feedbacks
           /\ \A t \in Threads : thread[t] \in Hist!Feedbacks
<1>1. /\ Hist!TypeOK /\ Hist!StorageOK /\ faults \in Nat /\ Hist!OnDisk /\ Hist!OfGateway /\ Hist!FeedsKept /\ Hist!Apart
      /\ \A t \in Threads : thread[t] \in Hist!Feedbacks
  BY DEF Hist!HistoryInv, Hist!TypeOK
<1>2. Hist!Gate \in Hist!Conns /\ Hist!Gate # None /\ \A c \in Clis : c \in Hist!Conns /\ c # Hist!Gate /\ c # None
  BY DEF Given, Hist!Conns
<1>3. Hist!Seen(Hist!Gate) \in Hist!Databases /\ Hist!Numbered(Hist!Seen(Hist!Gate)) /\ Hist!Seen(Hist!Gate).next \in Nat
  BY <1>1, <1>2, SeenIsDatabase, SeenIsNumbered DEF Hist!Databases
<1>4. /\ lock = Hist!Gate => Hist!Seen(Hist!Gate) = view[Hist!Gate]
      /\ Hist!CanWrite(Hist!Gate) /\ lock # Hist!Gate => Hist!Seen(Hist!Gate) = db /\ lock = None
  BY <1>1 DEF Hist!OfGateway, Hist!CanWrite, Hist!Seen
<1>5. Hist!IdleThread \in Hist!Feedbacks
  BY DEF Hist!IdleThread, Hist!Feedbacks
<1> QED
  BY <1>1, <1>2, <1>3, <1>4, <1>5

\* A thread of its type, and the others as they were.
LEMMA ThreadTypes ==
    ASSUME Given, Hist!TypeOK, NEW t \in Threads, Hist!StorageOK', cli' = cli, faults' \in Nat,
           mixed' \in BOOLEAN, refused' \in BOOLEAN, fed' \subseteq [id : FedIds, runs : SUBSET Nat],
           NEW q \in Hist!Feedbacks, q.pc # "idle" => q.id \in FedIds, thread' = [thread EXCEPT ![t] = q]
    PROVE  Hist!TypeOK' /\ thread'[t] = q /\ \A u \in Threads \ {t} : thread'[u] = thread[u]
<1>1. thread'[t] = q /\ \A u \in Threads \ {t} : thread'[u] = thread[u]
  BY DEF Hist!TypeOK
<1> QED
  BY <1>1 DEF Hist!TypeOK

\* The id of the next run is nobody's yet.
LEMMA NextIsFresh ==
    ASSUME Given, Hist!HistoryInv
    PROVE  /\ \A f \in fed : Hist!Seen(Hist!Gate).next \notin f.runs
           /\ \A t \in Threads :
                 /\ thread[t].pc # "idle" => Hist!Seen(Hist!Gate).next \notin thread[t].got
                 /\ thread[t].pc \in Hist!HalfDone \cup {"commit"} => thread[t].run # Hist!Seen(Hist!Gate).next
<1> DEFINE n == Hist!Seen(Hist!Gate).next
<1>1. n \in Nat /\ \A r \in Hist!Seen(Hist!Gate).runs : r.id < n
  BY GatewayFacts DEF Hist!Numbered
<1>2. /\ ~Hist!Begun(Hist!Seen(Hist!Gate).runs, n)
      /\ \A id : ~Hist!Holds(Hist!Seen(Hist!Gate).runs, id, n)
  BY <1>1 DEF Hist!Begun, Hist!Holds
<1>3. \A id, ns : Hist!Committed(id, ns) => n \notin ns
  BY <1>2 DEF Hist!Committed
<1> QED
  BY <1>2, <1>3, GatewayFacts DEF Hist!FeedsKept, Hist!KeptFor, Hist!HalfDone

\* The gateway still sees what was fed back in the runs ns.
SeenKeeps(ns) ==
    \A n \in ns :
        /\ Hist!Begun(Hist!Seen(Hist!Gate).runs, n) => Hist!Begun(Hist!Seen(Hist!Gate)'.runs, n)
        /\ \A id : Hist!Holds(Hist!Seen(Hist!Gate).runs, id, n) => Hist!Holds(Hist!Seen(Hist!Gate)'.runs, id, n)

\* Then they are kept, if what is on disk is what was there or what is seen.
LEMMA CommittedKept ==
    ASSUME NEW ns, SeenKeeps(ns), db'.runs = db.runs \/ db'.runs = Hist!Seen(Hist!Gate)'.runs
    PROVE  \A id : Hist!Committed(id, ns) => Hist!Committed(id, ns)'
  BY DEF Hist!Committed, SeenKeeps

LEMMA ThreadKept ==
    ASSUME Given, Hist!HistoryInv, NEW u \in Threads, thread'[u] = thread[u],
           thread[u].pc # "idle" => SeenKeeps(thread[u].got),
           thread[u].pc \in Hist!HalfDone \cup {"commit"} => SeenKeeps({thread[u].run}),
           db'.runs = db.runs \/ db'.runs = Hist!Seen(Hist!Gate)'.runs,
           lock' = Hist!Gate \/ lock # Hist!Gate \/ db'.runs = Hist!Seen(Hist!Gate)'.runs
    PROVE  Hist!KeptFor(u)'
<1>1. Hist!KeptFor(u)
  BY GatewayFacts DEF Hist!FeedsKept
<1>2. thread[u].pc # "idle" => Hist!Committed(thread[u].id, thread[u].got)'
  BY <1>1, CommittedKept DEF Hist!KeptFor, Hist!HalfDone
<1>3. thread[u].pc \in {"cases", "undo"} =>
          /\ Hist!Begun(Hist!Seen(Hist!Gate)'.runs, thread[u].run)
          /\ lock' # Hist!Gate => Hist!Begun(db'.runs, thread[u].run)
  BY <1>1 DEF Hist!KeptFor, Hist!HalfDone, SeenKeeps
<1>4. thread[u].pc = "commit" => /\ Hist!Holds(Hist!Seen(Hist!Gate)'.runs, thread[u].id, thread[u].run)
                                 /\ lock' # Hist!Gate => Hist!Holds(db'.runs, thread[u].id, thread[u].run)
  BY <1>1 DEF Hist!KeptFor, Hist!HalfDone, SeenKeeps
<1>5. thread'[u] = thread[u]
  OBVIOUS
<1> QED
  BY <1>2, <1>3, <1>4, <1>5 DEF Hist!KeptFor, Hist!HalfDone

\* A step in which the gateway sees the same.
LEMMA FeedsSeenAlike ==
    ASSUME Given, Hist!HistoryInv, db' = db, lock' = lock,
           Hist!Seen(Hist!Gate)' = Hist!Seen(Hist!Gate), fed' = fed,
           \A u \in Threads : thread'[u] = thread[u] \/ Hist!KeptFor(u)'
    PROVE  Hist!FeedsKept'
<1>1. \A ns : SeenKeeps(ns)
  BY DEF SeenKeeps
<1>2. \A f \in fed : Hist!Committed(f.id, f.runs)'
  BY <1>1, CommittedKept, GatewayFacts DEF Hist!FeedsKept
<1>3. \A u \in Threads : Hist!KeptFor(u)'
  BY <1>1, ThreadKept
<1> QED
  BY <1>2, <1>3 DEF Hist!FeedsKept

LEMMA FeedStep ==
    ASSUME Given, Hist!HistoryInv, NEW t \in Threads, NEW id \in FedIds, NEW k \in Bursts,
           Hist!Feed(t, id, k)
    PROVE  Hist!HistoryInv'
<1> DEFINE q == [Hist!IdleThread EXCEPT !.pc = "run", !.id = id, !.left = k]
<1>1. /\ thread[t].pc = "idle" /\ thread' = [thread EXCEPT ![t] = q]
      /\ UNCHANGED <<db, lock, tx, view, cli, mixed, refused, fed, faults>>
  BY DEF Hist!Feed
<1>2. q \in Hist!Feedbacks /\ q.pc = "run" /\ q.id = id /\ q.got = {}
  BY DEF Given, Hist!IdleThread, Hist!Feedbacks
<1> HIDE DEF q
<1>3. Hist!TypeOK' /\ thread'[t] = q /\ \A u \in Threads \ {t} : thread'[u] = thread[u]
  <2>1. Hist!StorageOK' /\ faults' \in Nat /\ mixed' \in BOOLEAN /\ refused' \in BOOLEAN
        /\ fed' \subseteq [id : FedIds, runs : SUBSET Nat]
    BY <1>1, GatewayFacts DEF Hist!StorageOK, Hist!TypeOK
  <2> QED
    BY <1>1, <1>2, <2>1, GatewayFacts, ThreadTypes
<1>4. Hist!OnDisk'
  BY <1>1, GatewayFacts DEF Hist!OnDisk
<1>5. Hist!OfGateway'
  <2>1. \A u \in Threads : thread[u].pc = "cases" => thread'[u] = thread[u]
    BY <1>1, <1>3
  <2> QED
    BY <1>1, <2>1, GatewayFacts DEF Hist!OfGateway
<1>6. Hist!FeedsKept'
  <2>1. Hist!Seen(Hist!Gate)' = Hist!Seen(Hist!Gate)
    BY <1>1 DEF Hist!Seen
  <2>2. Hist!KeptFor(t)'
    BY <1>2, <1>3 DEF Hist!KeptFor, Hist!HalfDone, Hist!Committed
  <2> QED
    BY <1>1, <1>3, <2>1, <2>2, FeedsSeenAlike
<1>7. Hist!Apart'
  BY <1>1, <1>2, <1>3, GatewayFacts DEF Hist!Apart, Hist!HalfDone
<1> QED
  BY <1>1, <1>3, <1>4, <1>5, <1>6, <1>7, GatewayStep

LEMMA FeedRunStep ==
    ASSUME Given, Hist!HistoryInv, NEW t \in Threads, Hist!FeedRun(t) PROVE Hist!HistoryInv'
<1> DEFINE n == Hist!Seen(Hist!Gate).next
           d == Hist!AddRun(Hist!Seen(Hist!Gate), "synthetic", Hist!FedStamp, 0)
           q == [thread[t] EXCEPT !.pc = "cases", !.run = Hist!Seen(Hist!Gate).next]
           me == thread[t]
<1>1. /\ me.pc = "run" /\ Hist!Write(Hist!Gate, d) /\ UNCHANGED <<cli, mixed, refused, fed, faults>>
      /\ thread' = [thread EXCEPT ![t].pc = "cases", ![t].run = Hist!Seen(Hist!Gate).next]
  BY DEF Hist!FeedRun
<1>2. PICK r : /\ d \in Hist!Databases /\ d.runs = Hist!Seen(Hist!Gate).runs \cup {r}
               /\ r.id = n /\ r.stamp = Hist!FedStamp /\ Hist!Numbered(d)
  <2> DEFINE r == [id |-> n, file |-> "synthetic", stamp |-> Hist!FedStamp, at |-> 0, cases |-> {}]
  <2>1. Hist!FedStamp \in Hist!Stamps
    BY DEF Hist!Stamps
  <2>2. d \in Hist!Databases /\ d.runs = Hist!Seen(Hist!Gate).runs \cup {r}
    BY <2>1, GatewayFacts, RunAdded
  <2>3. Hist!Numbered(d)
    BY <2>1, GatewayFacts, StillNumbered
  <2>4. r.id = n /\ r.stamp = Hist!FedStamp
    OBVIOUS
  <2> HIDE DEF r, d
  <2> QED
    BY <2>2, <2>3, <2>4
<1>3. /\ q \in Hist!Feedbacks /\ q.pc = "cases" /\ q.run = n /\ q.id = me.id /\ q.got = me.got
      /\ me.id \in FedIds /\ thread' = [thread EXCEPT ![t] = q]
  <2>1. me \in Hist!Feedbacks /\ n \in Nat /\ me.id \in FedIds
    BY <1>1, GatewayFacts DEF Hist!TypeOK
  <2>2. q \in Hist!Feedbacks /\ q.pc = "cases" /\ q.run = n /\ q.id = me.id /\ q.got = me.got
    BY <2>1 DEF Hist!Feedbacks
  <2>3. thread' = [thread EXCEPT ![t] = q]
    BY <1>1, GatewayFacts DEF Hist!TypeOK, Hist!Feedbacks
  <2> QED
    BY <2>1, <2>2, <2>3
<1> HIDE DEF d, q
<1>4. /\ Hist!StorageOK' /\ Hist!CanWrite(Hist!Gate) /\ db' = db /\ lock' = Hist!Gate /\ tx' = tx \cup {Hist!Gate}
      /\ view'[Hist!Gate] = d /\ view'[Hist!Gate] # None /\ \A e \in Hist!Conns \ {Hist!Gate} : view'[e] = view[e]
  BY <1>1, <1>2, GatewayFacts, WriteEffect
<1>5. Hist!Seen(Hist!Gate)' = d
  BY <1>4 DEF Hist!Seen
<1>6. Hist!TypeOK' /\ thread'[t] = q /\ \A u \in Threads \ {t} : thread'[u] = thread[u]
  <2>1. faults' \in Nat /\ mixed' \in BOOLEAN /\ refused' \in BOOLEAN
        /\ fed' \subseteq [id : FedIds, runs : SUBSET Nat]
    BY <1>1, GatewayFacts DEF Hist!TypeOK
  <2> QED
    BY <1>1, <1>3, <1>4, <2>1, GatewayFacts, ThreadTypes
<1>7. Hist!OnDisk'
  BY <1>1, <1>4, GatewayFacts DEF Hist!OnDisk
<1>8. Hist!OfGateway'
  <2>1. \A u \in Threads : thread[u].pc = "cases" => thread'[u] = thread[u]
    BY <1>1, <1>6
  <2>2. \A s \in Hist!Seen(Hist!Gate).runs : Hist!Orphan(s) =>
            mixed \/ \E u \in Threads : thread[u].pc = "cases" /\ thread[u].run = s.id
    <3>1. CASE lock = Hist!Gate
      BY <3>1, GatewayFacts DEF Hist!OfGateway
    <3>2. CASE lock # Hist!Gate
      BY <1>4, <3>2, GatewayFacts DEF Hist!OnDisk
    <3> QED
      BY <3>1, <3>2
  <2>3. \A s \in d.runs : Hist!Orphan(s) =>
            mixed \/ \E u \in Threads : thread'[u].pc = "cases" /\ thread'[u].run = s.id
    BY <1>2, <1>3, <1>6, <2>1, <2>2
  <2> QED
    BY <1>1, <1>2, <1>4, <2>3 DEF Hist!OfGateway, Hist!Numbered, Hist!Orphan
<1>9. Hist!FeedsKept'
  <2>1. \A ns : SeenKeeps(ns)
    BY <1>2, <1>5 DEF SeenKeeps, Hist!Begun, Hist!Holds
  <2>2. \A f \in fed' : Hist!Committed(f.id, f.runs)'
    BY <1>1, <1>4, <2>1, CommittedKept, GatewayFacts DEF Hist!FeedsKept
  <2>3. \A u \in Threads \ {t} : Hist!KeptFor(u)'
    BY <1>4, <1>6, <2>1, ThreadKept
  <2>4. Hist!Begun(Hist!Seen(Hist!Gate)'.runs, n)
    BY <1>2, <1>5 DEF Hist!Begun
  <2>5. \A m \in me.got : Hist!Holds(db'.runs, me.id, m) /\ Hist!Holds(Hist!Seen(Hist!Gate)'.runs, me.id, m)
    <3>1. Hist!Committed(me.id, me.got)
      BY <1>1, GatewayFacts DEF Hist!FeedsKept, Hist!KeptFor, Hist!HalfDone
    <3> QED
      BY <1>4, <2>1, <3>1 DEF Hist!Committed, SeenKeeps
  <2>6. Hist!KeptFor(t)'
    BY <1>3, <1>4, <1>6, <2>4, <2>5 DEF Hist!KeptFor, Hist!HalfDone, Hist!Committed
  <2> QED
    BY <2>2, <2>3, <2>6 DEF Hist!FeedsKept
<1>10. Hist!Apart'
  <2>1. \A f \in fed' : n \notin f.runs
    BY <1>1, NextIsFresh
  <2>2. n \notin q.got
    BY <1>1, <1>3, NextIsFresh
  <2>3. \A u \in Threads \ {t} : /\ thread[u].pc # "idle" => n \notin thread[u].got
                                 /\ thread[u].pc \in Hist!HalfDone \cup {"commit"} => thread[u].run # n
    BY NextIsFresh
  <2>4. ASSUME NEW u \in Threads \ {t}, thread[u].pc \in Hist!HalfDone
        PROVE  /\ \A f \in fed' : thread[u].run \notin f.runs
               /\ thread[u].run \notin q.got /\ thread[u].run # n
               /\ \A w \in Threads \ {t} :
                    /\ thread[w].pc # "idle" => thread[u].run \notin thread[w].got
                    /\ w # u /\ thread[w].pc \in Hist!HalfDone \cup {"commit"} => thread[w].run # thread[u].run
    BY <1>1, <1>3, <2>3, <2>4, GatewayFacts DEF Hist!Apart, Hist!HalfDone
  <2> QED
    BY <1>3, <1>6, <2>1, <2>2, <2>3, <2>4 DEF Hist!Apart, Hist!HalfDone
<1>11. \A c \in Clis : view'[c] = view[c] /\ (lock' = c <=> lock = c)
  BY <1>4, GatewayFacts DEF Hist!CanWrite
<1> QED
  BY <1>1, <1>4, <1>6, <1>7, <1>8, <1>9, <1>10, <1>11, GatewayStep

LEMMA FeedCasesStep ==
    ASSUME Given, Hist!HistoryInv, NEW t \in Threads, Hist!FeedCases(t) PROVE Hist!HistoryInv'
<1> DEFINE me == thread[t]
           n == me.run
           row == [test |-> FedTests[me.id], status |-> "passed"]
           d == Hist!AddCases(Hist!Seen(Hist!Gate), n, {row})
           q == [thread[t] EXCEPT !.pc = "commit"]
<1>1. /\ me.pc = "cases" /\ Hist!Write(Hist!Gate, d) /\ UNCHANGED <<cli, mixed, refused, fed, faults>>
      /\ thread' = [thread EXCEPT ![t].pc = "commit"]
  BY DEF Hist!FeedCases
<1>2. me \in Hist!Feedbacks /\ n \in Nat /\ me.id \in FedIds
  BY <1>1, GatewayFacts DEF Hist!TypeOK, Hist!Feedbacks
<1>3. row = Hist!FedRow(me.id) /\ {row} \in SUBSET Hist!Cases
  <2>1. row = Hist!FedRow(me.id)
    BY DEF Hist!FedRow
  <2>2. \A id \in FedIds : Hist!FedRow(id) \in Hist!Cases
    BY Zenon DEF Hist!Cases
  <2> HIDE DEF row
  <2> QED
    BY <1>2, <2>1, <2>2
<1>4. /\ d \in Hist!Databases /\ Hist!Numbered(d)
      /\ \A r \in d.runs : r.id # n => r \in Hist!Seen(Hist!Gate).runs
      /\ \A r \in d.runs : r.id = n => r.cases = {row}
      /\ \A r \in Hist!Seen(Hist!Gate).runs : r.id # n => r \in d.runs
      /\ \A r \in Hist!Seen(Hist!Gate).runs : r.id = n => \E s \in d.runs :
            s.id = n /\ s.stamp = r.stamp /\ s.cases = {row}
  <2>1. Hist!Numbered(d)
    BY <1>2, <1>3, GatewayFacts, StillNumbered
  <2>2. Hist!Seen(Hist!Gate) \in Hist!Databases
    BY GatewayFacts
  <2> HIDE DEF row
  <2> QED
    BY <1>2, <1>3, <2>1, <2>2, CasesAdded
<1>5. /\ q \in Hist!Feedbacks /\ q.pc = "commit" /\ q.run = n /\ q.id = me.id /\ q.got = me.got
      /\ thread' = [thread EXCEPT ![t] = q]
  <2>1. q \in Hist!Feedbacks /\ q.pc = "commit" /\ q.run = n /\ q.id = me.id /\ q.got = me.got
    BY <1>2 DEF Hist!Feedbacks
  <2>2. thread' = [thread EXCEPT ![t] = q]
    BY <1>1, GatewayFacts DEF Hist!TypeOK, Hist!Feedbacks
  <2> QED
    BY <2>1, <2>2
<1> HIDE DEF d, q, row
<1>6. /\ Hist!StorageOK' /\ Hist!CanWrite(Hist!Gate) /\ db' = db /\ lock' = Hist!Gate /\ tx' = tx \cup {Hist!Gate}
      /\ view'[Hist!Gate] = d /\ view'[Hist!Gate] # None /\ \A e \in Hist!Conns \ {Hist!Gate} : view'[e] = view[e]
  BY <1>1, <1>4, GatewayFacts, WriteEffect
<1>7. Hist!Seen(Hist!Gate)' = d
  BY <1>6 DEF Hist!Seen
<1>8. Hist!TypeOK' /\ thread'[t] = q /\ \A u \in Threads \ {t} : thread'[u] = thread[u]
  <2>1. faults' \in Nat /\ mixed' \in BOOLEAN /\ refused' \in BOOLEAN
        /\ fed' \subseteq [id : FedIds, runs : SUBSET Nat]
    BY <1>1, GatewayFacts DEF Hist!TypeOK
  <2> QED
    BY <1>1, <1>2, <1>5, <1>6, <2>1, GatewayFacts, ThreadTypes
<1>9. Hist!OnDisk'
  BY <1>1, <1>6, GatewayFacts DEF Hist!OnDisk
<1>10. Hist!OfGateway'
  <2>1. \A s \in Hist!Seen(Hist!Gate).runs : Hist!Orphan(s) =>
            mixed \/ \E u \in Threads : thread[u].pc = "cases" /\ thread[u].run = s.id
    <3>1. CASE lock = Hist!Gate
      BY <3>1, GatewayFacts DEF Hist!OfGateway
    <3>2. CASE lock # Hist!Gate
      BY <1>6, <3>2, GatewayFacts DEF Hist!OnDisk
    <3> QED
      BY <3>1, <3>2
  <2>2. \A s \in d.runs : Hist!Orphan(s) => s.id # n
    BY <1>4 DEF Hist!Orphan
  <2>3. \A s \in d.runs : Hist!Orphan(s) =>
            mixed \/ \E u \in Threads : thread'[u].pc = "cases" /\ thread'[u].run = s.id
    BY <1>4, <1>8, <2>1, <2>2
  <2> QED
    BY <1>1, <1>4, <1>6, <2>3 DEF Hist!OfGateway, Hist!Numbered, Hist!Orphan
<1>11. Hist!FeedsKept'
  <2>1. /\ \A m : Hist!Begun(Hist!Seen(Hist!Gate).runs, m) => Hist!Begun(Hist!Seen(Hist!Gate)'.runs, m)
        /\ \A m, id : m # n /\ Hist!Holds(Hist!Seen(Hist!Gate).runs, id, m) => Hist!Holds(Hist!Seen(Hist!Gate)'.runs, id, m)
    BY <1>4, <1>7 DEF Hist!Begun, Hist!Holds
  <2>2. \A ns : n \notin ns => SeenKeeps(ns)
    BY <2>1 DEF SeenKeeps
  <2>3. /\ \A f \in fed : n \notin f.runs
        /\ n \notin me.got
        /\ \A u \in Threads \ {t} :
             /\ thread[u].pc # "idle" => n \notin thread[u].got
             /\ thread[u].pc \in Hist!HalfDone \cup {"commit"} => n \notin {thread[u].run}
    BY <1>1, GatewayFacts DEF Hist!Apart, Hist!HalfDone
  <2>4. \A f \in fed' : Hist!Committed(f.id, f.runs)'
    BY <1>1, <1>6, <2>2, <2>3, CommittedKept, GatewayFacts DEF Hist!FeedsKept
  <2>5. \A u \in Threads \ {t} : Hist!KeptFor(u)'
    BY <1>6, <1>8, <2>2, <2>3, ThreadKept
  <2>6. Hist!Holds(Hist!Seen(Hist!Gate)'.runs, me.id, n)
    <3>1. PICK r \in Hist!Seen(Hist!Gate).runs : r.id = n /\ r.stamp = Hist!FedStamp
      BY <1>1, GatewayFacts DEF Hist!FeedsKept, Hist!KeptFor, Hist!HalfDone, Hist!Begun
    <3> QED
      BY <1>3, <1>4, <1>7, <3>1 DEF Hist!Holds
  <2>7. \A m \in me.got : Hist!Holds(db'.runs, me.id, m) /\ Hist!Holds(Hist!Seen(Hist!Gate)'.runs, me.id, m)
    <3>1. Hist!Committed(me.id, me.got)
      BY <1>1, GatewayFacts DEF Hist!FeedsKept, Hist!KeptFor, Hist!HalfDone
    <3> QED
      BY <1>6, <2>2, <2>3, <3>1 DEF Hist!Committed, SeenKeeps
  <2>8. Hist!KeptFor(t)'
    BY <1>5, <1>6, <1>8, <2>6, <2>7 DEF Hist!KeptFor, Hist!HalfDone, Hist!Committed
  <2> QED
    BY <2>4, <2>5, <2>8 DEF Hist!FeedsKept
<1>12. Hist!Apart'
  BY <1>1, <1>5, <1>8, GatewayFacts DEF Hist!Apart, Hist!HalfDone
<1>13. \A c \in Clis : view'[c] = view[c] /\ (lock' = c <=> lock = c)
  BY <1>6, GatewayFacts DEF Hist!CanWrite
<1> QED
  BY <1>1, <1>6, <1>8, <1>9, <1>10, <1>11, <1>12, <1>13, GatewayStep

LEMMA FeedRefusedStep ==
    ASSUME Given, Hist!HistoryInv, NEW t \in Threads, Hist!FeedRefused(t)
    PROVE  Hist!HistoryInv'
<1> DEFINE me == thread[t]
           q == IF me.pc = "run" THEN Hist!IdleThread ELSE [me EXCEPT !.pc = "undo"]
<1>1. /\ Hist!Refused(Hist!Gate) /\ refused' = TRUE /\ UNCHANGED <<cli, mixed, fed, faults>>
      /\ me.pc \in {"run", "cases"} /\ thread' = [thread EXCEPT ![t] = q]
  BY DEF Hist!FeedRefused
<1>2. /\ Hist!StorageOK' /\ lock # Hist!Gate /\ db' = db /\ lock' = lock /\ tx' = tx \cup {Hist!Gate} /\ view' = view
  BY <1>1, GatewayFacts, RefusedEffect DEF Hist!CanWrite
<1>8. /\ q \in Hist!Feedbacks /\ q.pc \in {"idle", "undo"} /\ me.id \in FedIds
      /\ q.pc = "undo" => me.pc = "cases" /\ q.id = me.id /\ q.run = me.run /\ q.got = me.got
  <2>1. me \in Hist!Feedbacks /\ me.id \in FedIds
    BY <1>1, GatewayFacts DEF Hist!TypeOK
  <2>2. CASE me.pc = "run"
    BY <2>1, <2>2, GatewayFacts DEF Hist!IdleThread
  <2>3. CASE me.pc = "cases"
    BY <2>1, <2>3 DEF Hist!Feedbacks
  <2> QED
    BY <1>1, <2>2, <2>3
<1> HIDE DEF q
<1>3. Hist!TypeOK' /\ thread'[t] = q /\ \A u \in Threads \ {t} : thread'[u] = thread[u]
  <2>1. /\ faults' \in Nat /\ mixed' \in BOOLEAN /\ refused' \in BOOLEAN
        /\ fed' \subseteq [id : FedIds, runs : SUBSET Nat]
    BY <1>1, GatewayFacts DEF Hist!TypeOK
  <2>2. q.pc # "idle" => q.id \in FedIds
    BY <1>8
  <2> QED
    BY <1>1, <1>2, <1>8, <2>1, <2>2, GatewayFacts, ThreadTypes
<1>4. Hist!OnDisk'
  BY <1>1, <1>2, GatewayFacts DEF Hist!OnDisk
<1>5. Hist!OfGateway'
  BY <1>1, <1>2, GatewayFacts DEF Hist!OfGateway
<1>6. Hist!FeedsKept'
  <2>1. Hist!Seen(Hist!Gate)' = Hist!Seen(Hist!Gate)
    BY <1>2 DEF Hist!Seen
  <2>2. Hist!KeptFor(t)'
    <3>1. CASE q.pc = "idle"
      BY <1>3, <3>1 DEF Hist!KeptFor, Hist!HalfDone
    <3>2. CASE q.pc = "undo"
      <4>1. Hist!KeptFor(t) /\ me.pc = "cases"
        BY <1>8, <3>2, GatewayFacts DEF Hist!FeedsKept
      <4>2. \A m \in me.got : /\ Hist!Holds(db'.runs, me.id, m)
                             /\ Hist!Holds(Hist!Seen(Hist!Gate)'.runs, me.id, m)
        BY <1>2, <2>1, <4>1 DEF Hist!KeptFor, Hist!Committed
      <4>3. /\ Hist!Begun(Hist!Seen(Hist!Gate)'.runs, me.run)
            /\ lock' # Hist!Gate => Hist!Begun(db'.runs, me.run)
        BY <1>2, <2>1, <4>1 DEF Hist!KeptFor, Hist!HalfDone
      <4> QED
        BY <1>3, <1>8, <3>2, <4>2, <4>3 DEF Hist!KeptFor, Hist!Committed
    <3> QED
      BY <1>8, <3>1, <3>2
  <2> QED
    BY <1>1, <1>2, <1>3, <2>1, <2>2, FeedsSeenAlike
<1>7. Hist!Apart'
  BY <1>1, <1>3, <1>8, GatewayFacts DEF Hist!Apart, Hist!HalfDone
<1> QED
  BY <1>1, <1>2, <1>3, <1>4, <1>5, <1>6, <1>7, GatewayStep

LEMMA FeedUndoStep ==
    ASSUME Given, Hist!HistoryInv, NEW t \in Threads, Hist!FeedUndo(t)
    PROVE  Hist!HistoryInv'
<1> DEFINE me == thread[t]
           n == me.run
           d == Hist!DropRun(Hist!Seen(Hist!Gate), n)
<1>1. /\ me.pc = "undo"
      /\ Hist!Write(Hist!Gate, d) \/ Hist!Refused(Hist!Gate)
      /\ refused' = TRUE /\ UNCHANGED <<cli, mixed, fed, faults>>
      /\ thread' = [thread EXCEPT ![t] = Hist!IdleThread]
  BY DEF Hist!FeedUndo
<1>2. n \in Nat
  BY <1>1, GatewayFacts DEF Hist!Feedbacks
<1>3. /\ d \in Hist!Databases /\ d.runs = {r \in Hist!Seen(Hist!Gate).runs : r.id # n}
      /\ Hist!Numbered(d)
  <2>1. Hist!Numbered(d)
    BY <1>2, GatewayFacts, StillNumbered
  <2>2. Hist!Seen(Hist!Gate) \in Hist!Databases
    BY GatewayFacts
  <2> QED
    BY <1>2, <2>1, <2>2, RunDropped
<1> HIDE DEF d
<1>4. /\ Hist!StorageOK' /\ db' = db
      /\ \/ /\ Hist!CanWrite(Hist!Gate) /\ lock' = Hist!Gate /\ view'[Hist!Gate] = d /\ view'[Hist!Gate] # None
            /\ \A e \in Hist!Conns \ {Hist!Gate} : view'[e] = view[e]
         \/ lock # Hist!Gate /\ lock' = lock /\ view' = view
  <2>1. CASE Hist!Write(Hist!Gate, d)
    BY <1>3, <2>1, GatewayFacts, WriteEffect
  <2>2. CASE Hist!Refused(Hist!Gate)
    BY <2>2, GatewayFacts, RefusedEffect DEF Hist!CanWrite
  <2> QED
    BY <1>1, <2>1, <2>2
<1>5. /\ Hist!TypeOK' /\ thread'[t] = Hist!IdleThread /\ Hist!IdleThread.pc = "idle"
      /\ \A u \in Threads \ {t} : thread'[u] = thread[u]
  <2>1. /\ faults' \in Nat /\ mixed' \in BOOLEAN /\ refused' \in BOOLEAN
        /\ fed' \subseteq [id : FedIds, runs : SUBSET Nat] /\ Hist!IdleThread.pc = "idle"
    BY <1>1, GatewayFacts DEF Hist!TypeOK, Hist!IdleThread
  <2> QED
    BY <1>1, <1>4, <2>1, GatewayFacts, ThreadTypes
<1>6. Hist!OnDisk'
  BY <1>1, <1>4, GatewayFacts DEF Hist!OnDisk
<1>7. \A u \in Threads : thread[u].pc = "cases" => thread'[u] = thread[u]
  BY <1>1, <1>5
<1>8. CASE /\ Hist!CanWrite(Hist!Gate) /\ lock' = Hist!Gate /\ view'[Hist!Gate] = d /\ view'[Hist!Gate] # None
           /\ \A e \in Hist!Conns \ {Hist!Gate} : view'[e] = view[e]
  <2>1. Hist!Seen(Hist!Gate)' = d
    BY <1>8 DEF Hist!Seen
  <2>2. Hist!OfGateway'
    <3>1. \A s \in Hist!Seen(Hist!Gate).runs : Hist!Orphan(s) =>
              mixed \/ \E u \in Threads : thread[u].pc = "cases" /\ thread[u].run = s.id
      <4>1. CASE lock = Hist!Gate
        BY <4>1, GatewayFacts DEF Hist!OfGateway
      <4>2. CASE lock # Hist!Gate
        BY <1>8, <4>2, GatewayFacts DEF Hist!OnDisk
      <4> QED
        BY <4>1, <4>2
    <3>2. \A s \in d.runs : Hist!Orphan(s) =>
              mixed \/ \E u \in Threads : thread'[u].pc = "cases" /\ thread'[u].run = s.id
      BY <1>3, <1>7, <3>1
    <3> QED
      BY <1>1, <1>3, <1>8, <3>2 DEF Hist!OfGateway, Hist!Numbered, Hist!Orphan
  <2>3. Hist!FeedsKept'
    \* Only run n is gone, and it is nobody else's.
    <3>1. \A ns : n \notin ns => SeenKeeps(ns)
      BY <1>3, <2>1 DEF SeenKeeps, Hist!Begun, Hist!Holds
    <3>2. /\ \A f \in fed : n \notin f.runs
          /\ \A u \in Threads \ {t} :
               /\ thread[u].pc # "idle" => n \notin thread[u].got
               /\ thread[u].pc \in Hist!HalfDone \cup {"commit"} => n \notin {thread[u].run}
      BY <1>1, GatewayFacts DEF Hist!Apart, Hist!HalfDone
    <3>3. \A f \in fed' : Hist!Committed(f.id, f.runs)'
      BY <1>1, <1>4, <3>1, <3>2, CommittedKept, GatewayFacts DEF Hist!FeedsKept
    <3>4. \A u \in Threads \ {t} : Hist!KeptFor(u)'
      BY <1>4, <1>5, <1>8, <3>1, <3>2, ThreadKept
    <3>5. Hist!KeptFor(t)'
      BY <1>5 DEF Hist!KeptFor, Hist!HalfDone
    <3> QED
      BY <3>3, <3>4, <3>5 DEF Hist!FeedsKept
  <2>4. Hist!Apart'
    BY <1>1, <1>5, GatewayFacts DEF Hist!Apart, Hist!HalfDone
  <2>5. \A c \in Clis : view'[c] = view[c] /\ (lock' = c <=> lock = c)
    BY <1>8, GatewayFacts DEF Hist!CanWrite
  <2> QED
    BY <1>1, <1>4, <1>5, <1>6, <2>2, <2>3, <2>4, <2>5, GatewayStep
<1>9. CASE lock # Hist!Gate /\ lock' = lock /\ view' = view
  <2>1. Hist!OfGateway'
    BY <1>1, <1>4, <1>9, GatewayFacts DEF Hist!OfGateway
  <2>2. Hist!Seen(Hist!Gate)' = Hist!Seen(Hist!Gate)
    BY <1>4, <1>9 DEF Hist!Seen
  <2>3. Hist!KeptFor(t)'
    BY <1>5 DEF Hist!KeptFor, Hist!HalfDone
  <2>4. Hist!FeedsKept'
    BY <1>1, <1>4, <1>5, <1>9, <2>2, <2>3, FeedsSeenAlike
  <2>5. Hist!Apart'
    BY <1>1, <1>5, GatewayFacts DEF Hist!Apart, Hist!HalfDone
  <2> QED
    BY <1>1, <1>4, <1>5, <1>6, <1>9, <2>1, <2>4, <2>5, GatewayStep
<1> QED
  BY <1>4, <1>8, <1>9

LEMMA FeedCommitStep ==
    ASSUME Given, Hist!HistoryInv, NEW t \in Threads, Hist!FeedCommit(t) PROVE Hist!HistoryInv'
<1> DEFINE me == thread[t]
           all == me.got \cup {me.run}
           q == IF me.left > 1
                THEN [me EXCEPT !.pc = "run", !.left = @ - 1, !.got = @ \cup {me.run}]
                ELSE Hist!IdleThread
<1>1. /\ me.pc = "commit" /\ Hist!Commit(Hist!Gate) /\ UNCHANGED <<cli, refused, faults>>
      /\ mixed' = (mixed \/ \E u \in Threads : thread[u].pc = "cases")
      /\ thread' = [thread EXCEPT ![t] = q]
      /\ fed' = IF me.left > 1 THEN fed ELSE fed \cup {[id |-> me.id, runs |-> all]}
  BY DEF Hist!FeedCommit
<1>2. me \in Hist!Feedbacks /\ me.id \in FedIds /\ all \subseteq Nat
  BY <1>1, GatewayFacts DEF Hist!TypeOK, Hist!Feedbacks
<1>3. /\ q \in Hist!Feedbacks /\ q.pc \in {"run", "idle"}
      /\ q.pc = "run" => q.id = me.id /\ q.got = all
  <2>1. CASE me.left > 1
    <3>1. me.left - 1 \in Nat /\ all \in SUBSET Nat
      BY <1>2, <2>1 DEF Hist!Feedbacks
    <3>2. q = [me EXCEPT !.pc = "run", !.left = @ - 1, !.got = @ \cup {me.run}]
      BY <2>1
    <3>3. me = [pc |-> me.pc, id |-> me.id, left |-> me.left, run |-> me.run, got |-> me.got]
      BY <1>2 DEF Hist!Feedbacks
    <3>4. q = [pc |-> "run", id |-> me.id, left |-> me.left - 1, run |-> me.run, got |-> all]
      BY <3>2, <3>3
    <3> HIDE DEF q, all, me
    <3> QED
      BY <1>2, <3>1, <3>4 DEF Hist!Feedbacks
  <2>2. CASE ~(me.left > 1)
    BY <2>2, GatewayFacts DEF Hist!IdleThread
  <2> QED
    BY <2>1, <2>2
<1>4. /\ Hist!StorageOK'
      /\ lock # Hist!Gate => db' = db
      /\ lock = Hist!Gate => /\ db'.runs = view[Hist!Gate].runs /\ db'.next = view[Hist!Gate].next
                             /\ db'.ver = db.ver + 1
      /\ lock' = (IF lock = Hist!Gate THEN None ELSE lock) /\ tx' = tx \ {Hist!Gate}
      /\ view'[Hist!Gate] = None /\ \A e \in Hist!Conns \ {Hist!Gate} : view'[e] = view[e]
  BY <1>1, GatewayFacts, CommitEffect DEF Hist!OfGateway
<1>5. \A f \in fed' : f \in fed \/ (f.id = me.id /\ f.runs = all)
  BY <1>1
<1> HIDE DEF q
<1>6. Hist!TypeOK' /\ thread'[t] = q /\ \A u \in Threads \ {t} : thread'[u] = thread[u]
  <2>1. /\ faults' \in Nat /\ mixed' \in BOOLEAN /\ refused' \in BOOLEAN
    BY <1>1, GatewayFacts DEF Hist!TypeOK
  <2>2. fed' \subseteq [id : FedIds, runs : SUBSET Nat]
    BY <1>1, <1>2, GatewayFacts DEF Hist!TypeOK
  <2>3. q.pc # "idle" => q.id \in FedIds
    BY <1>2, <1>3
  <2> QED
    BY <1>1, <1>3, <1>4, <2>1, <2>2, <2>3, GatewayFacts, ThreadTypes
<1>7. lock' # Hist!Gate
  BY <1>4, GatewayFacts
<1>8. Hist!OnDisk'
  <2>1. CASE lock = Hist!Gate
    BY <1>1, <1>4, <2>1, GatewayFacts DEF Hist!OnDisk, Hist!OfGateway, Hist!Numbered,
       Hist!Orphan
  <2>2. CASE lock # Hist!Gate
    BY <1>1, <1>4, <2>2, GatewayFacts DEF Hist!OnDisk
  <2> QED
    BY <2>1, <2>2
<1>9. Hist!OfGateway'
  BY <1>4, <1>7 DEF Hist!OfGateway
<1>10. /\ Hist!Seen(Hist!Gate)' = db'
       /\ \A n, id : /\ Hist!Holds(db.runs, id, n) /\ Hist!Holds(Hist!Seen(Hist!Gate).runs, id, n) => Hist!Holds(db'.runs, id, n)
       /\ \A n : Hist!Begun(Hist!Seen(Hist!Gate).runs, n) /\ (lock # Hist!Gate => Hist!Begun(db.runs, n)) => Hist!Begun(db'.runs, n)
       /\ \A n, id : Hist!Holds(Hist!Seen(Hist!Gate).runs, id, n) /\ (lock # Hist!Gate => Hist!Holds(db.runs, id, n))
                        => Hist!Holds(db'.runs, id, n)
  BY <1>4, GatewayFacts DEF Hist!Seen
<1>11. \A id, ns : Hist!Committed(id, ns) => Hist!Committed(id, ns)'
  BY <1>10 DEF Hist!Committed
<1>12. \A m \in all : Hist!Holds(db'.runs, me.id, m)
  <2>1. Hist!Committed(me.id, me.got)
    BY <1>1, GatewayFacts DEF Hist!FeedsKept, Hist!KeptFor, Hist!HalfDone
  <2>2. Hist!Holds(db'.runs, me.id, me.run)
    BY <1>1, <1>10, GatewayFacts DEF Hist!FeedsKept, Hist!KeptFor, Hist!HalfDone
  <2> QED
    BY <1>10, <2>1, <2>2 DEF Hist!Committed
<1>13. Hist!FeedsKept'
  <2>1. \A f \in fed' : Hist!Committed(f.id, f.runs)'
    <3>1. \A f \in fed : Hist!Committed(f.id, f.runs)'
      BY <1>11, GatewayFacts DEF Hist!FeedsKept
    <3>2. \A f \in fed' : f.id = me.id /\ f.runs = all => Hist!Committed(f.id, f.runs)'
      BY <1>10, <1>12 DEF Hist!Committed
    <3> QED
      BY <1>5, <3>1, <3>2
  <2>2. ASSUME NEW u \in Threads \ {t} PROVE Hist!KeptFor(u)'
    <3>1. Hist!KeptFor(u) /\ thread'[u] = thread[u]
      BY <1>6, GatewayFacts DEF Hist!FeedsKept
    <3>2. thread[u].pc # "idle" => \A m \in thread[u].got :
              Hist!Holds(db'.runs, thread[u].id, m) /\ Hist!Holds(Hist!Seen(Hist!Gate)'.runs, thread[u].id, m)
      BY <1>10, <3>1 DEF Hist!KeptFor, Hist!HalfDone, Hist!Committed
    <3> QED
      BY <1>10, <3>1, <3>2 DEF Hist!KeptFor, Hist!HalfDone, Hist!Committed
  <2>3. Hist!KeptFor(t)'
    BY <1>3, <1>6, <1>10, <1>12 DEF Hist!KeptFor, Hist!HalfDone, Hist!Committed
  <2> QED
    BY <2>1, <2>2, <2>3 DEF Hist!FeedsKept
<1>14. Hist!Apart'
  <2>1. ASSUME NEW u \in Threads \ {t}, thread[u].pc \in Hist!HalfDone
        PROVE  /\ thread[u].run \notin all
               /\ \A f \in fed : thread[u].run \notin f.runs
               /\ \A w \in Threads \ {t} :
                    /\ thread[w].pc # "idle" => thread[u].run \notin thread[w].got
                    /\ w # u /\ thread[w].pc \in Hist!HalfDone \cup {"commit"} => thread[w].run # thread[u].run
    BY <1>1, <2>1, GatewayFacts DEF Hist!Apart, Hist!HalfDone
  <2> QED
    BY <1>3, <1>5, <1>6, <2>1 DEF Hist!Apart, Hist!HalfDone
<1>15. \A c \in Clis : view'[c] = view[c] /\ (lock' = c <=> lock = c)
  BY <1>4, GatewayFacts
<1> QED
  BY <1>1, <1>4, <1>6, <1>8, <1>9, <1>13, <1>14, <1>15, GatewayStep

LEMMA LookupStep == ASSUME Given, Hist!HistoryInv, Hist!Lookup PROVE Hist!HistoryInv'
<1>1. /\ Hist!Gate \in tx /\ view[Hist!Gate] = None /\ view' = [view EXCEPT ![Hist!Gate] = db]
      /\ UNCHANGED <<db, lock, tx, cli, thread, mixed, refused, fed, faults>>
  BY DEF Hist!Lookup
<1>2. view'[Hist!Gate] = db /\ (\A e \in Hist!Conns \ {Hist!Gate} : view'[e] = view[e]) /\ db # None
  BY <1>1, GatewayFacts DEF Hist!TypeOK, Hist!StorageOK, Given
<1>3. Hist!TypeOK'
  BY <1>1, <1>2, GatewayFacts DEF Hist!TypeOK, Hist!StorageOK
<1>4. Hist!OnDisk'
  BY <1>1, GatewayFacts DEF Hist!OnDisk
<1>5. Hist!OfGateway'
  <2>1. db.ver \in Nat
    BY GatewayFacts DEF Hist!StorageOK, Hist!Databases
  <2> QED
    BY <1>1, <1>2, <2>1, GatewayFacts DEF Hist!OfGateway, Hist!OnDisk
<1>6. Hist!FeedsKept'
  <2>1. Hist!Seen(Hist!Gate)' = Hist!Seen(Hist!Gate)
    BY <1>1, <1>2 DEF Hist!Seen
  <2> QED
    BY <1>1, <2>1, FeedsSeenAlike
<1>7. Hist!Apart'
  BY <1>1, GatewayFacts DEF Hist!Apart, Hist!HalfDone
<1> QED
  BY <1>1, <1>2, <1>3, <1>4, <1>5, <1>6, <1>7, GatewayFacts, GatewayStep

LEMMA GateCrashStep == ASSUME Given, Hist!HistoryInv, Hist!GateCrash PROVE Hist!HistoryInv'
<1>1. /\ faults' = faults + 1 /\ Hist!Close(Hist!Gate) /\ refused' = FALSE
      /\ thread' = [t \in Threads |-> Hist!IdleThread] /\ UNCHANGED <<cli, mixed, fed>>
  BY DEF Hist!GateCrash
<1>2. /\ Hist!StorageOK' /\ db' = db /\ lock' = (IF lock = Hist!Gate THEN None ELSE lock) /\ tx' = tx \ {Hist!Gate}
      /\ view'[Hist!Gate] = None /\ \A e \in Hist!Conns \ {Hist!Gate} : view'[e] = view[e]
  BY <1>1, GatewayFacts, CloseEffect
<1>3. faults' \in Nat /\ Hist!IdleThread.pc = "idle"
  BY <1>1, GatewayFacts DEF Hist!IdleThread
<1>4. Hist!TypeOK'
  BY <1>1, <1>2, <1>3, GatewayFacts DEF Hist!TypeOK
<1>5. Hist!OnDisk'
  BY <1>1, <1>2, GatewayFacts DEF Hist!OnDisk
<1>6. Hist!OfGateway'
  BY <1>2, GatewayFacts DEF Hist!OfGateway
<1>7. Hist!FeedsKept'
  <2>1. \A id, ns : Hist!Committed(id, ns) => Hist!Committed(id, ns)'
    BY <1>2 DEF Hist!Committed, Hist!Seen
  <2> QED
    BY <1>1, <1>3, <2>1, GatewayFacts DEF Hist!FeedsKept, Hist!KeptFor, Hist!HalfDone
<1>8. Hist!Apart'
  BY <1>1, <1>3 DEF Hist!Apart, Hist!HalfDone
<1> QED
  BY <1>1, <1>2, <1>4, <1>5, <1>6, <1>7, <1>8, GatewayFacts, GatewayStep

-----------------------------------------------------------------------------
LEMMA HistoryInit == ASSUME Given PROVE Hist!Init => Hist!HistoryInv
<1> SUFFICES ASSUME Hist!Init PROVE Hist!HistoryInv
  OBVIOUS
<1>1. /\ db = [runs |-> {}, next |-> 1, ver |-> 0] /\ lock = None /\ tx = {}
      /\ view = [c \in Hist!Conns |-> None] /\ cli = [c \in Clis |-> Hist!IdleCli]
      /\ thread = [t \in Threads |-> Hist!IdleThread]
      /\ mixed = FALSE /\ refused = FALSE /\ fed = {} /\ faults = 0
  BY DEF Hist!Init
<1>2. Hist!IdleCli \in Hist!Ingests /\ Hist!IdleThread \in Hist!Feedbacks
  BY DEF Hist!IdleCli, Hist!IdleThread, Hist!Ingests, Hist!Feedbacks
<1>3. db \in Hist!Databases /\ db.runs = {} /\ db.next = 1
  BY <1>1 DEF Hist!Databases
<1>4. Hist!TypeOK
  BY <1>1, <1>2, <1>3 DEF Hist!TypeOK, Hist!StorageOK, Hist!IdleThread
<1>5. Hist!OnDisk /\ Hist!FeedsKept /\ Hist!Apart
  BY <1>1, <1>3 DEF Hist!OnDisk, Hist!Numbered, Hist!FeedsKept, Hist!KeptFor, Hist!HalfDone,
     Hist!Committed, Hist!Apart, Hist!HalfDone, Hist!IdleThread
<1>6. Hist!Gate \in Hist!Conns /\ Hist!Gate # None /\ \A c \in Clis : c \in Hist!Conns /\ c # None
  BY DEF Given, Hist!Conns
<1>7. Hist!OfGateway
  BY <1>1, <1>6 DEF Hist!OfGateway
<1>8. \A c \in Clis : Hist!OfProcess(c)
  BY <1>1, <1>6 DEF Hist!OfProcess, Hist!IdleCli
<1> QED
  BY <1>4, <1>5, <1>7, <1>8 DEF Hist!HistoryInv

LEMMA HistoryStep ==
    ASSUME Given
    PROVE  Hist!HistoryInv /\ [Hist!Next]_Hist!vars => Hist!HistoryInv'
<1> SUFFICES ASSUME Hist!HistoryInv, [Hist!Next]_Hist!vars PROVE Hist!HistoryInv'
  OBVIOUS
<1>1. ASSUME NEW c \in Clis, NEW f \in Hist!Files, Hist!StartIngest(c, <<f>>, TRUE) PROVE Hist!HistoryInv'
  <2>1. <<f>> \in Seq(Hist!Files)
    OBVIOUS
  <2> QED
    BY <1>1, <2>1, StartIngestStep
<1>2. ASSUME NEW c \in Clis, Hist!StartIngest(c, Directory, FALSE) PROVE Hist!HistoryInv'
  BY <1>2, StartIngestStep DEF Given
<1>3. ASSUME NEW c \in Clis, Hist!Ingest(c) PROVE Hist!HistoryInv'
  BY <1>3, ParseErrorStep, InsertRunStep, InsertRefusedStep, InsertCasesStep, UndoFileStep,
     CommitBatchStep DEF Hist!Ingest
<1>4. ASSUME NEW c \in Clis, Hist!CliCrash(c) PROVE Hist!HistoryInv'
  BY <1>4, CliCrashStep
<1>5. ASSUME NEW c \in Clis, NEW cut \in Cutoffs, Hist!Prune(c, cut) PROVE Hist!HistoryInv'
  BY <1>5, PruneStep
<1>6. ASSUME NEW t \in Threads, NEW id \in FedIds, NEW n \in Bursts, Hist!Feed(t, id, n) PROVE Hist!HistoryInv'
  BY <1>6, FeedStep
<1>7. ASSUME NEW t \in Threads, Hist!Feedback(t) PROVE Hist!HistoryInv'
  BY <1>7, FeedRunStep, FeedCasesStep, FeedRefusedStep, FeedUndoStep,
     FeedCommitStep DEF Hist!Feedback
<1>8. CASE UNCHANGED Hist!vars
  BY <1>8 DEF Hist!vars, Hist!HistoryInv, Hist!TypeOK, Hist!StorageOK, Hist!OnDisk,
     Hist!OfProcess, Hist!Ahead, Hist!File, Hist!OfGateway,
     Hist!FeedsKept, Hist!KeptFor, Hist!Committed, Hist!Seen, Hist!Apart, Hist!HalfDone
<1> QED
  BY <1>1, <1>2, <1>3, <1>4, <1>5, <1>6, <1>7, <1>8, LookupStep, GateCrashStep DEF Hist!Next

\* The inductive invariant, with the types of the database and its users.
THEOREM HistoryInvCorrect ==
    ASSUME Hist!HistoryAssumption PROVE Hist!Spec => []Hist!HistoryInv
  BY HistoryInit, HistoryStep, PTL DEF Given, Hist!Spec

\* What is on disk is whole.
LEMMA NothingHalfHolds == ASSUME Given, Hist!HistoryInv PROVE Hist!NothingHalf
<1>1. Hist!NoOrphans
  BY DEF Hist!HistoryInv, Hist!OnDisk, Hist!NoOrphans
<1>2. ASSUME NEW c \in Clis, NEW n \in (cli[c].got \cup {cli[c].run}) \cap Hist!StoredIds(db), n # 0
      PROVE  FALSE
  <2>1. PICK r \in db.runs : r.id = n
    BY DEF Hist!StoredIds
  <2>2. n < db.next /\ n \in Nat /\ db.next \in Nat
    BY <2>1, ProcessFacts DEF Hist!OnDisk, Hist!Numbered, Hist!Databases, Hist!Rows
  <2>3. lock = c
    BY <1>2, ProcessFacts DEF Hist!OfProcess
  <2>4. db.next <= n
    BY <1>2, <2>3, ProcessFacts DEF Hist!OfProcess, Hist!Ahead
  <2> QED
    BY <2>2, <2>4
<1> QED
  BY <1>1, <1>2 DEF Hist!NothingHalf, Hist!BatchWhole

\* What was noted as fed back is there to be counted.
LEMMA FedBackHolds == ASSUME Given, Hist!HistoryInv PROVE Hist!FedBackVisible
<1> SUFFICES ASSUME NEW f \in fed
             PROVE  Hist!FailureLookup(Hist!Seen(Hist!Gate).runs, f.id).total >= Cardinality(f.runs)
  BY SameSizes DEF Hist!FedBackVisible
<1>1. f.id \in FedIds /\ f.runs \in SUBSET Nat
  BY GatewayFacts DEF Hist!TypeOK
<1>2. \A n \in f.runs : Hist!Holds(Hist!Seen(Hist!Gate).runs, f.id, n)
  BY GatewayFacts DEF Hist!FeedsKept, Hist!Committed
<1> QED
  BY <1>1, <1>2, GatewayFacts, LookupCounts

\* Whatever processes and threads do to each other, no run without its cases
\* but a mixed one and no half directory is on disk.
THEOREM NothingHalfCorrect ==
    ASSUME Hist!HistoryAssumption PROVE Hist!Spec => []Hist!NothingHalf
  BY NothingHalfHolds, HistoryInvCorrect, PTL DEF Given

\* The gateway looks up what is on disk until one of its writes is refused.
THEOREM StaleOnlyAfterRefusalCorrect ==
    ASSUME Hist!HistoryAssumption PROVE Hist!Spec => []Hist!StaleOnlyAfterRefusal
<1>1. Hist!HistoryInv => Hist!StaleOnlyAfterRefusal
  BY DEF Hist!HistoryInv, Hist!TypeOK, Hist!StorageOK, Hist!OfGateway,
     Hist!StaleOnlyAfterRefusal, Hist!Stale, Hist!Conns
<1> QED
  BY <1>1, HistoryInvCorrect, PTL

\* A feedback that was noted is counted by every later lookup of its id.
THEOREM FedBackVisibleCorrect ==
    ASSUME Hist!HistoryAssumption PROVE Hist!Spec => []Hist!FedBackVisible
  BY FedBackHolds, HistoryInvCorrect, PTL DEF Given
=============================================================================
