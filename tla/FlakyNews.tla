------------------------------ MODULE FlakyNews -----------------------------
(* What the reports of the flaky-test scans promise somebody who reads all   *)
(* of them: a test that was announced as flaky is not announced again before *)
(* it was cleared, and nothing is cleared that was not flaky.  A scan that   *)
(* dies after it stored its verdicts and before it printed its report takes  *)
(* its news with it: the tests of those news are lost on the reader until    *)
(* their next change.                                                        *)
CONSTANT Keys

VARIABLES
    told,    \* the tests a reader of every report believes flaky
    actual,  \* the tests that are flaky on record
    lost     \* the tests whose last change no report told

newsVars == <<told, actual, lost>>

New(now) == now \ actual
Gone(now) == actual \ now
Changed(now) == New(now) \cup Gone(now)

Init == told = {} /\ actual = {} /\ lost = {}

\* A scan finds these tests flaky and reports the changes.
Tell(now) ==
    /\ told' = (told \cup New(now)) \ Gone(now)
    /\ actual' = now
    /\ lost' = lost \ Changed(now)

\* A scan stores these tests as flaky and dies before its report.
Lose(now) ==
    /\ actual' = now
    /\ lost' = lost \cup Changed(now)
    /\ UNCHANGED told

Next == \E now \in SUBSET Keys : Tell(now) \/ Lose(now)

Spec == Init /\ [][Next]_newsVars

\* The reader errs only about the tests whose news were lost: reporting.py
\* promises the changes since the last scan.
ReaderKnows == \A k \in Keys : k \in told /\ k \notin actual => k \in lost
ReaderMisses == \A k \in Keys : k \in actual /\ k \notin told => k \in lost
=============================================================================
