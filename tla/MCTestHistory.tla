--------------------------- MODULE MCTestHistory ----------------------------
(* Instances of TestHistory.                                               *)
EXTENDS TestHistory, TLC

X == [class |-> "A", name |-> "x", file |-> "f"]
Y == [class |-> "", name |-> "y", file |-> "g"]
Case(test, status) == [test |-> test, status |-> status]

Report(root, direct, top, stamp) ==
    [ root |-> root, suites |-> top # {}, direct |-> direct, top |-> top, nested |-> {},
      total |-> None, rootTotal |-> None, stamp |-> stamp, mtime |-> 2 ]

\* A report of two tests, one that is no report, one that cannot be stored.
Reports ==
    [ f1 |-> Report("testsuites", {}, {Case(X, "failed"), Case(Y, "passed")}, 1),
      f2 |-> Report("html", {}, {}, None),
      f3 |-> Report("testsuite", {Case(X, "passed")}, {}, None) ]

InOrder == <<"f1", "f2", "f3">>
OneId == {<<"A", "x">>}
Fed == [id \in OneId |-> [class |-> id[1], name |-> id[2], file |-> "A::x"]]

CONSTANTS t1, t2
TwoThreads == {t1, t2}
Alike == Permutations(TwoThreads)
=============================================================================
