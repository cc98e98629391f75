---------------------------- MODULE MCDetective -----------------------------
(* Instances of Detective.                                                 *)
EXTENDS Detective

X == [class |-> "A", name |-> "x", file |-> "f"]
Y == [class |-> "", name |-> "y", file |-> "g"]
Case(test, status) == [test |-> test, status |-> status]

\* x fails, x and y pass, x errs beside a skipped y.
Mixed == { {Case(X, "failed")}, {Case(X, "passed"), Case(Y, "passed")},
           {Case(X, "error"), Case(Y, "skipped")} }

\* A window of one unit, one failure enough.
Tunables(errors) == [window |-> 1, minFails |-> 1, errors |-> errors]
Plain == {Tunables(FALSE)}
Errors == {Tunables(TRUE), Tunables(FALSE)}

ByClass == {<<"A", "x">>}
ByFile == {<<"f", "x">>}
TwoTests == {<<"A", "x">>, <<"A", "z">>}
=============================================================================
