------------------------------ MODULE MCTriage ------------------------------
(* Instances of Triage.                                                      *)
EXTENDS Triage

Line(shape, words, hit) == [shape |-> shape, words |-> words, hit |-> hit, size |-> 3]
Db == Line("db", <<"failed", "postgres", "refused">>, TRUE)
Pool == Line("pool", <<"error", "postgres", "refused">>, TRUE)
Dom == Line("dom", <<"failed", "selector">>, TRUE)
Step1 == Line("step", <<"building">>, FALSE)
Stamp == Line("", <<>>, FALSE)

Local(body) == [remote |-> FALSE, body |-> body]
Remote(body) == [remote |-> TRUE, body |-> body]

\* Two failures that resemble each other, one local and growing, the other too
\* long for the cap; a third; a log without signal; one of time stamps.
Seen3 == {Local(<<Db, Step1>>), Remote(<<Step1, Step1, Dom, Pool>>)}
Mixed == Seen3 \cup {Remote(<<Stamp>>)}

\* Two long logs with nothing in common.
Unlike == {Remote(<<Db, Db, Pool, Db>>), Remote(<<Dom, Dom, Step1, Dom>>)}
Growing == {Local(<<Step1, Step1, Step1, Db>>)}

\* All logs of up to five lines; a dump fills an excerpt by itself.
Dump == [Line("dump", <<"building">>, FALSE) EXCEPT !.size = 15]
Kinds == {Db, Line("long", <<"building">>, FALSE), [Dom EXCEPT !.size = 8], Dump}
AllLogs == UNION {[1..n -> Kinds] : n \in 0..5}
NoLogs == {}

Alike == Permutations(Calls)

\* The note fills the tokens of a truncated text.
Noted == <<"hermes", "triage", "prefilter">>
Common == {"failed", "error"}
=============================================================================
