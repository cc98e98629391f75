------------------------------ MODULE MCHealer ------------------------------
(* Instances of Healer.                                                      *)
EXTENDS Healer

Line(tag, sels, expect, timeout, starts, ends) ==
    [ tag |-> tag, sels |-> sels, locator |-> {}, expect |-> expect, timeout |-> timeout,
      budget |-> 0, starts |-> starts, ends |-> ends, waits |-> None ]

Open == Line("open", {}, FALSE, 0, TRUE, TRUE)
Check(timeout) == Line("check", {"b"}, TRUE, timeout, TRUE, TRUE)

\* An assertion with a short budget, and one that has been patched.
Short == <<Open, Check(1000)>>
Patched == <<Open, Check(5000)>>
Both == {Short, Patched}

\* Two assertions of the same shape, wrapped by the formatter.
Wrapped == {<< Line("expect(", {}, TRUE, 0, TRUE, FALSE), Line("a", {"a"}, FALSE, 0, FALSE, TRUE),
               Line("expect(", {}, TRUE, 0, TRUE, FALSE), Line("b", {"b"}, FALSE, 0, FALSE, TRUE) >>}

Trace(sig, timedOut) ==
    [ sig |-> sig, relaxed |-> "r", sel |-> "b", testid |-> None, safe |-> TRUE,
      timedOut |-> timedOut, resolved |-> TRUE, pending |-> timedOut, timeout |-> 0,
      markers |-> {}, expect |-> TRUE ]
OnlyTrace(trace) == [trace |-> trace, log |-> None]
FromLog == [trace |-> None, log |-> [sel |-> "b", markers |-> {}, timedOut |-> TRUE]]

\* A race, a failure only the model can name, and the trace of a run that
\* passed, which tells nothing.
Race == OnlyTrace(Trace("s1", TRUE))
Odd == OnlyTrace(Trace("s2", FALSE))
Known == {Race, Odd, OnlyTrace(Trace(None, TRUE))}
Traced == {Race, Odd}
Races == {Race}
Logged == {FromLog}

Says == {[cause |-> "timeout", sel |-> None], [cause |-> "bogus", sel |-> None]}
Asked == {None, "bump_timeout"}
Unasked == {None}
=============================================================================
