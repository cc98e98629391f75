------------------------------- MODULE PiiText -------------------------------
(* What the PII detectors find in a text: the hits of each detector, the     *)
(* spans that win where they overlap, and the text with its findings masked. *)
(* A text is the set of the hits of the detectors' regular expressions,      *)
(*   [type, from, to, ok]:                                                   *)
(* at most one of a type at each start (a search is greedy), ok when the     *)
(* detector's validator accepts it.                                          *)
(* A definition named ...Slip is the next one with a plausible mistake.      *)
EXTENDS Integers, Sequences, SequencesExt, FiniteSetsExt

CONSTANTS
    None,
    Order,       \* the detectors in the order they are run
    Confidence,  \* their priority where spans overlap, the least first
    Maximal      \* those that judge a maximal run: phone, passport

Types == ToSet(Order)
Span(h) == <<h.from, h.to>>
Overlaps(a, b) == a.from < b.to /\ b.from < a.to

-----------------------------------------------------------------------------
\* A search goes on past a hit that was rejected.
FindSlip(text, type, limit) ==
    LET Starts(a, b) == a.from < b.from
        Take(s, h) ==
            IF h.from < s.pos \/ (limit # None /\ Len(s.out) >= limit) THEN s
            ELSE [pos |-> h.to, out |-> IF h.ok THEN Append(s.out, h) ELSE s.out]
        hits == SetToSortSeq({h \in text : h.type = type}, Starts)
    IN  FoldLeft(Take, [pos |-> 0, out |-> <<>>], hits).out

\* One detector.  A search goes on after the hit it reports; after one that its
\* validator rejects, one character further on, for a valid value may be inside.
Find(text, type, limit) ==
    LET Starts(a, b) == a.from < b.from
        Take(s, h) ==
            IF h.from < s.pos \/ (limit # None /\ Len(s.out) >= limit) THEN s
            ELSE IF h.ok THEN [pos |-> h.to, out |-> Append(s.out, h)]
            ELSE [s EXCEPT !.pos = IF type \in Maximal THEN h.to ELSE h.from + 1]
        hits == SetToSortSeq({h \in text : h.type = type}, Starts)
    IN  FoldLeft(Take, [pos |-> 0, out |-> <<>>], hits).out

\* A span inside another is dropped: one sweep, the wider of two first.
DropContained(matches) ==
    LET Wider(a, b) == a[1] < b[1] \/ (a[1] = b[1] /\ a[2] > b[2])
        Sweep(s, span) ==
            IF span[2] <= s.widest THEN [s EXCEPT !.inside = @ \cup {span}]
            ELSE [s EXCEPT !.widest = span[2]]
        spans == SetToSortSeq({Span(h) : h \in matches}, Wider)
        inside == FoldLeft(Sweep, [widest |-> -1, inside |-> {}], spans).inside
    IN  {h \in matches : Span(h) \notin inside}

\* By confidence, then the longer, then the earlier.
Before(a, b) ==
    \/ Confidence[a.type] < Confidence[b.type]
    \/ /\ a.type = b.type
       /\ \/ a.to - a.from > b.to - b.from
          \/ a.to - a.from = b.to - b.from /\ a.from < b.from

\* The spans in their order; a claim looks at its neighbours outward, for as
\* long as they reach across.
Claimed(matches) ==
    LET First(a, b) ==
            \/ a.from < b.from \/ (a.from = b.from /\ a.to < b.to)
            \/ Span(a) = Span(b) /\ Before(a, b)
        ordered == SetToSortSeq(matches, First)
        Left(p, q) == q < p /\ \A k \in q..(p - 1) : ordered[k].to > ordered[p].from
        Right(p, q) == q > p /\ \A k \in (p + 1)..q : ordered[k].from < ordered[p].to
        Claim(s, p) == IF \E q \in s : Left(p, q) \/ Right(p, q) THEN s ELSE s \cup {p}
        Surer(p, q) == Before(ordered[p], ordered[q])
        claimed == FoldLeft(Claim, {}, SetToSortSeq(DOMAIN ordered, Surer))
        Won(h) == h \in {ordered[p] : p \in claimed}
    IN  IF \A p \in 2..Len(ordered) : ordered[p].from >= ordered[p - 1].to THEN ordered
        ELSE SelectSeq(ordered, Won)

Cut(s, n) == SubSeq(s, 1, Min({n, Len(s)}))

RunDetectors(text, types, limit) ==
    LET matches == UNION {ToSet(Find(text, t, limit)) : t \in types}
        found == Claimed(DropContained(matches))
    IN  IF limit = None THEN found ELSE Cut(found, limit)

\* What of a text is left to read where its findings are masked.
Masked(text) ==
    LET found == ToSet(RunDetectors(text, Types, None))
    IN  {h \in text : \A f \in found : ~Overlaps(h, f)}
=============================================================================
