------------------------------- MODULE LogText -------------------------------
(* What triage makes of the text of a log: its capped transfer, the excerpt  *)
(* around the lines that signal a failure, its signature and its tokens.     *)
(* A line is [shape, words, hit, size]: what is left of it without volatile  *)
(* tokens and secrets, its tokens in their order, whether it signals a       *)
(* failure, and its characters with the line feed.  Lines the filter puts in *)
(* are lines like the others.                                                *)
(* A definition named ...Slip is the next one with a plausible mistake.      *)
EXTENDS Integers, SequencesExt, FiniteSetsExt

CONSTANTS
    None,
    MaxLog,              \* lines a fetched log may have
    Before, After,       \* context of a hit
    CollapseAt,          \* repetitions that collapse
    LineCap, CharCap,    \* of an excerpt
    TailLines,           \* of a log without a hit
    TokenLimit, SampleLines,
    NoteWords, StopWords

Blank == ""
Synthetic(shape, words, hit) == [shape |-> shape, words |-> words, hit |-> hit, size |-> 2]
Note == Synthetic("note", NoteWords, TRUE)
Omitted == Synthetic("omitted", <<"lines", "omitted">>, FALSE)
Repeated == Synthetic("repeated", <<"previous", "line", "repeated">>, FALSE)
Injected == {Note, Omitted, Repeated}

LastOf(s, n) == SubSeq(s, Max({1, Len(s) - n + 1}), Len(s))
Size(lines) == FoldLeft(LAMBDA n, l : n + l.size, 0, lines)

-----------------------------------------------------------------------------
\* A body comes in chunks; whole chunks are dropped from its head while the
\* cap is still covered, what is left over is cut at the end.
ReadCapped(body, chunk) ==
    LET chunks == [i \in 1..((Len(body) + chunk - 1) \div chunk) |->
                     SubSeq(body, (i - 1) * chunk + 1, Min({i * chunk, Len(body)}))]
        Droppable(i) == Len(FlattenSeq(SubSeq(chunks, i + 1, Len(chunks)))) >= MaxLog
        drop == Max({0} \cup {i \in DOMAIN chunks : Droppable(i)})
        data == FlattenSeq(SubSeq(chunks, drop + 1, Len(chunks)))
    IN  [text |-> LastOf(data, MaxLog), truncated |-> drop > 0 \/ Len(data) > MaxLog]

-----------------------------------------------------------------------------
(* The excerpt.                                                              *)

Hits(lines) == {i \in DOMAIN lines : lines[i].hit}

\* The last window only is widened, and by what follows alone.
MergeWindowsSlip(lines) ==
    LET Window(i) == [from |-> Max({1, i - Before}), to |-> Min({Len(lines), i + After})]
        Merge(ranges, i) ==
            IF ranges # <<>> /\ Window(i).from <= Last(ranges).to
            THEN ReplaceAt(ranges, Len(ranges), Window(i))
            ELSE Append(ranges, Window(i))
    IN  FoldLeft(Merge, <<>>, SetToSortSeq(Hits(lines), <))

\* Windows that overlap or touch are one.
MergeWindows(lines) ==
    LET Window(i) == [from |-> Max({1, i - Before}), to |-> Min({Len(lines), i + After})]
        Merge(ranges, i) ==
            IF ranges # <<>> /\ Window(i).from <= Last(ranges).to + 1
            THEN ReplaceAt(ranges, Len(ranges),
                           [Last(ranges) EXCEPT !.to = Max({@, Window(i).to})])
            ELSE Append(ranges, Window(i))
    IN  FoldLeft(Merge, <<>>, SetToSortSeq(Hits(lines), <))

CollapseRuns(block) ==
    LET Count(runs, l) ==
            IF runs # <<>> /\ Last(runs).line = l
            THEN ReplaceAt(runs, Len(runs), [Last(runs) EXCEPT !.n = @ + 1])
            ELSE Append(runs, [line |-> l, n |-> 1])
        Shown(run) == IF run.n >= CollapseAt THEN <<run.line, Repeated>>
                      ELSE [j \in 1..run.n |-> run.line]
        runs == FoldLeft(Count, <<>>, block)
    IN  FlattenSeq([k \in DOMAIN runs |-> Shown(runs[k])])

\* The last characters, from the first full line on; one line longer than the
\* cap stays, cut.
TailWithNote(text, cap) ==
    LET Whole(i) == Size(SubSeq(text, i, Len(text))) <= cap
        kept == {i \in DOMAIN text : Whole(i)}
    IN  IF Size(text) - 1 <= cap THEN text
        ELSE <<Note>> \o SubSeq(text, IF kept = {} THEN Len(text) ELSE Min(kept), Len(text))

Prefilter(lines) ==
    LET ranges == MergeWindows(lines)
        Part(k) == (IF k > 1 THEN <<Omitted>> ELSE <<>>)
                   \o CollapseRuns(SubSeq(lines, ranges[k].from, ranges[k].to))
        parts == FlattenSeq([k \in DOMAIN ranges |-> Part(k)])
        capped == LastOf(parts, LineCap)
        long == Size(capped) - 1 > CharCap
    IN  IF ranges = <<>> THEN [text |-> <<>>, truncated |-> FALSE]
        ELSE [ text |-> IF Len(parts) > LineCap /\ ~long THEN <<Note>> \o capped
                        ELSE TailWithNote(capped, CharCap),
               truncated |-> Len(parts) > LineCap \/ long ]

\* A log that signals nothing is judged by its end.
Excerpt(lines) ==
    LET tail == TailWithNote(LastOf(lines, TailLines), CharCap)
    IN  IF Hits(lines) # {} THEN Prefilter(lines)
        ELSE [text |-> tail, truncated |-> tail # <<>> /\ tail[1] = Note]

\* The first line of the log that signals the failure, else the first one.
TopSignalLine(text) ==
    LET real == {i \in DOMAIN text : text[i] \notin Injected /\ text[i].shape # Blank}
        hits == {i \in real : text[i].hit}
    IN  IF real = {} THEN None ELSE text[Min(IF hits # {} THEN hits ELSE real)]

-----------------------------------------------------------------------------
(* Signature and tokens.                                                     *)

\* Text that is volatile throughout has no signature.
Signature(text) ==
    LET shapes == SelectSeq([i \in DOMAIN text |-> text[i].shape], LAMBDA x : x # Blank)
    IN  IF shapes = <<>> THEN None ELSE shapes

Words(text) == FlattenSeq([i \in DOMAIN text |-> text[i].words])

\* The first tokens of the text, each once.
FuzzyTokens(text) ==
    LET salient == SelectSeq(Words(text), LAMBDA w : w \notin StopWords)
        once == FoldLeft(LAMBDA seen, w : IF w \in ToSet(seen) THEN seen ELSE Append(seen, w),
                         <<>>, salient)
    IN  ToSet(SubSeq(once, 1, Min({TokenLimit, Len(once)})))

SampleOf(text) == SubSeq(text, 1, Min({SampleLines, Len(text)}))

Overlap(sample, tokens) == Cardinality(ToSet(Words(sample)) \cap tokens)
Similar(sample, tokens) == Overlap(sample, tokens) >= Min({2, Cardinality(tokens)})
=============================================================================
