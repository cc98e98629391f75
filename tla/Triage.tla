-------------------------------- MODULE Triage -------------------------------
(* triage_pipeline_failure and the pattern store it learns in.  A call       *)
(* fetches a log, opens a connection of its own to state.db, looks a prior   *)
(* up, asks the model, and records what it said, long after it looked.       *)
(* Threads of the gateway and other processes do so side by side: a          *)
(* statement that writes takes the database's lock, the reads before it hold *)
(* nothing.  All of it is about one project: every statement names it.       *)
(* The lookup in the test history only reads, and is left out.               *)
(* A definition named ...Slip is the next one with a plausible mistake.      *)
EXTENDS LogText

CONSTANTS
    Calls,
    Targets,             \* what may be triaged, [remote, body]
    Queries,             \* logs asked for their top signal line
    Chunks,              \* sizes of a chunk
    Categories, NoCategory,
    Retention, MaxRows,
    MaxCalls, MaxClock, MaxFaults

ASSUME TriageAssumption == IsFiniteSet(Calls) /\ MaxRows \in Nat

VARIABLES
    rows,        \* triage_patterns, a function on signatures
    index,       \* triage_patterns_fts: the samples filed under a signature
    call,        \* the calls
    query,       \* the log signal_query was asked about, and its answer
    unwritten,   \* lines the local log still lacks
    clock,
    learned,     \* ghost: what was recorded under a signature since its row is there
    blind,       \* ghost: signatures the index may have missed a write of
    started, faults

vars == <<rows, index, call, query, unwritten, clock, learned, blind, started, faults>>
store == <<rows, index, learned, blind>>
outside == <<query, unwritten, clock, started>>

Idle == [ pc |-> "idle", target |-> None, raw |-> <<>>, truncated |-> FALSE,
          open |-> FALSE, fts |-> FALSE, prior |-> None, fuzzy |-> FALSE,
          category |-> None, old |-> {}, overflow |-> 0, victims |-> {} ]

Init ==
    /\ rows = [s \in {} |-> None] /\ index = [s \in {} |-> <<>>]
    /\ call = [c \in Calls |-> Idle]
    /\ query = None /\ unwritten \in {0, 1} /\ clock = 0
    /\ learned = [s \in {} |-> 0] /\ blind = {}
    /\ started = 0 /\ faults = 0

Step(c, next) == call' = [call EXCEPT ![c] = next]
Text(c) == Excerpt(call[c].raw).text
Sig(c) == Signature(Text(c))

-----------------------------------------------------------------------------
(* The log.                                                                  *)

\* The port of the pipeline: it touches no store.
SignalQuery ==
    /\ query = None /\ started = 0
    /\ \E lines \in Queries : query' = [log |-> lines, line |-> TopSignalLine(Prefilter(lines).text)]
    /\ UNCHANGED <<call, unwritten, clock, started, faults, store>>

Start(c, t) ==
    /\ call[c].pc = "idle" /\ started < MaxCalls /\ query = None
    /\ started' = started + 1
    /\ Step(c, [Idle EXCEPT !.pc = IF t.remote THEN "fetch" ELSE "stat", !.target = t])
    /\ UNCHANGED <<query, unwritten, clock, faults, store>>

Written(c) == SubSeq(call[c].target.body, 1, Len(call[c].target.body) - unwritten)

\* Not there, not in the roots, not a regular file, too large; or an answer
\* of the server that is no log, or one that comes too late.
FetchFails(c) ==
    /\ call[c].pc \in {"stat", "fetch"} /\ faults < MaxFaults
    /\ faults' = faults + 1
    /\ Step(c, Idle)
    /\ UNCHANGED <<outside, store>>

Stat(c) ==
    /\ call[c].pc = "stat"
    /\ Step(c, IF Len(Written(c)) > MaxLog THEN Idle ELSE [call[c] EXCEPT !.pc = "read"])
    /\ UNCHANGED <<outside, store, faults>>

\* What CI wrote since the stat is read too, up to the cap.
ReadLocal(c) ==
    /\ call[c].pc = "read"
    /\ Step(c, [call[c] EXCEPT !.pc = "open",
                  !.raw = SubSeq(Written(c), 1, Min({MaxLog, Len(Written(c))}))])
    /\ UNCHANGED <<outside, store, faults>>

FetchRemote(c) ==
    /\ call[c].pc = "fetch"
    /\ \E n \in Chunks :
         LET got == ReadCapped(call[c].target.body, n)
         IN  Step(c, [call[c] EXCEPT !.pc = "open", !.raw = got.text, !.truncated = got.truncated])
    /\ UNCHANGED <<outside, store, faults>>

-----------------------------------------------------------------------------
(* The store.                                                                *)

Extended(f, k, v) == [x \in DOMAIN f \cup {k} |-> IF x = k THEN v ELSE f[x]]
Without(f, keys) == [x \in DOMAIN f \ keys |-> f[x]]

\* An open files the rows the index lacks; refused, it does without the index.
\* Without a signature there is nothing to look up or to learn.
Open(c) ==
    /\ call[c].pc = "open"
    /\ \/ /\ Sig(c) = None
          /\ Step(c, [call[c] EXCEPT !.pc = "classify"])
          /\ UNCHANGED <<index, faults>>
       \/ /\ Sig(c) # None
          /\ index' = [s \in DOMAIN index \cup DOMAIN rows |->
                         IF s \in DOMAIN index THEN index[s] ELSE <<rows[s].sample>>]
          /\ Step(c, [call[c] EXCEPT !.pc = "lookup", !.open = TRUE, !.fts = TRUE])
          /\ UNCHANGED faults
       \/ /\ Sig(c) # None /\ faults < MaxFaults
          /\ faults' = faults + 1
          /\ \/ Step(c, [call[c] EXCEPT !.pc = "lookup", !.open = TRUE])
             \/ Step(c, [call[c] EXCEPT !.pc = "classify"])
          /\ UNCHANGED index
    /\ UNCHANGED <<outside, rows, learned, blind>>

\* The index ranks by relevance, which any order may be; without it the most
\* shared tokens win, then the most seen.
Fuzzy(c) ==
    LET tokens == FuzzyTokens(Text(c))
        near == {s \in DOMAIN rows : tokens # {} /\ Similar(rows[s].sample, tokens)}
        filed == {s \in near \cap DOMAIN index :
                    \E i \in DOMAIN index[s] : Overlap(index[s][i], tokens) > 0}
        Worse(s, t) ==
            \/ Overlap(rows[s].sample, tokens) < Overlap(rows[t].sample, tokens)
            \/ /\ Overlap(rows[s].sample, tokens) = Overlap(rows[t].sample, tokens)
               /\ rows[s].n < rows[t].n
    IN  IF call[c].fts THEN filed ELSE {s \in near : \A t \in near : ~Worse(s, t)}

Lookup(c) ==
    /\ call[c].pc = "lookup"
    /\ \E s \in IF Sig(c) \in DOMAIN rows THEN {Sig(c)}
                ELSE IF Fuzzy(c) = {} THEN {None} ELSE Fuzzy(c) :
         Step(c, [call[c] EXCEPT !.pc = "classify", !.fuzzy = s # None /\ s # Sig(c),
                                 !.prior = IF s = None THEN None ELSE rows[s]])
    /\ UNCHANGED <<outside, store, faults>>

\* The model's category if it is one of the taxonomy's, else a rule's; what a
\* rule says of a log without signal is not learnt.
Classify(c) ==
    /\ call[c].pc = "classify"
    /\ \E answer \in Categories \cup {NoCategory}, rule \in Categories :
         LET llm == answer # NoCategory
             learn == call[c].open /\ (llm \/ Hits(call[c].raw) # {})
         IN  Step(c, IF learn THEN [call[c] EXCEPT !.pc = "record",
                                                   !.category = IF llm THEN answer ELSE rule]
                     ELSE Idle)
    /\ UNCHANGED <<outside, store, faults>>

\* The count continues from the prior that was looked up.
RecordedSlip(c) ==
    LET s == Sig(c)
    IN  [ category |-> call[c].category, last |-> clock, sample |-> SampleOf(Text(c)),
          n |-> IF call[c].prior # None THEN call[c].prior.n + 1 ELSE 1 ]

Recorded(c) ==
    LET s == Sig(c)
    IN  [ category |-> call[c].category, last |-> clock, sample |-> SampleOf(Text(c)),
          n |-> IF s \in DOMAIN rows THEN rows[s].n + 1 ELSE 1 ]

\* The sample is filed beside the one that is there: so it is when that one's
\* deletion fails.
FiledBeside(c) ==
    Extended(index, Sig(c),
        (IF Sig(c) \in DOMAIN index THEN index[Sig(c)] ELSE <<>>) \o <<SampleOf(Text(c))>>)

Filed(c) == Extended(index, Sig(c), <<SampleOf(Text(c))>>)

\* An error of the index is swallowed, and the row committed all the same.
Misfiled(c) == {index, Without(index, {Sig(c)}), FiledBeside(c)}

Record(c) ==
    /\ call[c].pc = "record"
    /\ rows' = Extended(rows, Sig(c), Recorded(c))
    /\ \/ /\ call[c].fts
          /\ index' = Filed(c) /\ blind' = blind \ {Sig(c)}
       \/ /\ index' \in IF call[c].fts THEN Misfiled(c) ELSE {index}
          /\ blind' = blind \cup {Sig(c)}
    /\ learned' = Extended(learned, Sig(c), 1 + IF Sig(c) \in DOMAIN learned THEN learned[Sig(c)] ELSE 0)
    /\ Step(c, [call[c] EXCEPT !.pc = "age"])
    /\ UNCHANGED <<outside, faults>>

Delete(c, sigs) ==
    /\ rows' = Without(rows, sigs)
    /\ learned' = Without(learned, sigs)
    /\ \E gone \in SUBSET sigs :
         /\ call[c].fts \/ gone = {}
         /\ index' = Without(index, gone)
         /\ blind' = (blind \ gone) \cup ((sigs \ gone) \cap DOMAIN index)

Oldest(from, n) ==
    {v \in SUBSET DOMAIN from : Cardinality(v) = n /\ \A s \in v, t \in DOMAIN from \ v :
                                  from[s].last <= from[t].last}

Over(from) == Max({0, Cardinality(DOMAIN from) - MaxRows})

\* prune reads what is too old before it takes the lock.
Age(c) ==
    /\ call[c].pc = "age"
    /\ LET old == {s \in DOMAIN rows : rows[s].last < clock - Retention}
       IN  Step(c, [call[c] EXCEPT !.old = old, !.pc = IF old = {} THEN "count" ELSE "expire"])
    /\ UNCHANGED <<outside, store, faults>>

\* From its first deletion on it has the lock: the cap is then enforced on
\* what it leaves.
Expire(c) ==
    /\ call[c].pc = "expire"
    /\ LET left == Without(rows, call[c].old)
       IN  \E victims \in Oldest(left, Over(left)) : Delete(c, call[c].old \cup victims)
    /\ Step(c, Idle)
    /\ UNCHANGED <<outside, faults>>

\* With nothing too old, the count, the choice and the deletion are three.
Count(c) ==
    /\ call[c].pc = "count"
    /\ Step(c, IF Over(rows) = 0 THEN Idle
               ELSE [call[c] EXCEPT !.pc = "choose", !.overflow = Over(rows)])
    /\ UNCHANGED <<outside, store, faults>>

Choose(c) ==
    /\ call[c].pc = "choose"
    /\ \E victims \in Oldest(rows, Min({call[c].overflow, Cardinality(DOMAIN rows)})) :
         Step(c, [call[c] EXCEPT !.pc = "evict", !.victims = victims])
    /\ UNCHANGED <<outside, store, faults>>

Evict(c) ==
    /\ call[c].pc = "evict"
    /\ Delete(c, call[c].victims)
    /\ Step(c, Idle)
    /\ UNCHANGED <<outside, faults>>

-----------------------------------------------------------------------------
(* What goes wrong.                                                          *)

\* A write is refused: what was classified is answered all the same, and the
\* call is over.
Refused(c) ==
    /\ call[c].pc \in {"record", "expire", "evict"} /\ faults < MaxFaults
    /\ faults' = faults + 1
    /\ Step(c, Idle)
    /\ UNCHANGED <<outside, store>>

Crash(c) ==
    /\ call[c].pc # "idle" /\ faults < MaxFaults
    /\ faults' = faults + 1
    /\ Step(c, Idle)
    /\ UNCHANGED <<outside, store>>

Grow ==
    /\ unwritten > 0 /\ unwritten' = unwritten - 1
    /\ UNCHANGED <<call, query, clock, started, faults, store>>

Tick ==
    /\ clock < MaxClock /\ clock' = clock + 1
    /\ UNCHANGED <<call, query, unwritten, started, faults, store>>

-----------------------------------------------------------------------------
Fetch(c) == Stat(c) \/ ReadLocal(c) \/ FetchRemote(c)
Prune(c) == Age(c) \/ Expire(c) \/ Count(c) \/ Choose(c) \/ Evict(c)
Go(c) == Fetch(c) \/ Open(c) \/ Lookup(c) \/ Classify(c) \/ Record(c) \/ Prune(c)

Next ==
    \/ SignalQuery \/ Grow \/ Tick
    \/ \E c \in Calls :
         \/ \E t \in Targets : Start(c, t)
         \/ Go(c) \/ FetchFails(c) \/ Refused(c) \/ Crash(c)

Spec == Init /\ [][Next]_vars

-----------------------------------------------------------------------------
TypeOK ==
    /\ unwritten \in {0, 1} /\ clock \in 0..MaxClock
    /\ DOMAIN learned = DOMAIN rows
    /\ \A c \in Calls : Len(call[c].raw) <= MaxLog

\* What is learnt while others learn is not lost: a row counts every record
\* made under its signature since it is there, though the prior was read long
\* before the write (patterns.py: record bumps "occurrences").
CountsUses == \A s \in DOMAIN rows : rows[s].n = learned[s]

\* The index has each row's current sample once and nothing else, save where it
\* missed a write: of a store that had come up without it, or one whose
\* statement on it failed.
MirrorFollows ==
    \A s \in (DOMAIN rows \cup DOMAIN index) \ blind :
        /\ s \in DOMAIN index /\ s \in DOMAIN rows
        /\ index[s] = <<rows[s].sample>>

\* The calls whose record is made and whose prune is still to come.
Pending == {c \in Calls : call[c].pc \in {"age", "expire", "count", "choose", "evict"}}

\* The cap holds but for the records whose prune is still to come, or was
\* refused or died.
Capped == Cardinality(DOMAIN rows) <= MaxRows + faults + Cardinality(Pending)

\* The bounded store and the index that search reads keep in step while calls
\* learn, expire and evict.
StoreInOrder == MirrorFollows /\ Capped

\* What makes them inductive.  A call that has counted leaves what the cap
\* allows, and what others recorded since: after[c] are those of them that
\* still have a prune to come, and who counts after that leaves no more.
Counted == {c \in Calls : call[c].pc \in {"choose", "evict"}}
Left(c) ==
    IF call[c].pc = "choose" THEN Cardinality(DOMAIN rows) - call[c].overflow
    ELSE Cardinality(DOMAIN rows \ call[c].victims)
CountedBefore(after) ==
    \A c \in Counted :
        /\ after[c] \subseteq Pending \ {c}
        /\ \A d \in after[c] \cap Counted : after[d] \subseteq after[c]
        /\ Left(c) <= MaxRows + faults + Cardinality(after[c])

Counters ==
    /\ faults \in Nat /\ IsFiniteSet(DOMAIN rows)
    /\ DOMAIN learned = DOMAIN rows
    /\ \A s \in DOMAIN rows : rows[s].n \in Nat
    /\ DOMAIN call = Calls
    /\ \A c \in Calls : DOMAIN call[c] = DOMAIN Idle /\ call[c].overflow \in Nat

StoreInv ==
    /\ Counters /\ CountsUses /\ StoreInOrder
    /\ \E after \in [Calls -> SUBSET Calls] : CountedBefore(after)

\* What a filtered log should show: the lines within reach of a hit, in their
\* order, a run of equal ones once.
Kept(lines) ==
    {i \in DOMAIN lines : \E j \in Hits(lines) : j - Before <= i /\ i <= j + After}
RunOf(lines, i) ==
    {j \in Kept(lines) : \A k \in Min({i, j})..Max({i, j}) : k \in Kept(lines) /\ lines[k] = lines[i]}
Expected(lines) ==
    LET Folded(i) == Cardinality(RunOf(lines, i)) >= CollapseAt /\ i # Min(RunOf(lines, i))
        order == SetToSortSeq({i \in Kept(lines) : ~Folded(i)}, <)
    IN  [k \in DOMAIN order |-> lines[order[k]]]

\* The last hit and what follows it within its reach leave room under the
\* caps, whatever is folded among them.
LastHitFits(lines) ==
    LET reach == SubSeq(lines, Max(Hits(lines)), Min({Len(lines), Max(Hits(lines)) + After}))
    IN  /\ Hits(lines) # {} /\ 2 * Len(reach) <= LineCap
        /\ Size(reach) + Len(reach) * Repeated.size <= CharCap

\* A log over the cap keeps its end, whatever the chunks, and says so.  Of a
\* filtered log (prefilter), the lines taken from the log are the ones expected,
\* in order, or the end of them, and then the excerpt says so.  If the last hit and its
\* reach fit under the caps, the hit is shown, and what is asked of the
\* history (top_signal_line) is a hit; otherwise it is a line of the log,
\* never one the filter put in, though perhaps no hit.
ExcerptTells ==
    /\ \A c \in Calls :
         LET t == call[c].target
         IN  (call[c].pc = "open" /\ t.remote) =>
               /\ call[c].raw = LastOf(t.body, MaxLog)
               /\ call[c].truncated <=> Len(t.body) > MaxLog
    /\ query # None =>
         LET lines == query.log
             got == Prefilter(lines)
             real == SelectSeq(got.text, LAMBDA l : l \notin Injected)
         IN  /\ IsSuffix(real, Expected(lines))
             /\ ~got.truncated => real = Expected(lines)
             /\ got.truncated <=> (got.text # <<>> /\ got.text[1] = Note)
             /\ LastHitFits(lines) =>
                  lines[Max(Hits(lines))] \in ToSet(real) /\ query.line # None /\ query.line.hit
             /\ query.line # None => query.line \in ToSet(lines)

\* What is asked of the history about a log with a failure signals a failure
\* (enrichment.py: the "most representative line"; the note of a cut excerpt:
\* "showing the most recent failure context").
HitIsAsked ==
    query # None /\ Hits(query.log) # {} => query.line # None /\ query.line.hit

\* patterns.py: a similar prior "must share real signal with the excerpt".
SimilarSharesSignal ==
    \A c \in Calls :
        call[c].fuzzy =>
          LET Own(text) == ToSet(Words(SelectSeq(text, LAMBDA l : l \notin Injected))) \ StopWords
          IN  Own(call[c].prior.sample) \cap Own(Text(c)) # {}

\* patterns.py: the cap is enforced "evicting least-recently-seen".
EvictsOldest ==
    \A c \in Calls : call[c].pc = "evict" =>
        \A s \in call[c].victims \cap DOMAIN rows, t \in DOMAIN rows \ call[c].victims :
            rows[s].last <= rows[t].last

\* logfetch.py: "local reads never truncate".
LocalWhole ==
    \A c \in Calls : (call[c].pc = "open" /\ ~call[c].target.remote) =>
        \/ call[c].raw = call[c].target.body
        \/ Len(call[c].raw) < MaxLog
=============================================================================
