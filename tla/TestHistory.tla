----------------------------- MODULE TestHistory ----------------------------
(* The test-history database with the connections that write it.  The        *)
(* gateway has one connection for all its threads: burn-in results are fed   *)
(* back through it, statement by statement, and the tools look failures up   *)
(* through it.  Command-line processes ingest files and directories and      *)
(* prune, each on a connection of its own.  SQLite's rules for a WAL         *)
(* database are part of the model: one writer at a time, a reader inside a   *)
(* transaction keeps the snapshot of its first read, a writer that holds an  *)
(* older snapshot is refused, and a refused statement leaves the transaction *)
(* open that Python began for it.                                            *)
(* A definition named ...Slip is the next one with a plausible mistake.      *)
EXTENDS HistoryData

CONSTANTS
    Threads,    \* threads of the gateway that use the history
    Clis,       \* command-line processes
    Doc,        \* the document in each report file
    Unbindable, \* files a case of which fails only when it is stored
    Ids,        \* test ids that are healed and looked up
    FedTest,    \* the test the pipeline stores for an id
    Repeats,    \* the burn-in runs that may be fed back at once
    Cutoffs,    \* prune --before
    Directory,  \* the report files in the order of their names
    MaxRuns, MaxFaults

Files == DOMAIN Doc
Gate == "gate"
Conns == {Gate} \cup Clis

VARIABLES
    db,       \* the committed database [runs, next, ver]
    lock,     \* the connection with the write lock
    tx,       \* the connections Python has a transaction open on
    view,     \* what such a connection sees, None before its first statement
    cli,      \* the command-line processes
    thread,   \* the gateway's threads
    mixed,    \* a thread committed another's half-stored run
    refused,  \* a write of the gateway was refused
    fed,      \* the feedbacks noted as done, [id, runs]
    faults

vars == <<db, lock, tx, view, cli, thread, mixed, refused, fed, faults>>

IdleCli == [pc |-> "idle", todo |-> <<>>, one |-> FALSE, run |-> 0, got |-> {}]
IdleThread == [pc |-> "idle", id |-> None, left |-> 0, run |-> 0, got |-> {}]

Init ==
    /\ db = [runs |-> {}, next |-> 1, ver |-> 0]
    /\ lock = None
    /\ tx = {}
    /\ view = [c \in Conns |-> None]
    /\ cli = [c \in Clis |-> IdleCli]
    /\ thread = [t \in Threads |-> IdleThread]
    /\ mixed = FALSE /\ refused = FALSE /\ fed = {} /\ faults = 0

-----------------------------------------------------------------------------
(* The database.                                                             *)

Seen(c) == IF view[c] = None THEN db ELSE view[c]

CanWrite(c) ==
    \/ lock = c
    \/ lock = None /\ (view[c] # None => view[c].ver = db.ver)

\* A statement that writes: it begins a transaction if there is none.
Write(c, new) ==
    /\ CanWrite(c)
    /\ lock' = c
    /\ tx' = tx \cup {c}
    /\ view' = [view EXCEPT ![c] = new]
    /\ UNCHANGED db

\* SQLITE_BUSY after the timeout, or SQLITE_BUSY_SNAPSHOT.
Refused(c) ==
    /\ ~CanWrite(c)
    /\ tx' = tx \cup {c}
    /\ UNCHANGED <<db, lock, view>>

\* The work is rolled back.
CommitSlip(c) ==
    /\ lock' = IF lock = c THEN None ELSE lock
    /\ tx' = tx \ {c}
    /\ view' = [view EXCEPT ![c] = None]
    /\ UNCHANGED db

\* Only a transaction that wrote, and so has the lock, makes a new version.
Commit(c) ==
    /\ db' = IF lock = c THEN [view[c] EXCEPT !.ver = db.ver + 1] ELSE db
    /\ lock' = IF lock = c THEN None ELSE lock
    /\ tx' = tx \ {c}
    /\ view' = [view EXCEPT ![c] = None]

\* The connection is closed, by the end of its process.
Close(c) ==
    /\ lock' = IF lock = c THEN None ELSE lock
    /\ tx' = tx \ {c}
    /\ view' = [view EXCEPT ![c] = None]
    /\ UNCHANGED db

AddRun(d, file, stamp, at) ==
    [d EXCEPT !.runs = @ \cup {[id |-> d.next, file |-> file, stamp |-> stamp,
                                at |-> at, cases |-> {}]},
              !.next = @ + 1]

AddCases(d, id, cases) ==
    [d EXCEPT !.runs = {IF r.id = id THEN [r EXCEPT !.cases = cases] ELSE r : r \in @}]

\* Only the cases are deleted.
DropRunSlip(d, id) == AddCases(d, id, {})

DropRun(d, id) == [d EXCEPT !.runs = {r \in @ : r.id # id}]

StoredIds(d) == {r.id : r \in d.runs}

-----------------------------------------------------------------------------
(* test-history ingest and prune.                                            *)

UnchangedGate == UNCHANGED <<thread, mixed, refused, fed>>

StartIngest(c, files, one) ==
    /\ cli[c] = IdleCli
    /\ db.next + Len(files) <= MaxRuns + 1
    /\ cli' = [cli EXCEPT ![c] = [IdleCli EXCEPT !.pc = "file", !.todo = files, !.one = one]]
    /\ UNCHANGED <<db, lock, tx, view, faults>> /\ UnchangedGate

File(c) == Head(cli[c].todo)

\* The file raised: a directory goes on with the next, a single one ends.
SkipFile(c) ==
    cli' = [cli EXCEPT ![c] =
        IF cli[c].one THEN IdleCli
        ELSE [cli[c] EXCEPT !.pc = "file", !.todo = Tail(@), !.run = 0]]

ParseError(c) ==
    /\ cli[c].pc = "file" /\ cli[c].todo # <<>>
    /\ ParseFails(Doc[File(c)])
    /\ SkipFile(c)
    /\ UNCHANGED <<db, lock, tx, view, faults>> /\ UnchangedGate

InsertRun(c) ==
    /\ cli[c].pc = "file" /\ cli[c].todo # <<>>
    /\ ~ParseFails(Doc[File(c)])
    /\ Write(c, AddRun(Seen(c), File(c), ParsedRun(Doc[File(c)]).stamp, 0))
    /\ cli' = [cli EXCEPT ![c].pc = "cases", ![c].run = Seen(c).next]
    /\ UNCHANGED faults /\ UnchangedGate

InsertRefused(c) ==
    /\ cli[c].pc = "file" /\ cli[c].todo # <<>>
    /\ ~ParseFails(Doc[File(c)])
    /\ ~CanWrite(c)
    /\ SkipFile(c)
    /\ IF cli[c].one THEN Close(c) ELSE Refused(c)
    /\ UNCHANGED faults /\ UnchangedGate

InsertCases(c) ==
    /\ cli[c].pc = "cases"
    /\ File(c) \notin Unbindable
    /\ Write(c, AddCases(Seen(c), cli[c].run, ParsedRun(Doc[File(c)]).cases))
    /\ cli' = [cli EXCEPT ![c] = [cli[c] EXCEPT
            !.pc = IF cli[c].one THEN "commit" ELSE "file",
            !.todo = Tail(@), !.got = @ \cup {cli[c].run}, !.run = 0]]
    /\ UNCHANGED faults /\ UnchangedGate

\* A case cannot be bound: the run and the cases that did land are deleted.
UndoFile(c) ==
    /\ cli[c].pc = "cases"
    /\ File(c) \in Unbindable
    /\ SkipFile(c)
    /\ IF cli[c].one THEN Close(c) ELSE Write(c, DropRun(Seen(c), cli[c].run))
    /\ UNCHANGED faults /\ UnchangedGate

CommitBatch(c) ==
    /\ cli[c].pc = "commit" \/ (cli[c].pc = "file" /\ cli[c].todo = <<>>)
    /\ Commit(c)
    /\ cli' = [cli EXCEPT ![c] = IdleCli]
    /\ UNCHANGED faults /\ UnchangedGate

\* One process: the cases and the runs older than the cutoff, one transaction.
Prune(c, cutoff) ==
    /\ cli[c] = IdleCli
    /\ CanWrite(c)
    /\ \E r \in db.runs : EffectiveTime(r) < cutoff
    /\ db' = [db EXCEPT !.runs = InWindow(@, cutoff), !.ver = @ + 1]
    /\ UNCHANGED <<lock, tx, view, cli, faults>> /\ UnchangedGate

CliCrash(c) ==
    /\ cli[c] # IdleCli /\ faults < MaxFaults
    /\ faults' = faults + 1
    /\ Close(c)
    /\ cli' = [cli EXCEPT ![c] = IdleCli]
    /\ UnchangedGate

-----------------------------------------------------------------------------
(* The gateway: the feedback of a stable burn-in, and the lookups.           *)

\* Later than every report: the gateway's clock at the time of the feedback.
FedStamp == 9

Feed(t, id, n) ==
    /\ thread[t].pc = "idle"
    /\ db.next + n <= MaxRuns + 1
    /\ thread' = [thread EXCEPT ![t] = [IdleThread EXCEPT !.pc = "run", !.id = id, !.left = n]]
    /\ UNCHANGED <<db, lock, tx, view, cli, mixed, refused, fed, faults>>

FeedRun(t) ==
    /\ thread[t].pc = "run"
    /\ Write(Gate, AddRun(Seen(Gate), "synthetic", FedStamp, 0))
    /\ thread' = [thread EXCEPT ![t].pc = "cases", ![t].run = Seen(Gate).next]
    /\ UNCHANGED <<cli, mixed, refused, fed, faults>>

FeedCases(t) ==
    /\ thread[t].pc = "cases"
    /\ Write(Gate, AddCases(Seen(Gate), thread[t].run,
                {[test |-> FedTest[thread[t].id], status |-> "passed"]}))
    /\ thread' = [thread EXCEPT ![t].pc = "commit"]
    /\ UNCHANGED <<cli, mixed, refused, fed, faults>>

\* The feedback ends with a note of its failure; nothing rolls back.
FeedRefused(t) ==
    /\ thread[t].pc \in {"run", "cases"}
    /\ Refused(Gate)
    /\ refused' = TRUE
    /\ thread' = [thread EXCEPT ![t] =
            IF thread[t].pc = "run" THEN IdleThread ELSE [thread[t] EXCEPT !.pc = "undo"]]
    /\ UNCHANGED <<cli, mixed, fed, faults>>

\* The run whose cases were refused is deleted, if that is not refused too;
\* the one or the other, nothing commits.
FeedUndo(t) ==
    /\ thread[t].pc = "undo"
    /\ Write(Gate, DropRun(Seen(Gate), thread[t].run)) \/ Refused(Gate)
    /\ refused' = TRUE
    /\ thread' = [thread EXCEPT ![t] = IdleThread]
    /\ UNCHANGED <<cli, mixed, fed, faults>>

FeedCommit(t) ==
    LET me == thread[t]
    IN  /\ me.pc = "commit"
        /\ Commit(Gate)
        /\ mixed' = (mixed \/ \E u \in Threads : thread[u].pc = "cases")
        /\ thread' = [thread EXCEPT ![t] =
                IF me.left > 1
                THEN [me EXCEPT !.pc = "run", !.left = @ - 1, !.got = @ \cup {me.run}]
                ELSE IdleThread]
        /\ fed' = IF me.left > 1 THEN fed
                  ELSE fed \cup {[id |-> me.id, runs |-> me.got \cup {me.run}]}
        /\ UNCHANGED <<cli, refused, faults>>

\* A lookup always reads inside a transaction.
LookupSlip ==
    /\ view[Gate] = None
    /\ view' = [view EXCEPT ![Gate] = db]
    /\ tx' = tx \cup {Gate}
    /\ UNCHANGED <<db, lock, cli, thread, mixed, refused, fed, faults>>

\* The three queries of a lookup are one step; inside an open transaction the
\* first of them fixes what the connection sees.
Lookup ==
    /\ Gate \in tx
    /\ view[Gate] = None
    /\ view' = [view EXCEPT ![Gate] = db]
    /\ UNCHANGED <<db, lock, tx, cli, thread, mixed, refused, fed, faults>>

GateCrash ==
    /\ faults < MaxFaults
    /\ Gate \in tx \/ \E t \in Threads : thread[t].pc # "idle"
    /\ faults' = faults + 1
    /\ Close(Gate)
    /\ thread' = [t \in Threads |-> IdleThread]
    /\ refused' = FALSE
    /\ UNCHANGED <<cli, mixed, fed>>

-----------------------------------------------------------------------------
Ingest(c) == ParseError(c) \/ InsertRun(c) \/ InsertRefused(c) \/ InsertCases(c)
             \/ UndoFile(c) \/ CommitBatch(c)

Feedback(t) == FeedRun(t) \/ FeedCases(t) \/ FeedRefused(t) \/ FeedUndo(t) \/ FeedCommit(t)

Next ==
    \/ \E c \in Clis : \/ \E f \in Files : StartIngest(c, <<f>>, TRUE)
                       \/ StartIngest(c, Directory, FALSE)
                       \/ Ingest(c) \/ CliCrash(c)
                       \/ \E cut \in Cutoffs : Prune(c, cut)
    \/ \E t \in Threads : \/ \E id \in Ids, n \in Repeats : Feed(t, id, n)
                          \/ Feedback(t)
    \/ Lookup \/ GateCrash

Spec == Init /\ [][Next]_vars

-----------------------------------------------------------------------------
FedRow(id) == [test |-> FedTest[id], status |-> "passed"]
Parsed == {f \in Files : ~ParseFails(Doc[f])}
Stamps == {ParsedRun(Doc[f]).stamp : f \in Parsed} \cup {FedStamp}
Cases == (UNION {ParsedRun(Doc[f]).cases : f \in Parsed}) \cup {FedRow(id) : id \in Ids}
Rows == [id : Nat, file : Files \cup {"synthetic"}, stamp : Stamps, at : {0}, cases : SUBSET Cases]
Databases == [runs : SUBSET Rows, next : Nat, ver : Nat]
Ingests == [pc : {"idle", "file", "cases", "commit"}, todo : Seq(Files),
            one : BOOLEAN, run : Nat, got : SUBSET Nat]
Feedbacks == [pc : {"idle", "run", "cases", "undo", "commit"}, id : Ids \cup {None},
              left : Nat, run : Nat, got : SUBSET Nat]

\* A test is found by the id it was fed back under, and what is fed back today
\* is not older than a cutoff.
ASSUME HistoryAssumption ==
    /\ Gate \notin Clis /\ None \notin Conns /\ None \notin Databases /\ None \notin Stamps
    /\ Directory \in Seq(Files) /\ Repeats \subseteq Nat
    /\ \A id \in Ids : Exactly(id, FedRow(id))
    /\ Cutoffs \subseteq 0..FedStamp

\* Python has a transaction open on every connection that sees a snapshot.
StorageOK ==
    /\ db \in Databases /\ lock \in Conns \cup {None} /\ tx \subseteq Conns
    /\ view \in [Conns -> Databases \cup {None}]
    /\ \A c \in Conns : view[c] # None => c \in tx

\* The rows are whole, and the connections see databases.
TypeOK ==
    /\ StorageOK
    /\ cli \in [Clis -> Ingests]
    /\ thread \in [Threads -> Feedbacks]
    /\ \A t \in Threads : thread[t].pc # "idle" => thread[t].id \in Ids
    /\ mixed \in BOOLEAN /\ refused \in BOOLEAN /\ faults \in Nat
    /\ fed \subseteq [id : Ids, runs : SUBSET Nat]

\* A run is on disk without its cases only after one thread of the gateway
\* committed the half-stored run of another: ingest_file and
\* ingest_synthetic_run undo their own run when a case fails, and what a crash
\* or a refused statement leaves half done is never committed.
Orphan(r) ==
    r.cases = {} /\ (r.file \in Files => ParsedRun(Doc[r.file]).cases # {})
NoOrphans == (\E r \in db.runs : Orphan(r)) => mixed

\* A lookup answers from an old snapshot only after a write of the gateway was
\* refused: storage.get_connection counts on WAL to let the tool's queries run
\* beside a writer, and the refused INSERT leaves its transaction open.
Stale == view[Gate] # None /\ lock # Gate /\ view[Gate].ver < db.ver
StaleOnlyAfterRefusal == Stale => refused

\* What the pipeline notes as fed back the next failure lookup of the gateway
\* counts, whatever other threads, processes, prunes and crashes came between.
FedBackVisible ==
    \A f \in fed : FailureLookup(Seen(Gate).runs, f.id).total >= Cardinality(f.runs)

\* Nothing of a directory is on disk before all of it is: a scan or a lookup
\* never counts half a batch.
BatchWhole ==
    \A c \in Clis : (cli[c].got \cup {cli[c].run}) \cap StoredIds(db) \subseteq {0}

\* Nothing half done is ever read: no run without its cases, no half directory.
NothingHalf == NoOrphans /\ BatchWhole

\* The gateway's lookups keep up with the database.
LookupsFresh == ~Stale

-----------------------------------------------------------------------------
(* The inductive invariant behind the three.                                 *)

Numbered(d) == \A r \in d.runs : r.id < d.next

\* A half-stored run is on disk only after the threads of the gateway mixed.
OnDisk == Numbered(db) /\ \A r \in db.runs : Orphan(r) => mixed

\* What a process is about to commit is all that is on disk and, with later
\* ids, its own runs, of which only the last may still lack its cases.
Ahead(c) ==
    /\ Numbered(view[c]) /\ db.runs \subseteq view[c].runs /\ db.next <= view[c].next
    /\ \A n \in (cli[c].got \cup {cli[c].run}) \ {0} : db.next <= n /\ n < view[c].next
    /\ \A r \in view[c].runs :
          Orphan(r) => mixed \/ (cli[c].pc = "cases" /\ r.id = cli[c].run)

\* A process sees something of its own while it has the lock, and only then.
OfProcess(c) ==
    /\ view[c] # None <=> lock = c
    /\ (cli[c].pc = "idle" \/ (cli[c].pc = "file" /\ cli[c].one)) => lock # c
    /\ cli[c].pc = "cases" =>
          /\ lock = c /\ cli[c].todo # <<>> /\ File(c) \in Parsed /\ db.next <= cli[c].run
          /\ \A r \in view[c].runs : r.id = cli[c].run => r.file = File(c)
    /\ lock = c => Ahead(c)
    /\ lock # c => cli[c].got \cup {cli[c].run} \subseteq {0}

\* The gateway may see an old version, but only after a refusal; what it sees
\* of the current one is the database.
OfGateway ==
    /\ lock = Gate => view[Gate] # None
    /\ Gate \in tx /\ lock # Gate => refused
    /\ view[Gate] # None =>
          /\ Numbered(view[Gate])
          /\ lock # Gate => /\ view[Gate].ver <= db.ver
                            /\ view[Gate].ver = db.ver => view[Gate] = db
          /\ \A r \in view[Gate].runs :
                Orphan(r) => mixed \/ /\ lock = Gate
                                      /\ \E t \in Threads : thread[t].pc = "cases" /\ thread[t].run = r.id

\* Run n is among the runs, and holds what was fed back for id.
Begun(runs, n) == \E r \in runs : r.id = n /\ r.stamp = FedStamp
Holds(runs, id, n) == \E r \in runs : r.id = n /\ r.stamp = FedStamp /\ FedRow(id) \in r.cases
Committed(id, ns) == \A n \in ns : Holds(db.runs, id, n) /\ Holds(Seen(Gate).runs, id, n)

\* The cases of a thread's run are not stored.
HalfDone == {"cases", "undo"}

\* What a thread has begun its connection sees, and so does everybody once the
\* connection has committed, whichever thread did that.
KeptFor(t) ==
    /\ thread[t].pc # "idle" => Committed(thread[t].id, thread[t].got)
    /\ thread[t].pc \in HalfDone =>
          /\ Begun(Seen(Gate).runs, thread[t].run)
          /\ lock # Gate => Begun(db.runs, thread[t].run)
    /\ thread[t].pc = "commit" =>
          /\ Holds(Seen(Gate).runs, thread[t].id, thread[t].run)
          /\ lock # Gate => Holds(db.runs, thread[t].id, thread[t].run)

FeedsKept == (\A f \in fed : Committed(f.id, f.runs)) /\ \A t \in Threads : KeptFor(t)

\* A run without its cases is nobody else's.
Apart ==
    \A t \in Threads : thread[t].pc \in HalfDone =>
        /\ \A f \in fed : thread[t].run \notin f.runs
        /\ \A u \in Threads :
             /\ thread[u].pc # "idle" => thread[t].run \notin thread[u].got
             /\ u # t /\ thread[u].pc \in HalfDone \cup {"commit"} => thread[u].run # thread[t].run

HistoryInv ==
    /\ TypeOK /\ OnDisk
    /\ \A c \in Clis : OfProcess(c)
    /\ OfGateway /\ FeedsKept /\ Apart
=============================================================================
