---------------------------- MODULE StateStore ----------------------------
(***************************************************************************)
(* state.db as its processes share it: the schema ladder of                *)
(* storage/state.py, the incident index of incidents/store.py with its     *)
(* full-text mirror, and the one-time import of a legacy database by       *)
(* storage/migrate_legacy.py.                                              *)
(*                                                                         *)
(* Each process has one sqlite3 connection.  A SELECT outside a            *)
(* transaction sees what is committed; the first INSERT or DELETE opens a  *)
(* deferred transaction (tx "begun"), a SELECT in it takes a snapshot      *)
(* ("reading"), a write takes the one write lock ("writing").  DDL commits *)
(* by itself.  A write waits for the lock; after its timeout it fails, and *)
(* only the operations written with `with conn` roll back then.            *)
(*                                                                         *)
(* A row is a pair of a key and a revision of its text; an incident with a *)
(* revision in Old was updated before the retention cutoff.  Bounds:       *)
(* MaxMeta writes of the meta table, MaxBusy lock timeouts, MaxCrashes.    *)
(* Definitions named ...Slip are the next one with a plausible mistake.    *)
(***************************************************************************)
EXTENDS Naturals, Sequences, FiniteSets

CONSTANTS
    Stores,       \* processes with an IncidentStore (gateway, cron, CLI)
    Migrators,    \* processes that run `migrate`
    Keys, Revs, Old,
    Legacy,       \* the rows of the legacy index
    Troubles,     \* "ddl": CREATE VIRTUAL TABLE fails; "mid": a 2nd DELETE
    MaxMeta, MaxBusy, MaxCrashes

ASSUME StateStoreAssumption ==
    /\ Stores \cap Migrators = {}
    /\ Old \subseteq Revs
    /\ Legacy \subseteq Keys \X Revs
    /\ \A f, g \in Legacy : f[1] = g[1] => f = g
    /\ Troubles \subseteq {"ddl", "mid"}

VARIABLES
    db,        \* what is committed
    tx,        \* the state of each connection's transaction
    view,      \* its snapshot, with its own writes, or db when it has none
    stale,     \* the connections whose snapshot is older than db
    pc, job,   \* what each process is doing, and with what rows or keys
    mirror,    \* IncidentStore.fts_available
    faults     \* how many lock timeouts and crashes there were

vars == <<db, tx, view, stale, pc, job, mirror, faults>>

Procs == Stores \cup Migrators
None == [none |-> TRUE]
Base == <<"incidents", "links", "meta">>
AllTables == {"incidents", "links", "meta", "incidents_fts"}

\* A new file; or one whose schema is recorded but whose mirror could not be
\* created (no FTS5 then, or an error taken for that).
Fresh == [tables |-> {}, version |-> FALSE, inc |-> {}, fts |-> {},
          meta |-> 0, marker |-> FALSE, links |-> 0]
Mirrorless == [Fresh EXCEPT !.tables = AllTables \ {"incidents_fts"},
                            !.version = TRUE, !.inc = Legacy]

Init ==
    /\ db \in {Fresh, Mirrorless}
    /\ tx = [p \in Procs |-> "none"] /\ view = [p \in Procs |-> None]
    /\ stale = {}
    /\ pc = [p \in Procs |-> "closed"] /\ job = [p \in Procs |-> {}]
    /\ mirror = [p \in Procs |-> FALSE]
    /\ faults = [busy |-> 0, crash |-> 0]

-----------------------------------------------------------------------------
(* The connection. *)

Sees(p) == IF tx[p] \in {"reading", "writing"} THEN view[p] ELSE db

\* A SELECT: inside a transaction the first one takes the snapshot.
Selects(p) ==
    IF tx[p] = "begun"
    THEN /\ tx' = [tx EXCEPT ![p] = "reading"]
         /\ view' = [view EXCEPT ![p] = db]
         /\ UNCHANGED <<db, stale, faults>>
    ELSE UNCHANGED <<db, tx, view, stale, faults>>

\* The write lock is free, and the snapshot is not behind the file.
CanWrite(p) ==
    /\ \A q \in Procs \ {p} : tx[q] # "writing"
    /\ p \notin stale

Writes(p, new) ==
    /\ CanWrite(p)
    /\ tx' = [tx EXCEPT ![p] = "writing"] /\ view' = [view EXCEPT ![p] = new]
    /\ UNCHANGED <<db, stale, faults>>

\* The lock was not had in time, or the snapshot cannot be written from.
Refused(p) ==
    \/ /\ p \in stale /\ UNCHANGED faults
    \/ /\ p \notin stale /\ ~CanWrite(p) /\ faults.busy < MaxBusy
       /\ faults' = [faults EXCEPT !.busy = @ + 1]

Commits(p, new) ==
    /\ CanWrite(p)
    /\ db' = new
    /\ tx' = [tx EXCEPT ![p] = "none"] /\ view' = [view EXCEPT ![p] = None]
    /\ stale' = IF new = db THEN stale
                ELSE stale \cup {q \in Procs \ {p} : tx[q] = "reading"}
    /\ UNCHANGED faults

RollsBack(p) ==
    /\ tx' = [tx EXCEPT ![p] = "none"] /\ view' = [view EXCEPT ![p] = None]
    /\ stale' = stale \ {p}
    /\ UNCHANGED db

\* A failed write without `with conn` leaves its transaction open.
StaysOpen(p) ==
    /\ tx' = [tx EXCEPT ![p] = IF @ = "none" THEN "begun" ELSE @]
    /\ UNCHANGED <<db, view, stale>>

Goto(p, label) == pc' = [pc EXCEPT ![p] = label] /\ UNCHANGED <<job, mirror>>
With(p, label, rows) ==
    /\ pc' = [pc EXCEPT ![p] = label] /\ job' = [job EXCEPT ![p] = rows]
    /\ UNCHANGED mirror
GivesUp(p) == Goto(p, "closed") /\ RollsBack(p)

-----------------------------------------------------------------------------
(* storage/state.py: every DDL commits on its own, the version comes last. *)

AfterSchema(p) == IF p \in Stores THEN "create" ELSE "marker"

Open(p) ==
    /\ pc[p] = "closed"
    /\ Goto(p, IF db.version THEN AfterSchema(p) ELSE Base[1])
    /\ Selects(p)

\* The version goes in before the tables.
DdlSlip(p) ==
    /\ pc[p] \in {Base[i] : i \in DOMAIN Base}
    /\ \/ /\ Commits(p, [db EXCEPT !.tables = @ \cup {pc[p]}, !.version = TRUE])
          /\ \E i \in DOMAIN Base :
                /\ pc[p] = Base[i]
                /\ Goto(p, IF i < Len(Base) THEN Base[i + 1] ELSE "fts")
       \/ Refused(p) /\ GivesUp(p)

\* CREATE TABLE IF NOT EXISTS, one after the other.
Ddl(p) ==
    /\ pc[p] \in {Base[i] : i \in DOMAIN Base}
    /\ \/ /\ Commits(p, [db EXCEPT !.tables = @ \cup {pc[p]}])
          /\ \E i \in DOMAIN Base :
                /\ pc[p] = Base[i]
                /\ Goto(p, IF i < Len(Base) THEN Base[i + 1] ELSE "fts")
       \/ Refused(p) /\ GivesUp(p)

Outcomes(trouble) == {TRUE} \cup (IF trouble \in Troubles THEN {FALSE} ELSE {})

\* An OperationalError here is taken for a build without FTS5.
DdlFts(p) ==
    /\ pc[p] = "fts"
    /\ \E ok \in Outcomes("ddl") :
          IF ok THEN Commits(p, [db EXCEPT !.tables = @ \cup {"incidents_fts"}])
                ELSE UNCHANGED <<db, tx, view, stale, faults>>
    /\ Goto(p, "record")

Record(p) ==
    /\ pc[p] = "record"
    /\ \/ Commits(p, [db EXCEPT !.version = TRUE]) /\ Goto(p, AfterSchema(p))
       \/ Refused(p) /\ GivesUp(p)

-----------------------------------------------------------------------------
(* incidents/store.py: opening. *)

HasMirror(d) == "incidents_fts" \in d.tables
KeysOf(rows) == {f[1] : f \in rows}

CreateFts(p) ==
    /\ pc[p] = "create"
    /\ \/ HasMirror(db) /\ mirror' = [mirror EXCEPT ![p] = TRUE] /\ Selects(p)
       \/ /\ ~HasMirror(db)
          /\ \E ok \in Outcomes("ddl") :
                /\ mirror' = [mirror EXCEPT ![p] = ok]
                /\ IF ok THEN Commits(p, [db EXCEPT !.tables = AllTables])
                         ELSE UNCHANGED <<db, tx, view, stale, faults>>
    /\ pc' = [pc EXCEPT ![p] = IF mirror'[p] THEN "inspect" ELSE "ready"]
    /\ UNCHANGED job

\* The counts differ, or a stored key has no mirror row.
Incomplete(d) ==
    \/ Cardinality(d.fts) # Cardinality(d.inc)
    \/ KeysOf(d.inc) \ KeysOf(d.fts) # {}

\* _repair_fts_mirror looks without a lock ...
Inspect(p) ==
    /\ pc[p] = "inspect"
    /\ Goto(p, IF Incomplete(Sees(p)) THEN "repair" ELSE "ready")
    /\ Selects(p)

\* ... and rebuilds the mirror from what is then stored.
Repair(p) ==
    /\ pc[p] = "repair"
    /\ \/ Commits(p, [db EXCEPT !.fts = db.inc]) /\ Goto(p, "ready")
       \/ Refused(p) /\ GivesUp(p)

-----------------------------------------------------------------------------
(* incidents/store.py: writes. *)

Without(rows, keys) == {f \in rows : f[1] \notin keys}
Over(old, new) == Without(old, KeysOf(new)) \cup new

\* The old mirror row stays.
UpsertedSlip(p, d, rows) ==
    [d EXCEPT !.inc = Over(@, rows), !.fts = IF mirror[p] THEN @ \cup rows ELSE @]

\* _UPSERT_SQL, _FTS_DELETE_SQL and _FTS_INSERT_SQL for the changed rows.
Upserted(p, d, rows) ==
    [d EXCEPT !.inc = Over(@, rows), !.fts = IF mirror[p] THEN Over(@, rows) ELSE @]

\* A page has one row of each of its keys (the last occurrence wins).
Pages == {page \in SUBSET (Keys \X Revs) : \A f, g \in page : f[1] = g[1] => f = g}

\* upsert_many reads what is stored, before it has the write lock ...
Compare(p) ==
    /\ pc[p] = "ready"
    /\ \E page \in Pages :
          /\ page \ Sees(p).inc # {}
          /\ With(p, "upsert", page \ Sees(p).inc)
    /\ Selects(p)

\* ... and writes the rows that differed then, in one transaction.
UpsertMany(p) ==
    /\ pc[p] = "upsert"
    /\ \/ Commits(p, Upserted(p, Sees(p), job[p]))
       \/ Refused(p) /\ RollsBack(p)
    /\ With(p, "ready", {})

\* set_meta and record_link: execute, then commit.
SetMeta(p) ==
    /\ pc[p] = "ready" /\ db.meta < MaxMeta
    /\ \/ Commits(p, [Sees(p) EXCEPT !.meta = db.meta + 1])
       \/ Refused(p) /\ StaysOpen(p)
    /\ UNCHANGED <<pc, job, mirror>>

\* delete_keys_not_in lists the keys first; prune_older_than does not.
ListKeys(p) ==
    /\ pc[p] = "ready"
    /\ \E seen \in SUBSET Keys :
          /\ KeysOf(Sees(p).inc) \ seen # {}
          /\ With(p, "unmirror", KeysOf(Sees(p).inc) \ seen)
    /\ Selects(p)

Expired(d) == KeysOf({f \in d.inc : f[2] \in Old})
Unmirrored(p, keys) ==
    [Sees(p) EXCEPT !.fts = IF mirror[p] THEN Without(@, keys) ELSE @]

Prune(p) ==
    /\ pc[p] = "ready"
    /\ \/ /\ Writes(p, Unmirrored(p, Expired(Sees(p))))
          /\ With(p, "delete", Expired(Sees(p)))
       \/ Refused(p) /\ StaysOpen(p) /\ UNCHANGED <<pc, job, mirror>>

\* The mirror rows go first.
Unmirror(p) ==
    /\ pc[p] = "unmirror"
    /\ \/ /\ Writes(p, Unmirrored(p, job[p]))
          /\ Goto(p, "delete")
       \/ Refused(p) /\ StaysOpen(p) /\ With(p, "ready", {})

\* Then the incidents; a failure here leaves the first DELETE uncommitted.
Delete(p) ==
    /\ pc[p] = "delete"
    /\ \E ok \in Outcomes("mid") :
          IF ok
          THEN /\ Writes(p, [Sees(p) EXCEPT !.inc = Without(@, job[p])])
               /\ Goto(p, "commit")
          ELSE StaysOpen(p) /\ UNCHANGED faults /\ With(p, "ready", {})

Commit(p) ==
    /\ pc[p] = "commit"
    /\ Commits(p, view[p]) /\ With(p, "ready", {})

-----------------------------------------------------------------------------
(* storage/migrate_legacy.py: marker first, then one transaction. *)

\* INSERT OR IGNORE; the mirror rows of what has none; links have no key to
\* be ignored by; the marker.
Imported(d) ==
    LET inc == d.inc \cup Without(Legacy, KeysOf(d.inc))
    IN  [d EXCEPT !.inc = inc,
                  !.fts = IF HasMirror(d) THEN @ \cup Without(inc, KeysOf(@)) ELSE @,
                  !.links = @ + 1, !.marker = TRUE]

ReadMarker(p) ==
    /\ pc[p] = "marker"
    /\ Goto(p, IF db.marker THEN "closed" ELSE "copy")
    /\ Selects(p)

\* The marker is left to a transaction of its own.
CopySlip(p) ==
    /\ pc[p] = "copy"
    /\ \/ Commits(p, [Imported(db) EXCEPT !.marker = FALSE]) /\ Goto(p, "closed")
       \/ Refused(p) /\ GivesUp(p)
Copy(p) ==
    /\ pc[p] = "copy"
    /\ \/ Commits(p, Imported(db)) /\ Goto(p, "closed")
       \/ Refused(p) /\ GivesUp(p)

-----------------------------------------------------------------------------
\* close(): SQLite rolls an open transaction back.
Close(p) ==
    /\ pc[p] = "ready" /\ With(p, "closed", {}) /\ RollsBack(p) /\ UNCHANGED faults

Crash(p) ==
    /\ pc[p] # "closed" /\ faults.crash < MaxCrashes
    /\ faults' = [faults EXCEPT !.crash = @ + 1]
    /\ With(p, "closed", {}) /\ RollsBack(p)

Step(p) ==
    \/ Open(p) \/ Ddl(p) \/ DdlFts(p) \/ Record(p)
    \/ CreateFts(p) \/ Inspect(p) \/ Repair(p)
    \/ Compare(p) \/ UpsertMany(p) \/ SetMeta(p)
    \/ ListKeys(p) \/ Prune(p) \/ Unmirror(p) \/ Delete(p) \/ Commit(p)
    \/ ReadMarker(p) \/ Copy(p)
    \/ Close(p) \/ Crash(p)

Next == \E p \in Procs : Step(p)
Spec == Init /\ [][Next]_vars

-----------------------------------------------------------------------------
Labels == {"closed", "incidents", "links", "meta", "fts", "record", "create", "inspect", "repair", "ready",
           "upsert", "unmirror", "delete", "commit", "marker", "copy"}

DbType == [tables : SUBSET AllTables, version : BOOLEAN, inc : Pages,
           fts : SUBSET (Keys \X Revs), meta : Nat, marker : BOOLEAN, links : Nat]
TxStates == {"none", "begun", "reading", "writing"}

(* What is committed, and every snapshot, is a database, of which one row is
   stored for a key; a transaction that fell behind only reads. *)
TypeOK ==
    /\ db \in DbType
    /\ tx \in [Procs -> TxStates]
    /\ \A p \in Procs : tx[p] \in {"reading", "writing"} => view[p] \in DbType
    /\ stale \subseteq {p \in Procs : tx[p] = "reading"}
    /\ pc \in [Procs -> Labels] /\ mirror \in [Procs -> BOOLEAN]
    /\ DOMAIN view = Procs /\ DOMAIN job = Procs
    /\ \A p \in Procs : pc[p] = "upsert" => job[p] \in Pages

(* While a store that searches the mirror is open, the committed mirror has
   one row, with the present text, for every incident: whatever pages,
   prunes, deletions and the import two processes interleave, after lock
   timeouts that leave a transaction and its old snapshot open, and after
   crashes.  Search finds nothing but by the mirror. *)
Searching(p) ==
    mirror[p] /\ pc[p] \in {"ready", "upsert", "unmirror", "delete", "commit"}
MirrorExact == (\E p \in Stores : Searching(p)) => db.fts = db.inc

(* Whoever finds the schema recorded, and whoever is past its own CREATEs,
   has the tables: neither a crash nor another process between two of them
   leaves a version whose tables are missing. *)
VersionMeansTables ==
    \A p \in Procs :
        (db.version \/ pc[p] \in Labels \ {"closed", "incidents", "links", "meta"})
            => {Base[i] : i \in DOMAIN Base} \subseteq db.tables

(* A legacy link, which has no key to be recognised by, is never imported
   twice, by imports that die and are repeated (the note of migrate_legacy.py:
   idempotency is anchored on the marker). *)
ImportedOnce == db.links <= 1 /\ (db.marker => db.links = 1)

(* An import finds no earlier one in the file, changes no incident that the
   new database has, and leaves none of the legacy ones out. *)
ImportsOnceOverNothing ==
    [][db'.links > db.links =>
          /\ db.links = 0 /\ db'.marker
          /\ db.inc \subseteq db'.inc
          /\ KeysOf(Legacy) \subseteq KeysOf(db'.inc)]_db

(* A store that is between operations sees what is committed.  It does not
   hold: a set_meta or prune that timed out leaves its transaction open, and
   every later read stays at the snapshot the next one takes. *)
ReadsCurrent == \A p \in Stores : pc[p] = "ready" => Sees(p) = db

-----------------------------------------------------------------------------
(* The inductive invariants. *)

Working == {"ready", "upsert", "unmirror", "delete", "commit"}

\* d differs from what is committed by rows only.
RowsOnly(d) ==
    /\ d.tables = db.tables /\ d.version = db.version /\ d.meta = db.meta
    /\ d.marker = db.marker /\ d.links = db.links

\* A snapshot that is not stale is what is committed; the one writer differs
\* from it by rows only; nothing is open but in a store's operations, and a
\* deletion is written as far as it has come.
SnapshotInv ==
    \A p \in Procs :
        /\ tx[p] = "reading" => p \in stale \/ view[p] = db
        /\ tx[p] = "writing" =>
             /\ \A q \in Procs \ {p} : tx[q] # "writing"
             /\ RowsOnly(view[p])
        /\ tx[p] # "none" => pc[p] \in Working
        /\ pc[p] \in {"delete", "commit"} => tx[p] = "writing"

BaseTables == {"incidents", "links", "meta"}

\* The tables a process has seen created by the time it gets to label l.
Behind(l) ==
    CASE l \in {"closed", "incidents"} -> {}
      [] l = "links" -> {"incidents"}
      [] l = "meta" -> {"incidents", "links"}
      [] OTHER -> BaseTables

SchemaInv ==
    /\ db.version => BaseTables \subseteq db.tables
    /\ \A p \in Procs : Behind(pc[p]) \subseteq db.tables

\* A store that is open has found or made the mirror; once it works the mirror is
\* exact, and half a deletion is in its own transaction only.
MirrorOf(p) ==
    /\ mirror[p] => HasMirror(db)
    /\ pc[p] \in Working \cup {"inspect", "repair"} => mirror[p]
    /\ pc[p] \in Working => db.fts = db.inc
    /\ tx[p] = "writing" => pc[p] \in {"delete", "commit"}
    /\ pc[p] = "delete" => view[p].inc = db.inc /\ view[p].fts = Without(db.fts, job[p])
    /\ pc[p] = "commit" => view[p].fts = view[p].inc

\* Without troubles: the mirror never holds anything but what is stored.
MirrorInv == db.fts \subseteq db.inc /\ \A p \in Procs : MirrorOf(p)

\* With one import at a time: it copies when nothing was imported.
ImportInv ==
    /\ db.links = IF db.marker THEN 1 ELSE 0
    /\ \A p \in Procs :
         /\ pc[p] \in {"marker", "copy"} => p \in Migrators
         /\ pc[p] = "copy" => ~db.marker
=============================================================================
