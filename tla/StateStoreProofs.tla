-------------------------- MODULE StateStoreProofs --------------------------
(***************************************************************************)
(* What is proved of StateStore for every value of its constants: the      *)
(* types and the snapshots, that a recorded schema has its tables, what an *)
(* import may do, and, where no statement fails half way, the mirror.      *)
(* The last part proves the invariants of Triage, whose pattern store is   *)
(* in the same file.                                                       *)
(***************************************************************************)
EXTENDS StateStore, FiniteSetTheorems, TLAPS

-----------------------------------------------------------------------------
(* Rows.                                                                   *)

\* The keys of some rows.
LEMMA KeysOfRows ==
    ASSUME NEW rows, NEW k
    PROVE  k \in KeysOf(rows) <=> \E f \in rows : f[1] = k
  BY DEF KeysOf

\* Some rows of a page are a page.
LEMMA SubPage == ASSUME NEW page \in Pages, NEW rows \in SUBSET page PROVE rows \in Pages
  BY DEF Pages

\* What is left of a page without some keys is a page.
LEMMA WithoutPage == ASSUME NEW page \in Pages, NEW keys PROVE Without(page, keys) \in Pages
<1>1. Without(page, keys) \in SUBSET page
  BY DEF Without
<1> QED
  BY <1>1, SubPage

\* A page written over another leaves a page.
LEMMA OverPage == ASSUME NEW old \in Pages, NEW new \in Pages PROVE Over(old, new) \in Pages
<1>1. old \in SUBSET (Keys \X Revs) /\ new \in SUBSET (Keys \X Revs)
  BY DEF Pages
<1>2. Over(old, new) \in SUBSET (Keys \X Revs)
  BY <1>1 DEF Over, Without
<1>3. ASSUME NEW f \in Over(old, new), NEW g \in Over(old, new), f[1] = g[1] PROVE f = g
  <2>1. \/ f \in old /\ f[1] \notin KeysOf(new)
        \/ f \in new
    BY DEF Over, Without
  <2>2. \/ g \in old /\ g[1] \notin KeysOf(new)
        \/ g \in new
    BY DEF Over, Without
  <2>3. \A h \in new : h[1] \in KeysOf(new)
    BY KeysOfRows
  <2>4. \A a, b \in old : a[1] = b[1] => a = b
    BY DEF Pages
  <2>5. \A a, b \in new : a[1] = b[1] => a = b
    BY DEF Pages
  <2> QED
    BY <1>3, <2>1, <2>2, <2>3, <2>4, <2>5
<1> QED
  BY <1>2, <1>3 DEF Pages

\* The legacy rows whose key is new, added to a page, leave a page.
LEMMA ImportedPage ==
    ASSUME NEW page \in Pages
    PROVE  /\ page \cup Without(Legacy, KeysOf(page)) \in Pages
           /\ KeysOf(Legacy) \subseteq KeysOf(page \cup Without(Legacy, KeysOf(page)))
<1> DEFINE all == page \cup Without(Legacy, KeysOf(page))
<1>1. Legacy \in Pages
  BY StateStoreAssumption DEF Pages
<1>2. all \in SUBSET (Keys \X Revs)
  BY <1>1 DEF Pages, Without
<1>3. ASSUME NEW f \in all, NEW g \in all, f[1] = g[1] PROVE f = g
  <2>1. \/ f \in page
        \/ f \in Legacy /\ f[1] \notin KeysOf(page)
    BY DEF Without
  <2>2. \/ g \in page
        \/ g \in Legacy /\ g[1] \notin KeysOf(page)
    BY DEF Without
  <2>3. \A h \in page : h[1] \in KeysOf(page)
    BY KeysOfRows
  <2>4. \A a, b \in page : a[1] = b[1] => a = b
    BY DEF Pages
  <2>5. \A a, b \in Legacy : a[1] = b[1] => a = b
    BY <1>1 DEF Pages
  <2> QED
    BY <1>3, <2>1, <2>2, <2>3, <2>4, <2>5
<1>4. KeysOf(Legacy) \subseteq KeysOf(all)
  <2> SUFFICES ASSUME NEW k \in KeysOf(Legacy) PROVE k \in KeysOf(all)
    OBVIOUS
  <2>1. PICK f \in Legacy : f[1] = k
    BY KeysOfRows
  <2>2. CASE k \in KeysOf(page)
    <3>1. \E g \in page : g[1] = k
      BY <2>2, KeysOfRows
    <3>2. \E g \in all : g[1] = k
      BY <3>1
    <3> QED
      BY <3>2, KeysOfRows
  <2>3. CASE k \notin KeysOf(page)
    <3>1. f \in all
      BY <2>1, <2>3 DEF Without
    <3> QED
      BY <2>1, <3>1, KeysOfRows
  <2> QED
    BY <2>2, <2>3
<1> QED
  BY <1>2, <1>3, <1>4 DEF Pages

\* No rows are a page.
LEMMA EmptyPage == {} \in Pages
  BY DEF Pages

-----------------------------------------------------------------------------
(* The schema ladder.                                                      *)

\* The three base tables, in their order.
LEMMA BaseOrder ==
    /\ DOMAIN Base = 1..3 /\ Len(Base) = 3
    /\ Base[1] = "incidents" /\ Base[2] = "links" /\ Base[3] = "meta"
    /\ {Base[i] : i \in DOMAIN Base} = BaseTables
<1>1. DOMAIN Base = 1..3 /\ Len(Base) = 3
  BY DEF Base
<1>2. Base[1] = "incidents" /\ Base[2] = "links" /\ Base[3] = "meta"
  BY DEF Base
<1>3. {Base[i] : i \in 1..3} = {Base[1], Base[2], Base[3]}
  OBVIOUS
<1>4. {Base[i] : i \in DOMAIN Base} = {Base[i] : i \in 1..3}
  BY <1>1
<1>5. {Base[1], Base[2], Base[3]} = BaseTables
  BY <1>2 DEF BaseTables
<1> QED
  BY <1>1, <1>2, <1>3, <1>4, <1>5

\* Where the CREATE of a table leads.
TableAfter(l) == IF l = "incidents" THEN "links" ELSE IF l = "links" THEN "meta" ELSE "fts"

\* The ladder follows it.
LEMMA NextTable ==
    ASSUME NEW i \in DOMAIN Base
    PROVE  (IF i < Len(Base) THEN Base[i + 1] ELSE "fts") = TableAfter(Base[i])
<1>1. i = 1 \/ i = 2 \/ i = 3
  BY BaseOrder
<1> QED
  BY <1>1, BaseOrder DEF TableAfter

-----------------------------------------------------------------------------
(* The connection.                                                         *)

\* The types of the file, of the transactions and of their snapshots.
ConnType ==
    /\ db \in DbType
    /\ tx \in [Procs -> TxStates]
    /\ \A p \in Procs : tx[p] \in {"reading", "writing"} => view[p] \in DbType
    /\ stale \subseteq {p \in Procs : tx[p] = "reading"}
    /\ DOMAIN view = Procs

\* A snapshot that is not stale is what is committed, and there is one writer.
ConnInv ==
    \A p \in Procs :
        /\ tx[p] = "reading" => p \in stale \/ view[p] = db
        /\ tx[p] = "writing" =>
             /\ \A q \in Procs \ {p} : tx[q] # "writing"
             /\ RowsOnly(view[p])

\* What an operation may do with the connection of p without a commit or a write.
Quiet(p) ==
    \/ Selects(p)
    \/ UNCHANGED <<db, tx, view, stale>>
    \/ RollsBack(p)
    \/ StaysOpen(p)

\* The operations of a connection leave the others' transactions alone, and the
\* connection and its types right; a write keeps all but rows.
LEMMA QuietConn ==
    ASSUME ConnType, ConnInv, NEW p \in Procs, Quiet(p)
    PROVE  /\ ConnType' /\ ConnInv' /\ db' = db /\ \A q \in Procs \ {p} : tx'[q] = tx[q]
           /\ \A q \in Procs : tx'[q] = "writing" => tx[q] = "writing" /\ view'[q] = view[q]
<1>1. CASE UNCHANGED <<db, tx, view, stale>>
  BY <1>1 DEF ConnType, ConnInv, RowsOnly
<1>2. CASE Selects(p)
  <2>1. CASE tx[p] = "begun"
    BY <1>2, <2>1 DEF Selects, ConnType, ConnInv, RowsOnly, TxStates
  <2>2. CASE tx[p] # "begun"
    BY <1>1, <1>2, <2>2 DEF Selects
  <2> QED
    BY <2>1, <2>2
<1>3. CASE RollsBack(p)
  BY <1>3 DEF RollsBack, ConnType, ConnInv, RowsOnly, TxStates
<1>4. CASE StaysOpen(p)
  BY <1>4 DEF StaysOpen, ConnType, ConnInv, RowsOnly, TxStates
<1> QED
  BY <1>1, <1>2, <1>3, <1>4 DEF Quiet

\* A write of rows.
LEMMA WritesConn ==
    ASSUME ConnType, ConnInv, NEW p \in Procs, NEW new \in DbType, RowsOnly(new), Writes(p, new)
    PROVE  /\ ConnType' /\ ConnInv' /\ db' = db /\ \A q \in Procs \ {p} : tx'[q] = tx[q]
           /\ tx'[p] = "writing" /\ view'[p] = new
           /\ \A q \in Procs \ {p} : tx'[q] # "writing" /\ view'[q] = view[q]
<1>1. /\ db' = db /\ stale' = stale /\ p \notin stale
      /\ \A q \in Procs \ {p} : tx[q] # "writing"
      /\ tx' = [tx EXCEPT ![p] = "writing"] /\ view' = [view EXCEPT ![p] = new]
  BY DEF Writes, CanWrite
<1>2. /\ tx'[p] = "writing" /\ view'[p] = new
      /\ \A q \in Procs \ {p} : tx'[q] = tx[q] /\ view'[q] = view[q]
  BY <1>1 DEF ConnType
<1>3. ConnType'
  BY <1>1, <1>2 DEF ConnType, TxStates
<1>4. ConnInv'
  BY <1>1, <1>2 DEF ConnType, ConnInv, RowsOnly
<1> QED
  BY <1>1, <1>2, <1>3, <1>4

\* A commit.
LEMMA CommitsConn ==
    ASSUME ConnType, ConnInv, NEW p \in Procs, NEW new \in DbType, Commits(p, new)
    PROVE  /\ ConnType' /\ ConnInv' /\ db' = new /\ tx'[p] = "none"
           /\ \A q \in Procs : tx'[q] # "writing"
           /\ \A q \in Procs \ {p} : tx'[q] = tx[q]
<1>1. /\ db' = new /\ p \notin stale
      /\ \A q \in Procs \ {p} : tx[q] # "writing"
      /\ tx' = [tx EXCEPT ![p] = "none"] /\ view' = [view EXCEPT ![p] = None]
      /\ stale' = IF new = db THEN stale
                  ELSE stale \cup {q \in Procs \ {p} : tx[q] = "reading"}
  BY DEF Commits, CanWrite
<1>2. tx'[p] = "none" /\ \A q \in Procs \ {p} : tx'[q] = tx[q] /\ view'[q] = view[q]
  BY <1>1 DEF ConnType
<1>3. ConnType'
  BY <1>1, <1>2 DEF ConnType, TxStates
<1>4. ConnInv'
  BY <1>1, <1>2 DEF ConnType, ConnInv
<1> QED
  BY <1>1, <1>2, <1>3, <1>4

\* What a connection that can write sees differs from the file by rows only, and
\* by nothing before its first write.
LEMMA SeesRows ==
    ASSUME ConnType, ConnInv, NEW p \in Procs
    PROVE  /\ Sees(p) \in DbType
           /\ CanWrite(p) => RowsOnly(Sees(p))
           /\ CanWrite(p) /\ tx[p] # "writing" => Sees(p) = db
           /\ tx[p] = "none" => Sees(p) = db
  BY DEF ConnType, ConnInv, Sees, CanWrite, RowsOnly

-----------------------------------------------------------------------------
(* The processes.                                                          *)

\* The types of what each process is doing.
LocalType ==
    /\ pc \in [Procs -> Labels] /\ mirror \in [Procs -> BOOLEAN]
    /\ DOMAIN job = Procs
    /\ \A p \in Procs : pc[p] = "upsert" => job[p] \in Pages

\* The invariants speak of the connections and of the processes.
LEMMA Parts ==
    /\ TypeOK <=> ConnType /\ LocalType
    /\ SnapshotInv <=>
         /\ ConnInv
         /\ \A p \in Procs :
              /\ tx[p] # "none" => pc[p] \in Working
              /\ pc[p] \in {"delete", "commit"} => tx[p] = "writing"
  BY DEF TypeOK, ConnType, LocalType, SnapshotInv, ConnInv

\* Process p stands at l; the others, and who has a mirror, are as they were.
WentTo(p, l) ==
    /\ LocalType' /\ pc'[p] = l /\ mirror' = mirror
    /\ \A q \in Procs \ {p} : pc'[q] = pc[q] /\ job'[q] = job[q]

\* Goto moves one process, which keeps its rows.
LEMMA GotoFields ==
    ASSUME LocalType, NEW p \in Procs, NEW l \in Labels \ {"upsert"}, Goto(p, l)
    PROVE  WentTo(p, l) /\ job' = job
  BY DEF LocalType, Goto, WentTo

\* With moves one process and gives it rows.
LEMMA WithFields ==
    ASSUME LocalType, NEW p \in Procs, NEW l \in Labels, NEW rows, With(p, l, rows),
           l = "upsert" => rows \in Pages
    PROVE  WentTo(p, l) /\ job'[p] = rows
  BY DEF LocalType, With, WentTo

\* What a step of p may do as far as types, snapshots and schema go.
StepAt(p) ==
    /\ LocalType' /\ \A q \in Procs \ {p} : pc'[q] = pc[q]
    /\ Behind(pc'[p]) \subseteq db'.tables
    /\ tx'[p] # "none" => pc'[p] \in Working
    /\ pc'[p] \in {"delete", "commit"} => tx'[p] = "writing"
    /\ \/ Quiet(p)
       \/ \E new \in DbType : RowsOnly(new) /\ Writes(p, new)
       \/ \E new \in DbType :
             /\ db.tables \subseteq new.tables
             /\ new.version => BaseTables \subseteq new.tables
             /\ Copy(p) \/ (new.marker = db.marker /\ new.links = db.links)
             /\ Commits(p, new)

Safe == TypeOK /\ SnapshotInv /\ SchemaInv

\* Such a step keeps the three invariants.
LEMMA StepKeeps == ASSUME Safe, NEW p \in Procs, StepAt(p) PROVE Safe'
<1> USE Parts
<1>1. ConnType /\ ConnInv /\ LocalType
  BY DEF Safe
<1>2. /\ ConnType' /\ ConnInv' /\ db.tables \subseteq db'.tables
      /\ db'.version => BaseTables \subseteq db'.tables
      /\ \A q \in Procs \ {p} : tx'[q] = tx[q]
  <2>1. CASE Quiet(p)
    BY <1>1, <2>1, QuietConn DEF Safe, SchemaInv
  <2>2. CASE \E new \in DbType : RowsOnly(new) /\ Writes(p, new)
    BY <1>1, <2>2, WritesConn DEF Safe, SchemaInv
  <2>3. CASE \E new \in DbType :
               /\ db.tables \subseteq new.tables
               /\ new.version => BaseTables \subseteq new.tables
               /\ Copy(p) \/ (new.marker = db.marker /\ new.links = db.links)
               /\ Commits(p, new)
    BY <1>1, <2>3, CommitsConn
  <2> QED
    BY <2>1, <2>2, <2>3 DEF StepAt
<1>3. TypeOK'
  <2>1. LocalType'
    BY DEF StepAt
  <2> QED
    BY <1>2, <2>1 DEF TypeOK, ConnType, LocalType
<1>4. SnapshotInv'
  <2>1. \A q \in Procs :
          /\ tx'[q] # "none" => pc'[q] \in Working
          /\ pc'[q] \in {"delete", "commit"} => tx'[q] = "writing"
    BY <1>2 DEF StepAt, Safe
  <2> QED
    BY <1>2, <2>1 DEF SnapshotInv, ConnInv
<1>5. SchemaInv'
  <2>1. \A q \in Procs \ {p} : Behind(pc'[q]) \subseteq db'.tables
    BY <1>2 DEF StepAt, Safe, SchemaInv
  <2> QED
    BY <1>2, <2>1 DEF SchemaInv, StepAt
<1> QED
  BY <1>3, <1>4, <1>5 DEF Safe

\* Every process outside a store's operations has nothing open.
LEMMA NothingOpen ==
    ASSUME Safe, NEW p \in Procs, pc[p] \notin Working
    PROVE  tx[p] = "none" /\ Sees(p) = db
  BY DEF Safe, SnapshotInv, Working, Sees

\* The labels of the ladder.
LEMMA LabelFacts ==
    /\ BaseTables \subseteq Labels \ Working /\ Working \subseteq Labels
    /\ \A p \in Procs : AfterSchema(p) \in {"create", "marker"}
    /\ Behind("closed") = {} /\ Behind("incidents") = {}
    /\ Behind("links") = {"incidents"} /\ Behind("meta") = {"incidents", "links"}
    /\ \A l \in Labels \ {"closed", "incidents", "links", "meta"} : Behind(l) = BaseTables
  BY DEF BaseTables, Labels, Working, AfterSchema, Behind

\* A statement that is refused for good ends the process's operation, and
\* with it its transaction.
LEMMA GivesUpStep ==
    ASSUME Safe, NEW p \in Procs, GivesUp(p)
    PROVE  StepAt(p)
<1>1. WentTo(p, "closed")
  BY GotoFields, Parts DEF GivesUp, Safe, Labels
<1>2. RollsBack(p) /\ tx'[p] = "none" /\ db' = db
  BY DEF GivesUp, RollsBack, Safe, TypeOK
<1> QED
  BY <1>1, <1>2, LabelFacts DEF StepAt, WentTo, Quiet

\* A commit that loses no table and records no version without its tables.
LEMMA CommitStep ==
    ASSUME Safe, NEW p \in Procs, NEW l \in Labels \ {"delete", "commit"},
           LocalType', pc'[p] = l,
           \A q \in Procs \ {p} : pc'[q] = pc[q],
           NEW new \in DbType, Commits(p, new), db.tables \subseteq new.tables,
           new.version => BaseTables \subseteq new.tables, Behind(l) \subseteq new.tables,
           Copy(p) \/ (new.marker = db.marker /\ new.links = db.links)
    PROVE  StepAt(p)
<1>1. db' = new /\ tx'[p] = "none"
  BY CommitsConn, Parts DEF Safe
<1> QED
  BY <1>1 DEF StepAt

\* A step that only reads.
LEMMA QuietStep ==
    ASSUME Safe, NEW p \in Procs, NEW l \in Labels \ {"delete", "commit"},
           LocalType', pc'[p] = l,
           \A q \in Procs \ {p} : pc'[q] = pc[q], Quiet(p),
           Behind(l) \subseteq db.tables,
           l \in Working \/ (tx[p] = "none" /\ (Selects(p) \/ tx' = tx))
    PROVE  StepAt(p)
<1>1. db' = db
  BY QuietConn, Parts DEF Safe
<1>2. tx'[p] # "none" => l \in Working
  BY DEF Selects
<1> QED
  BY <1>1, <1>2 DEF StepAt

\* The schema ladder: each table when its predecessors are there, the version
\* when all are.
LEMMA LadderStep ==
    ASSUME Safe, NEW p \in Procs, Open(p) \/ Ddl(p) \/ DdlFts(p) \/ Record(p)
    PROVE  StepAt(p)
<1>0. /\ LocalType /\ ConnType /\ db \in DbType
      /\ Behind(pc[p]) \subseteq db.tables
      /\ db.version => BaseTables \subseteq db.tables
      /\ AfterSchema(p) \in Labels \ ({"closed", "incidents", "links", "meta"} \cup Working)
      /\ db.tables \subseteq AllTables /\ BaseTables \subseteq AllTables
  BY Parts DEF Safe, SchemaInv, ConnType, DbType, AfterSchema, Labels, Working,
     AllTables, BaseTables
<1>1. CASE Open(p)
  <2> DEFINE l == IF db.version THEN AfterSchema(p) ELSE "incidents"
  <2>1. l \in Labels \ Working /\ Behind(l) \subseteq db.tables
    BY <1>0, LabelFacts DEF Labels, Working
  <2>2. Goto(p, l) /\ Selects(p) /\ pc[p] = "closed"
    BY <1>1, BaseOrder DEF Open
  <2> HIDE DEF l
  <2>3. WentTo(p, l) /\ l \notin {"delete", "commit"}
    BY <1>0, <2>1, <2>2, GotoFields DEF Working
  <2>4. tx[p] = "none"
    BY <2>2, NothingOpen DEF Working
  <2> QED
    BY <2>1, <2>2, <2>3, <2>4, QuietStep DEF WentTo, Quiet
<1>2. CASE Ddl(p)
  <2>1. CASE GivesUp(p)
    BY <2>1, GivesUpStep
  <2>2. CASE ~GivesUp(p)
    <3> DEFINE new == [db EXCEPT !.tables = @ \cup {pc[p]}]
    <3>1. PICK i \in DOMAIN Base :
             /\ pc[p] = Base[i] /\ Commits(p, new)
             /\ Goto(p, IF i < Len(Base) THEN Base[i + 1] ELSE "fts")
      BY <1>2, <2>2 DEF Ddl
    <3>2. Goto(p, TableAfter(pc[p])) /\ pc[p] \in BaseTables
      BY <3>1, NextTable, BaseOrder
    <3>3. /\ TableAfter(pc[p]) \in Labels \ {"upsert", "delete", "commit"}
          /\ Behind(TableAfter(pc[p])) = Behind(pc[p]) \cup {pc[p]}
      BY <3>2 DEF TableAfter, Labels, BaseTables, Behind
    <3>4. WentTo(p, TableAfter(pc[p]))
      BY <1>0, <3>2, <3>3, GotoFields
    <3>5. /\ new \in DbType /\ new.tables = db.tables \cup {pc[p]} /\ new.version = db.version
          /\ new.marker = db.marker /\ new.links = db.links
      BY <1>0, <3>2 DEF DbType
    <3> HIDE DEF new
    <3> QED
      BY <1>0, <3>1, <3>3, <3>4, <3>5, CommitStep DEF WentTo
  <2> QED
    BY <2>1, <2>2
<1>3. CASE DdlFts(p)
  <2>1. pc[p] = "fts" /\ Goto(p, "record")
    BY <1>3 DEF DdlFts
  <2>2. WentTo(p, "record") /\ Behind("record") = BaseTables /\ BaseTables \subseteq db.tables
    BY <1>0, <2>1, GotoFields, LabelFacts DEF Labels
  <2>3. CASE Commits(p, [db EXCEPT !.tables = @ \cup {"incidents_fts"}])
    <3> DEFINE new == [db EXCEPT !.tables = @ \cup {"incidents_fts"}]
    <3>1. /\ new \in DbType /\ new.tables = db.tables \cup {"incidents_fts"}
          /\ new.version = db.version /\ new.marker = db.marker /\ new.links = db.links
      BY <1>0 DEF DbType, AllTables
    <3> HIDE DEF new
    <3> QED
      BY <1>0, <2>2, <2>3, <3>1, CommitStep DEF WentTo, new, Labels
  <2>4. CASE UNCHANGED <<db, tx, view, stale>>
    <3>1. tx[p] = "none"
      BY <2>1, NothingOpen DEF Working
    <3> QED
      BY <2>2, <2>4, <3>1, QuietStep DEF WentTo, Quiet, Labels
  <2> QED
    BY <1>3, <2>3, <2>4 DEF DdlFts
<1>4. CASE Record(p)
  <2>1. CASE GivesUp(p)
    BY <2>1, GivesUpStep
  <2>2. CASE ~GivesUp(p)
    <3> DEFINE new == [db EXCEPT !.version = TRUE]
    <3>1. pc[p] = "record" /\ Commits(p, new) /\ Goto(p, AfterSchema(p))
      BY <1>4, <2>2 DEF Record
    <3>2. WentTo(p, AfterSchema(p)) /\ Behind(AfterSchema(p)) = BaseTables
          /\ BaseTables \subseteq db.tables /\ AfterSchema(p) \notin {"delete", "commit"}
      BY <1>0, <3>1, GotoFields, LabelFacts DEF Labels, Working
    <3>3. /\ new \in DbType /\ new.tables = db.tables
          /\ new.marker = db.marker /\ new.links = db.links
      BY <1>0 DEF DbType
    <3> HIDE DEF new
    <3> QED
      BY <1>0, <3>1, <3>2, <3>3, CommitStep DEF WentTo
  <2> QED
    BY <2>1, <2>2
<1> QED
  BY <1>1, <1>2, <1>3, <1>4

\* Opening a store: its mirror is looked for, created and rebuilt.
LEMMA OpeningStep ==
    ASSUME Safe, NEW p \in Procs, CreateFts(p) \/ Inspect(p) \/ Repair(p)
    PROVE  StepAt(p)
<1>0. /\ LocalType /\ ConnType /\ db \in DbType /\ Behind(pc[p]) \subseteq db.tables
      /\ db.version => BaseTables \subseteq db.tables
      /\ db.tables \subseteq AllTables /\ BaseTables \subseteq AllTables
  BY Parts DEF Safe, SchemaInv, ConnType, DbType, AllTables, BaseTables
<1>1. /\ pc[p] \in {"create", "inspect", "repair"} /\ tx[p] = "none"
      /\ BaseTables \subseteq db.tables
  BY <1>0, NothingOpen, LabelFacts DEF CreateFts, Inspect, Repair, Working, Labels
<1>2. /\ {"inspect", "ready", "repair"} \subseteq Labels \ {"upsert"}
      /\ \A l \in {"inspect", "ready", "repair"} : Behind(l) = BaseTables
  BY LabelFacts DEF Labels
<1>3. CASE CreateFts(p)
  <2> DEFINE l == IF mirror'[p] THEN "inspect" ELSE "ready"
  <2>1. pc' = [pc EXCEPT ![p] = l] /\ job' = job
    BY <1>3 DEF CreateFts
  <2>2. mirror' \in [Procs -> BOOLEAN]
    BY <1>0, <1>3 DEF CreateFts, LocalType, Outcomes
  <2>3. l \in {"inspect", "ready"}
    OBVIOUS
  <2> HIDE DEF l
  <2>4. LocalType' /\ pc'[p] = l /\ \A q \in Procs \ {p} : pc'[q] = pc[q]
    BY <1>0, <1>2, <2>1, <2>2, <2>3 DEF LocalType
  <2>5. CASE Commits(p, [db EXCEPT !.tables = AllTables])
    <3> DEFINE new == [db EXCEPT !.tables = AllTables]
    <3>1. /\ new \in DbType /\ new.tables = AllTables /\ new.version = db.version
          /\ new.marker = db.marker /\ new.links = db.links
      BY <1>0 DEF DbType
    <3> HIDE DEF new
    <3> QED
      BY <1>0, <1>2, <2>3, <2>4, <2>5, <3>1, CommitStep DEF new
  <2>6. CASE Selects(p) \/ UNCHANGED <<db, tx, view, stale>>
    BY <1>1, <1>2, <2>3, <2>4, <2>6, QuietStep DEF Quiet
  <2> QED
    BY <1>3, <2>5, <2>6 DEF CreateFts
<1>4. CASE Inspect(p)
  <2>1. PICK l \in {"repair", "ready"} : Goto(p, l) /\ Selects(p)
    BY <1>4 DEF Inspect
  <2>2. WentTo(p, l)
    BY <1>0, <1>2, <2>1, GotoFields
  <2> QED
    BY <1>1, <1>2, <2>1, <2>2, QuietStep DEF WentTo, Quiet
<1>5. CASE Repair(p)
  <2>1. CASE GivesUp(p)
    BY <2>1, GivesUpStep
  <2>2. CASE ~GivesUp(p)
    <3> DEFINE new == [db EXCEPT !.fts = db.inc]
    <3>1. Commits(p, new) /\ Goto(p, "ready")
      BY <1>5, <2>2 DEF Repair
    <3>2. WentTo(p, "ready")
      BY <1>0, <1>2, <3>1, GotoFields
    <3>3. /\ new \in DbType /\ new.tables = db.tables /\ new.version = db.version
          /\ new.marker = db.marker /\ new.links = db.links
      BY <1>0 DEF DbType, Pages
    <3> HIDE DEF new
    <3> QED
      BY <1>0, <1>1, <1>2, <3>1, <3>2, <3>3, CommitStep DEF WentTo
  <2> QED
    BY <2>1, <2>2
<1> QED
  BY <1>3, <1>4, <1>5

\* A write of rows in a store's operation.
LEMMA WriteStep ==
    ASSUME Safe, NEW p \in Procs, pc[p] \in Working, NEW l \in Working, WentTo(p, l),
           NEW new \in DbType, RowsOnly(new), Writes(p, new)
    PROVE  StepAt(p)
<1>1. db' = db /\ tx'[p] = "writing"
  BY WritesConn, Parts DEF Safe
<1>2. Behind(l) = BaseTables /\ Behind(pc[p]) = BaseTables
  BY LabelFacts DEF Working, Labels
<1>3. Behind(l) \subseteq db.tables
  BY <1>2 DEF Safe, SchemaInv
<1> QED
  BY <1>1, <1>3 DEF StepAt, WentTo

\* A commit of rows, or of the meta table, by a store's operation.
LEMMA WorkCommit ==
    ASSUME Safe, NEW p \in Procs, pc[p] \in Working, NEW l \in Working \ {"delete", "commit"},
           LocalType', pc'[p] = l,
           \A q \in Procs \ {p} : pc'[q] = pc[q],
           NEW new \in DbType, Commits(p, new),
           new.tables = db.tables, new.version = db.version,
           new.marker = db.marker, new.links = db.links
    PROVE  StepAt(p)
<1>1. Behind(l) = BaseTables /\ Behind(pc[p]) = BaseTables /\ l \in Labels
  BY LabelFacts DEF Working, Labels
<1>2. Behind(l) \subseteq db.tables
  BY <1>1 DEF Safe, SchemaInv
<1> QED
  BY <1>1, <1>2, CommitStep

\* A step of a store's operation that writes nothing.
LEMMA WorkQuiet ==
    ASSUME Safe, NEW p \in Procs, pc[p] \in Working, NEW l \in Working \ {"delete", "commit"},
           LocalType', pc'[p] = l,
           \A q \in Procs \ {p} : pc'[q] = pc[q], Quiet(p)
    PROVE  StepAt(p)
<1>1. Behind(l) = BaseTables /\ Behind(pc[p]) = BaseTables /\ l \in Labels
  BY LabelFacts DEF Working, Labels
<1>2. Behind(l) \subseteq db.tables
  BY <1>1 DEF Safe, SchemaInv
<1> QED
  BY <1>1, <1>2, QuietStep

\* The rows an operation leaves make a database, which differs by rows only.
LEMMA RowsType ==
    ASSUME NEW p \in Procs, NEW d \in DbType
    PROVE  /\ \A rows \in Pages :
                 /\ Upserted(p, d, rows) \in DbType
                 /\ Upserted(p, d, rows).inc = Over(d.inc, rows)
                 /\ Upserted(p, d, rows).fts = IF mirror[p] THEN Over(d.fts, rows) ELSE d.fts
                 /\ Upserted(p, d, rows).tables = d.tables
                 /\ Upserted(p, d, rows).version = d.version
                 /\ Upserted(p, d, rows).marker = d.marker
                 /\ Upserted(p, d, rows).links = d.links
           /\ \A keys : LET e == [d EXCEPT !.fts = IF mirror[p] THEN Without(@, keys) ELSE @] IN
                 /\ e \in DbType /\ e.inc = d.inc
                 /\ e.fts = IF mirror[p] THEN Without(d.fts, keys) ELSE d.fts
                 /\ e.tables = d.tables /\ e.version = d.version /\ e.meta = d.meta
                 /\ e.marker = d.marker /\ e.links = d.links
           /\ \A keys : LET e == [d EXCEPT !.inc = Without(@, keys)] IN
                 /\ e \in DbType /\ e.inc = Without(d.inc, keys) /\ e.fts = d.fts
                 /\ e.tables = d.tables /\ e.version = d.version /\ e.meta = d.meta
                 /\ e.marker = d.marker /\ e.links = d.links
<1>0. d.inc \in Pages /\ d.fts \in SUBSET (Keys \X Revs)
  BY DEF DbType
<1>1. ASSUME NEW rows \in Pages
      PROVE  /\ Upserted(p, d, rows) \in DbType
             /\ Upserted(p, d, rows).inc = Over(d.inc, rows)
             /\ Upserted(p, d, rows).fts = IF mirror[p] THEN Over(d.fts, rows) ELSE d.fts
             /\ Upserted(p, d, rows).tables = d.tables
             /\ Upserted(p, d, rows).version = d.version
             /\ Upserted(p, d, rows).marker = d.marker
             /\ Upserted(p, d, rows).links = d.links
  <2> DEFINE inc == Over(d.inc, rows)
             fts == IF mirror[p] THEN Over(d.fts, rows) ELSE d.fts
  <2>1. inc \in Pages
    BY <1>0, OverPage
  <2>2. fts \in SUBSET (Keys \X Revs)
    BY <1>0 DEF Over, Without, Pages
  <2>3. Upserted(p, d, rows) = [d EXCEPT !.inc = inc, !.fts = fts]
    BY DEF Upserted, DbType
  <2> HIDE DEF inc, fts
  <2>4. /\ Upserted(p, d, rows) \in DbType
        /\ Upserted(p, d, rows).inc = inc /\ Upserted(p, d, rows).fts = fts
        /\ Upserted(p, d, rows).tables = d.tables
        /\ Upserted(p, d, rows).version = d.version
        /\ Upserted(p, d, rows).marker = d.marker /\ Upserted(p, d, rows).links = d.links
    BY <2>1, <2>2, <2>3 DEF DbType
  <2> QED
    BY <2>4 DEF inc, fts
<1>2. ASSUME NEW fts \in SUBSET (Keys \X Revs)
      PROVE  LET e == [d EXCEPT !.fts = fts] IN
                 /\ e \in DbType /\ e.inc = d.inc /\ e.fts = fts
                 /\ e.tables = d.tables /\ e.version = d.version /\ e.meta = d.meta
                 /\ e.marker = d.marker /\ e.links = d.links
  BY DEF DbType
<1>3. ASSUME NEW inc \in Pages
      PROVE  LET e == [d EXCEPT !.inc = inc] IN
                 /\ e \in DbType /\ e.inc = inc /\ e.fts = d.fts
                 /\ e.tables = d.tables /\ e.version = d.version /\ e.meta = d.meta
                 /\ e.marker = d.marker /\ e.links = d.links
  BY DEF DbType
<1>4. \A keys : (IF mirror[p] THEN Without(d.fts, keys) ELSE d.fts) \in SUBSET (Keys \X Revs)
  BY <1>0 DEF Without
<1>5. \A keys : Without(d.inc, keys) \in Pages
  BY <1>0, WithoutPage
<1> QED
  BY <1>1, <1>2, <1>3, <1>4, <1>5

\* The operations that read before they write.
LEMMA ReadStep ==
    ASSUME Safe, NEW p \in Procs, Compare(p) \/ ListKeys(p)
    PROVE  StepAt(p)
<1>0. LocalType /\ pc[p] \in Working /\ {"upsert", "unmirror"} \subseteq Labels \cap Working
  BY Parts DEF Safe, Compare, ListKeys, Working, Labels
<1>1. CASE Compare(p)
  <2>1. PICK page \in Pages : With(p, "upsert", page \ Sees(p).inc) /\ Selects(p)
    BY <1>1 DEF Compare
  <2>2. page \ Sees(p).inc \in Pages
    BY SubPage
  <2>3. WentTo(p, "upsert")
    BY <1>0, <2>1, <2>2, WithFields
  <2> QED
    BY <1>0, <2>1, <2>3, WorkQuiet DEF WentTo, Quiet
<1>2. CASE ListKeys(p)
  <2>1. PICK keys : With(p, "unmirror", keys) /\ Selects(p)
    BY <1>2 DEF ListKeys
  <2>2. WentTo(p, "unmirror")
    BY <1>0, <2>1, WithFields
  <2> QED
    BY <1>0, <2>1, <2>2, WorkQuiet DEF WentTo, Quiet
<1> QED
  BY <1>1, <1>2

\* The operations that write in one step.
LEMMA UpsertStep ==
    ASSUME Safe, NEW p \in Procs, UpsertMany(p) \/ SetMeta(p)
    PROVE  StepAt(p)
<1>0. /\ LocalType /\ ConnType /\ ConnInv /\ pc[p] \in Working
      /\ "ready" \in Working /\ "ready" \in Labels
  BY Parts DEF Safe, UpsertMany, SetMeta, Working, Labels
<1>1. Sees(p) \in DbType /\ (CanWrite(p) => RowsOnly(Sees(p)))
  BY <1>0, SeesRows
<1>2. CASE UpsertMany(p)
  <2>1. WentTo(p, "ready") /\ job[p] \in Pages
    BY <1>0, <1>2, WithFields DEF UpsertMany, LocalType
  <2>2. CASE RollsBack(p)
    BY <1>0, <2>1, <2>2, WorkQuiet DEF WentTo, Quiet
  <2>3. CASE Commits(p, Upserted(p, Sees(p), job[p]))
    <3> DEFINE new == Upserted(p, Sees(p), job[p])
    <3>1. RowsOnly(Sees(p))
      BY <1>1, <2>3 DEF Commits
    <3>2. /\ new \in DbType /\ new.tables = db.tables /\ new.version = db.version
          /\ new.marker = db.marker /\ new.links = db.links
      BY <1>1, <2>1, <3>1, RowsType DEF RowsOnly
    <3> HIDE DEF new
    <3> QED
      BY <1>0, <2>1, <2>3, <3>2, WorkCommit DEF WentTo, new
  <2> QED
    BY <1>2, <2>2, <2>3 DEF UpsertMany
<1>3. CASE SetMeta(p)
  <2>1. LocalType' /\ pc' = pc /\ pc[p] = "ready"
    BY <1>0, <1>3 DEF SetMeta, LocalType
  <2>2. CASE StaysOpen(p)
    BY <1>0, <2>1, <2>2, WorkQuiet DEF Quiet
  <2>3. CASE Commits(p, [Sees(p) EXCEPT !.meta = db.meta + 1])
    <3> DEFINE new == [Sees(p) EXCEPT !.meta = db.meta + 1]
    <3>1. RowsOnly(Sees(p)) /\ db.meta \in Nat
      BY <1>0, <1>1, <2>3 DEF Commits, ConnType, DbType
    <3>2. /\ new \in DbType /\ new.tables = db.tables /\ new.version = db.version
          /\ new.marker = db.marker /\ new.links = db.links
      BY <1>1, <3>1 DEF RowsOnly, DbType
    <3> HIDE DEF new
    <3> QED
      BY <1>0, <2>1, <2>3, <3>2, WorkCommit DEF new
  <2> QED
    BY <1>3, <2>2, <2>3 DEF SetMeta
<1> QED
  BY <1>2, <1>3

\* The deletions: the mirror's rows, the incidents, the commit.
LEMMA DeleteStep ==
    ASSUME Safe, NEW p \in Procs, Prune(p) \/ Unmirror(p) \/ Delete(p) \/ Commit(p)
    PROVE  StepAt(p)
<1>0. /\ LocalType /\ ConnType /\ ConnInv /\ pc[p] \in Working
      /\ \A l \in {"ready", "delete", "commit"} : l \in Working /\ l \in Labels \ {"upsert"}
  BY Parts DEF Safe, Prune, Unmirror, Delete, Commit, Working, Labels
<1>1. Sees(p) \in DbType /\ (CanWrite(p) => RowsOnly(Sees(p)))
  BY <1>0, SeesRows
<1>2. ASSUME NEW keys, Writes(p, Unmirrored(p, keys)), WentTo(p, "delete") PROVE StepAt(p)
  <2> DEFINE new == Unmirrored(p, keys)
  <2>1. RowsOnly(Sees(p))
    BY <1>1, <1>2 DEF Writes
  <2>2. new \in DbType /\ RowsOnly(new)
    BY <1>1, <2>1, RowsType DEF Unmirrored, RowsOnly
  <2> HIDE DEF new
  <2> QED
    BY <1>0, <1>2, <2>2, WriteStep DEF new
<1>3. CASE Prune(p)
  <2>1. CASE StaysOpen(p) /\ UNCHANGED <<pc, job, mirror>>
    <3>1. LocalType' /\ pc' = pc /\ pc[p] = "ready"
      BY <1>0, <1>3, <2>1 DEF LocalType, Prune
    <3> QED
      BY <1>0, <2>1, <3>1, WorkQuiet DEF Quiet
  <2>2. CASE Writes(p, Unmirrored(p, Expired(Sees(p)))) /\ With(p, "delete", Expired(Sees(p)))
    <3>1. WentTo(p, "delete")
      BY <1>0, <2>2, WithFields
    <3> QED
      BY <1>2, <2>2, <3>1
  <2> QED
    BY <1>3, <2>1, <2>2 DEF Prune
<1>4. CASE Unmirror(p)
  <2>1. CASE StaysOpen(p) /\ With(p, "ready", {})
    <3>1. WentTo(p, "ready")
      BY <1>0, <2>1, WithFields
    <3> QED
      BY <1>0, <2>1, <3>1, WorkQuiet DEF Quiet, WentTo
  <2>2. CASE Writes(p, Unmirrored(p, job[p])) /\ Goto(p, "delete")
    <3>1. WentTo(p, "delete")
      BY <1>0, <2>2, GotoFields
    <3> QED
      BY <1>2, <2>2, <3>1
  <2> QED
    BY <1>4, <2>1, <2>2 DEF Unmirror
<1>5. CASE Delete(p)
  <2>1. CASE StaysOpen(p) /\ With(p, "ready", {})
    <3>1. WentTo(p, "ready")
      BY <1>0, <2>1, WithFields
    <3> QED
      BY <1>0, <2>1, <3>1, WorkQuiet DEF Quiet, WentTo
  <2>2. CASE Writes(p, [Sees(p) EXCEPT !.inc = Without(@, job[p])]) /\ Goto(p, "commit")
    <3> DEFINE new == [Sees(p) EXCEPT !.inc = Without(@, job[p])]
    <3>1. RowsOnly(Sees(p)) /\ WentTo(p, "commit")
      BY <1>0, <1>1, <2>2, GotoFields DEF Writes
    <3>2. new \in DbType /\ RowsOnly(new)
      BY <1>1, <3>1, RowsType DEF RowsOnly
    <3> HIDE DEF new
    <3> QED
      BY <1>0, <2>2, <3>1, <3>2, WriteStep DEF new
  <2> QED
    BY <1>5, <2>1, <2>2 DEF Delete
<1>6. CASE Commit(p)
  <2>1. Commits(p, view[p]) /\ With(p, "ready", {}) /\ pc[p] = "commit"
    BY <1>6 DEF Commit
  <2>2. WentTo(p, "ready")
    BY <1>0, <2>1, WithFields
  <2>3. view[p] \in DbType /\ RowsOnly(view[p])
    BY <1>0, <2>1 DEF Safe, SnapshotInv, ConnType
  <2> QED
    BY <1>0, <2>1, <2>2, <2>3, WorkCommit DEF WentTo, RowsOnly
<1> QED
  BY <1>3, <1>4, <1>5, <1>6

\* What an import leaves.
LEMMA ImportedType ==
    ASSUME NEW d \in DbType
    PROVE  /\ Imported(d) \in DbType
           /\ Imported(d).inc = d.inc \cup Without(Legacy, KeysOf(d.inc))
           /\ Imported(d).fts = IF HasMirror(d)
                                THEN d.fts \cup Without(Imported(d).inc, KeysOf(d.fts)) ELSE d.fts
           /\ Imported(d).tables = d.tables /\ Imported(d).version = d.version
           /\ Imported(d).marker = TRUE /\ Imported(d).links = d.links + 1
<1> DEFINE inc == d.inc \cup Without(Legacy, KeysOf(d.inc))
           fts == IF HasMirror(d) THEN d.fts \cup Without(inc, KeysOf(d.fts)) ELSE d.fts
<1>1. inc \in Pages
  BY ImportedPage DEF DbType
<1>2. fts \in SUBSET (Keys \X Revs)
  BY <1>1 DEF DbType, Pages, Without
<1>3. Imported(d) = [d EXCEPT !.inc = inc, !.fts = fts, !.links = d.links + 1, !.marker = TRUE]
  BY DEF Imported, DbType
<1> HIDE DEF inc, fts
<1>4. d.links + 1 \in Nat
  BY DEF DbType
<1>5. /\ Imported(d) \in DbType /\ Imported(d).inc = inc /\ Imported(d).fts = fts
      /\ Imported(d).tables = d.tables /\ Imported(d).version = d.version
      /\ Imported(d).marker = TRUE /\ Imported(d).links = d.links + 1
  BY <1>1, <1>2, <1>3, <1>4 DEF DbType
<1> QED
  BY <1>5 DEF inc, fts

\* The import, and the ends of a process.
LEMMA EndStep ==
    ASSUME Safe, NEW p \in Procs, ReadMarker(p) \/ Copy(p) \/ Close(p) \/ Crash(p)
    PROVE  StepAt(p)
<1>0. /\ LocalType /\ ConnType /\ db \in DbType /\ Behind(pc[p]) \subseteq db.tables
      /\ db.version => BaseTables \subseteq db.tables
      /\ {"closed", "copy"} \subseteq Labels \ ({"upsert"} \cup Working)
  BY Parts DEF Safe, SchemaInv, ConnType, Labels, Working
<1>1. CASE ReadMarker(p)
  <2>1. PICK l \in {"closed", "copy"} : Goto(p, l) /\ Selects(p)
    BY <1>1 DEF ReadMarker
  <2>2. WentTo(p, l) /\ Behind(l) \subseteq BaseTables
    BY <1>0, <2>1, GotoFields, LabelFacts DEF Labels
  <2>3. tx[p] = "none" /\ BaseTables \subseteq db.tables
    BY <1>0, <1>1, NothingOpen, LabelFacts DEF ReadMarker, Working, Labels
  <2> QED
    BY <1>0, <2>1, <2>2, <2>3, QuietStep DEF WentTo, Quiet, Working
<1>2. CASE Copy(p)
  <2>1. CASE GivesUp(p)
    BY <2>1, GivesUpStep
  <2>2. CASE ~GivesUp(p)
    <3>1. Commits(p, Imported(db)) /\ Goto(p, "closed")
      BY <1>2, <2>2 DEF Copy
    <3>2. WentTo(p, "closed") /\ "closed" \in Labels \ {"delete", "commit"}
      BY <1>0, <3>1, GotoFields DEF Working
    <3> QED
      BY <1>0, <1>2, <3>1, <3>2, ImportedType, LabelFacts, CommitStep DEF WentTo
  <2> QED
    BY <2>1, <2>2
<1>3. CASE Close(p) \/ Crash(p)
  <2>1. With(p, "closed", {}) /\ RollsBack(p)
    BY <1>3 DEF Close, Crash
  <2>2. WentTo(p, "closed")
    BY <1>0, <2>1, WithFields
  <2>3. tx'[p] = "none" /\ db' = db
    BY <1>0, <2>1 DEF RollsBack, ConnType
  <2> QED
    BY <2>1, <2>2, <2>3, LabelFacts DEF StepAt, WentTo, Quiet
<1> QED
  BY <1>1, <1>2, <1>3

\* Every step is one of these.
LEMMA StepIs == ASSUME Safe, NEW p \in Procs, Step(p) PROVE StepAt(p)
  BY LadderStep, OpeningStep, ReadStep, UpsertStep, DeleteStep, EndStep DEF Step

\* Nothing has happened at first; a database without its mirror has its tables.
LEMMA SafeInit == Init => Safe
<1> SUFFICES ASSUME Init PROVE Safe
  OBVIOUS
<1>1. Legacy \in Pages /\ {} \in Pages
  BY StateStoreAssumption, EmptyPage DEF Pages
<1>2. /\ Fresh \in DbType /\ Fresh.version = FALSE
      /\ Mirrorless \in DbType /\ BaseTables \subseteq Mirrorless.tables
  BY <1>1 DEF Fresh, Mirrorless, DbType, AllTables, BaseTables
<1>3. db \in DbType /\ (db.version => BaseTables \subseteq db.tables)
  BY <1>2 DEF Init
<1>4. TypeOK
  BY <1>3 DEF Init, TypeOK, TxStates, Labels
<1>5. SnapshotInv
  BY DEF Init, SnapshotInv
<1>6. SchemaInv
  BY <1>3, LabelFacts DEF Init, SchemaInv
<1> QED
  BY <1>4, <1>5, <1>6 DEF Safe

\* Every step keeps the types, the snapshots and the schema.
LEMMA SafeStep == Safe /\ [Next]_vars => Safe'
<1>1. Safe /\ UNCHANGED vars => Safe'
  BY DEF Safe, vars, TypeOK, SnapshotInv, RowsOnly, SchemaInv
<1>2. Safe /\ Next => Safe'
  BY StepIs, StepKeeps DEF Next
<1> QED
  BY <1>1, <1>2

\* Whatever statements the processes interleave, are refused or die in, what is
\* committed and what each connection sees are databases of one row a key; a
\* snapshot that is not stale is what is committed, and there is one writer.
THEOREM SafeCorrect == Spec => []Safe
  BY SafeInit, SafeStep, PTL DEF Spec

\* The type invariant.
THEOREM TypeCorrect == Spec => []TypeOK
<1>1. Safe => TypeOK
  BY DEF Safe
<1> QED
  BY <1>1, SafeCorrect, PTL

\* Whoever finds the schema recorded, and whoever is past its own CREATEs, has
\* the tables (init_state_schema of storage/state.py).
THEOREM VersionMeansTablesCorrect == Spec => []VersionMeansTables
<1>1. Safe => VersionMeansTables
  <2> SUFFICES ASSUME Safe, NEW p \in Procs,
                      db.version \/ pc[p] \in Labels \ {"closed", "incidents", "links", "meta"}
               PROVE  BaseTables \subseteq db.tables
    BY BaseOrder DEF VersionMeansTables
  <2>1. Behind(pc[p]) \subseteq db.tables /\ (db.version => BaseTables \subseteq db.tables)
    BY DEF Safe, SchemaInv
  <2> QED
    BY <2>1, LabelFacts
<1> QED
  BY <1>1, SafeCorrect, PTL

-----------------------------------------------------------------------------
(* One import at a time.                                                   *)

\* Nobody runs `migrate' beside another (two that both found no marker would
\* both insert the links).
OneImport == \A p, q \in Migrators : p = q

\* Who comes to the marker is a migrator; who comes to the copy found none.
LEMMA CopyEntered ==
    ASSUME Safe, NEW p \in Procs, Step(p), pc'[p] \in {"marker", "copy"}
    PROVE  \/ pc'[p] = "marker" /\ p \in Migrators
           \/ pc'[p] = "copy" /\ pc[p] = "marker" /\ ~db.marker /\ db' = db
<1>0. pc \in [Procs -> Labels]
  BY DEF Safe, TypeOK
<1>1. CASE Open(p) \/ Record(p)
  <2>1. pc'[p] \in {"incidents", "closed", AfterSchema(p)}
    BY <1>0, <1>1, BaseOrder DEF Open, Record, Goto, GivesUp
  <2> QED
    BY <2>1 DEF AfterSchema, Procs
<1>2. CASE Ddl(p)
  <2>1. pc'[p] \in {"closed", "links", "meta", "fts"}
    <3>1. CASE GivesUp(p)
      BY <1>0, <3>1 DEF GivesUp, Goto
    <3>2. CASE ~GivesUp(p)
      <4>1. PICK i \in DOMAIN Base : Goto(p, IF i < Len(Base) THEN Base[i + 1] ELSE "fts")
        BY <1>2, <3>2 DEF Ddl
      <4>2. pc'[p] = TableAfter(Base[i])
        BY <1>0, <4>1, NextTable DEF Goto
      <4> QED
        BY <4>2 DEF TableAfter
    <3> QED
      BY <3>1, <3>2
  <2> QED
    BY <2>1
<1>3. CASE ReadMarker(p)
  BY <1>0, <1>3 DEF ReadMarker, Goto, Selects
<1>4. CASE DdlFts(p) \/ CreateFts(p) \/ Inspect(p) \/ Repair(p)
  BY <1>0, <1>4 DEF DdlFts, CreateFts, Inspect, Repair, Goto, GivesUp
<1>5. CASE Compare(p) \/ UpsertMany(p) \/ SetMeta(p) \/ ListKeys(p)
  BY <1>0, <1>5 DEF Compare, UpsertMany, SetMeta, ListKeys, With
<1>6. CASE Prune(p) \/ Unmirror(p) \/ Delete(p) \/ Commit(p)
  BY <1>0, <1>6 DEF Prune, Unmirror, Delete, Commit, With, Goto
<1>7. CASE Copy(p) \/ Close(p) \/ Crash(p)
  BY <1>0, <1>7 DEF Copy, Close, Crash, With, Goto, GivesUp
<1> QED
  BY <1>1, <1>2, <1>3, <1>4, <1>5, <1>6, <1>7 DEF Step

\* A step that is not the import's commit keeps the marker and the links.
LEMMA MarkerKept ==
    ASSUME Safe, NEW p \in Procs, Step(p)
    PROVE  \/ db'.marker = db.marker /\ db'.links = db.links
           \/ pc[p] = "copy" /\ pc'[p] = "closed" /\ db' = Imported(db)
<1>1. StepAt(p) /\ ConnType /\ ConnInv
  BY StepIs, Parts DEF Safe
<1>2. CASE Quiet(p) \/ \E new \in DbType : RowsOnly(new) /\ Writes(p, new)
  <2>1. db' = db
    BY <1>1, <1>2, QuietConn, WritesConn
  <2> QED
    BY <2>1
<1>3. ASSUME NEW new \in DbType, Commits(p, new),
             Copy(p) \/ (new.marker = db.marker /\ new.links = db.links)
      PROVE  \/ db'.marker = db.marker /\ db'.links = db.links
             \/ pc[p] = "copy" /\ pc'[p] = "closed" /\ db' = Imported(db)
  <2>1. db' = new
    BY <1>1, <1>3, CommitsConn
  <2>2. CASE Copy(p)
    <3>1. pc[p] = "copy" /\ pc'[p] = "closed"
      BY <2>2 DEF Copy, Goto, GivesUp, Safe, TypeOK
    <3>2. db' = Imported(db) \/ db' = db
      BY <2>2 DEF Copy, Commits, GivesUp, RollsBack
    <3> QED
      BY <3>1, <3>2
  <2> QED
    BY <1>3, <2>1, <2>2
<1> QED
  BY <1>1, <1>2, <1>3 DEF StepAt

\* Every step keeps the marker with the links.
LEMMA ImportStep ==
    ASSUME OneImport, Safe, ImportInv, NEW p \in Procs, Step(p)
    PROVE  ImportInv'
<1>1. /\ \A q \in Procs \ {p} : pc'[q] = pc[q]
      /\ db.links = IF db.marker THEN 1 ELSE 0
      /\ \A q \in Procs : pc[q] \in {"marker", "copy"} => q \in Migrators
      /\ \A q \in Procs : pc[q] = "copy" => ~db.marker
  BY StepIs DEF StepAt, ImportInv
<1>2. pc'[p] \in {"marker", "copy"} => p \in Migrators
  BY <1>1, CopyEntered
<1>3. CASE db'.marker = db.marker /\ db'.links = db.links
  <2>1. pc'[p] = "copy" => ~db'.marker
    BY <1>3, CopyEntered
  <2> QED
    BY <1>1, <1>2, <1>3, <2>1 DEF ImportInv
<1>4. CASE pc[p] = "copy" /\ pc'[p] = "closed" /\ db' = Imported(db)
  <2>1. db'.marker = TRUE /\ db'.links = db.links + 1
    BY <1>4, ImportedType DEF Safe, TypeOK
  <2>2. db'.links = 1
    BY <1>1, <1>4, <2>1
  <2>3. \A q \in Procs : pc'[q] # "copy"
    BY <1>1, <1>4 DEF OneImport
  <2> QED
    BY <1>1, <1>2, <2>1, <2>2, <2>3 DEF ImportInv
<1> QED
  BY <1>3, <1>4, MarkerKept

\* The marker and the links agree, and who copies found nothing imported.
THEOREM ImportCorrect == ASSUME OneImport PROVE Spec => []ImportInv
<1>1. Init => ImportInv
  <2> SUFFICES ASSUME Init PROVE ImportInv
    OBVIOUS
  <2>1. /\ Fresh.marker = FALSE /\ Fresh.links = 0
        /\ Mirrorless.marker = FALSE /\ Mirrorless.links = 0
    BY DEF Fresh, Mirrorless
  <2>2. db.marker = FALSE /\ db.links = 0
    BY <2>1 DEF Init
  <2>3. \A p \in Procs : pc[p] = "closed"
    BY DEF Init
  <2> QED
    BY <2>2, <2>3 DEF ImportInv
<1>2. Safe /\ ImportInv /\ [Next]_vars => ImportInv'
  BY ImportStep DEF Next, vars, ImportInv
<1> QED
  BY <1>1, <1>2, SafeCorrect, PTL DEF Spec

\* A legacy link is never imported twice, however often imports die and are
\* repeated (the note of migrate_legacy.py on its marker).
THEOREM ImportedOnceCorrect == ASSUME OneImport PROVE Spec => []ImportedOnce
<1>1. ImportInv => ImportedOnce
  BY DEF ImportInv, ImportedOnce
<1> QED
  BY <1>1, ImportCorrect, PTL

\* An import finds no earlier one in the file, changes no incident the new
\* database has and leaves none of the legacy ones out (migrate_legacy.py).
THEOREM ImportsOnceOverNothingCorrect ==
    ASSUME OneImport PROVE Spec => ImportsOnceOverNothing
<1>1. ASSUME Safe, ImportInv, NEW p \in Procs, Step(p), db'.links > db.links
      PROVE  /\ db.links = 0 /\ db'.marker
             /\ db.inc \subseteq db'.inc
             /\ KeysOf(Legacy) \subseteq KeysOf(db'.inc)
  <2>1. db.links \in Nat /\ db \in DbType /\ db.inc \in Pages
    BY <1>1 DEF Safe, TypeOK, DbType
  <2>2. db'.links # db.links
    BY <1>1, <2>1
  <2>3. pc[p] = "copy" /\ db' = Imported(db)
    BY <1>1, <2>2, MarkerKept
  <2>4. db'.marker /\ db'.inc = db.inc \cup Without(Legacy, KeysOf(db.inc))
    BY <2>1, <2>3, ImportedType
  <2>5. db.links = 0
    BY <1>1, <2>3 DEF ImportInv
  <2> QED
    BY <2>1, <2>4, <2>5, ImportedPage
<1>2. Safe /\ ImportInv /\ [Next]_vars =>
        [db'.links > db.links =>
            /\ db.links = 0 /\ db'.marker
            /\ db.inc \subseteq db'.inc
            /\ KeysOf(Legacy) \subseteq KeysOf(db'.inc)]_db
  BY <1>1 DEF Next, vars
<1> QED
  BY <1>2, SafeCorrect, ImportCorrect, PTL DEF Spec, ImportsOnceOverNothing

-----------------------------------------------------------------------------
(* The mirror, where no CREATE and no second DELETE fails.                 *)

NoTroubles == Troubles = {}

\* The rows of the processes that take no step.
OthersSame(p) ==
    \A q \in Procs \ {p} : pc'[q] = pc[q] /\ job'[q] = job[q] /\ mirror'[q] = mirror[q]

\* What does not write keeps the mirror.
LEMMA MirrorQuiet ==
    ASSUME Safe, MirrorInv, NEW p \in Procs, Quiet(p), OthersSame(p),
           tx'[p] # "writing", pc'[p] \notin {"delete", "commit"},
           mirror'[p] => HasMirror(db),
           pc'[p] \in Working \cup {"inspect", "repair"} => mirror'[p],
           pc'[p] \in Working => db.fts = db.inc
    PROVE  MirrorInv'
<1>1. /\ db' = db /\ \A q \in Procs \ {p} : tx'[q] = tx[q]
      /\ \A q \in Procs : tx'[q] = "writing" => view'[q] = view[q]
  BY QuietConn, Parts DEF Safe
<1>2. MirrorOf(p)'
  BY <1>1 DEF MirrorOf, HasMirror
<1>3. ASSUME NEW q \in Procs \ {p} PROVE MirrorOf(q)'
  <2>1. /\ MirrorOf(q) /\ pc'[q] = pc[q] /\ job'[q] = job[q] /\ mirror'[q] = mirror[q]
        /\ tx'[q] = tx[q]
        /\ pc[q] \in {"delete", "commit"} => view'[q] = view[q]
    BY <1>1 DEF MirrorInv, OthersSame, Safe, SnapshotInv
  <2> QED
    BY <1>1, <2>1 DEF MirrorOf, HasMirror
<1> QED
  BY <1>1, <1>2, <1>3 DEF MirrorInv

\* A commit keeps it when what it commits is right.
LEMMA MirrorCommits ==
    ASSUME Safe, MirrorInv, NEW p \in Procs, NEW new \in DbType, Commits(p, new), OthersSame(p),
           new.fts \subseteq new.inc, HasMirror(db) => HasMirror(new),
           HasMirror(db) /\ db.fts = db.inc => new.fts = new.inc,
           pc'[p] \notin {"delete", "commit"},
           mirror'[p] => HasMirror(new),
           pc'[p] \in Working \cup {"inspect", "repair"} => mirror'[p],
           pc'[p] \in Working => new.fts = new.inc
    PROVE  MirrorInv'
<1>1. /\ db' = new /\ \A q \in Procs : tx'[q] # "writing"
      /\ \A q \in Procs \ {p} : tx'[q] = tx[q]
  BY CommitsConn, Parts DEF Safe
<1>2. MirrorOf(p)'
  BY <1>1 DEF MirrorOf, HasMirror
<1>3. ASSUME NEW q \in Procs \ {p} PROVE MirrorOf(q)'
  <2>1. /\ MirrorOf(q) /\ pc'[q] = pc[q] /\ mirror'[q] = mirror[q]
        /\ pc[q] \notin {"delete", "commit"}
    BY <1>1 DEF MirrorInv, OthersSame, Safe, SnapshotInv
  <2> QED
    BY <1>1, <2>1 DEF MirrorOf, HasMirror
<1> QED
  BY <1>1, <1>2, <1>3 DEF MirrorInv

\* A deletion that goes on keeps it, half done in its own snapshot.
LEMMA MirrorWrites ==
    ASSUME Safe, MirrorInv, NEW p \in Procs, NEW new \in DbType, RowsOnly(new), Writes(p, new),
           OthersSame(p), pc[p] \in Working, pc'[p] \in {"delete", "commit"},
           mirror'[p] = mirror[p],
           pc'[p] = "delete" => new.inc = db.inc /\ new.fts = Without(db.fts, job'[p]),
           pc'[p] = "commit" => new.fts = new.inc
    PROVE  MirrorInv'
<1>1. /\ db' = db /\ \A q \in Procs \ {p} : tx'[q] = tx[q] /\ view'[q] = view[q]
      /\ view'[p] = new
  BY WritesConn, Parts DEF Safe
<1>2. MirrorOf(p)'
  <2>1. MirrorOf(p)
    BY DEF MirrorInv
  <2>2. mirror'[p] /\ HasMirror(db) /\ db.fts = db.inc
    BY <2>1 DEF MirrorOf
  <2> QED
    BY <1>1, <2>2 DEF MirrorOf, HasMirror
<1>3. ASSUME NEW q \in Procs \ {p} PROVE MirrorOf(q)'
  <2>1. MirrorOf(q) /\ pc'[q] = pc[q] /\ job'[q] = job[q] /\ mirror'[q] = mirror[q]
    BY DEF MirrorInv, OthersSame
  <2> QED
    BY <1>1, <2>1 DEF MirrorOf, HasMirror
<1> QED
  BY <1>1, <1>2, <1>3 DEF MirrorInv

\* Where the counts and keys agree and the mirror has nothing of its own, it is
\* exact.
LEMMA CompleteIsExact ==
    ASSUME NEW d \in DbType, d.fts \subseteq d.inc, ~Incomplete(d)
    PROVE  d.fts = d.inc
<1>1. ASSUME NEW f \in d.inc PROVE f \in d.fts
  <2>1. f[1] \in KeysOf(d.inc)
    BY KeysOfRows
  <2>2. f[1] \in KeysOf(d.fts)
    BY <2>1 DEF Incomplete
  <2>3. PICK g \in d.fts : g[1] = f[1]
    BY <2>2, KeysOfRows
  <2>4. g = f
    BY <2>3 DEF DbType, Pages
  <2> QED
    BY <2>3, <2>4
<1> QED
  BY <1>1

\* The import leaves an exact mirror exact, and none but what is stored.
LEMMA ImportedMirror ==
    ASSUME NEW d \in DbType, d.fts \subseteq d.inc
    PROVE  /\ Imported(d).fts \subseteq Imported(d).inc
           /\ HasMirror(d) /\ d.fts = d.inc => Imported(d).fts = Imported(d).inc
           /\ HasMirror(Imported(d)) <=> HasMirror(d)
<1> DEFINE inc == Imported(d).inc
           fts == Imported(d).fts
<1>1. /\ inc = d.inc \cup Without(Legacy, KeysOf(d.inc))
      /\ fts = IF HasMirror(d) THEN d.fts \cup Without(inc, KeysOf(d.fts)) ELSE d.fts
      /\ Imported(d).tables = d.tables
  BY ImportedType
<1> HIDE DEF inc, fts
<1>2. fts \subseteq inc
  BY <1>1 DEF Without
<1>3. ASSUME HasMirror(d), d.fts = d.inc PROVE inc \subseteq fts
  <2>1. \A f \in inc : f \in d.fts \/ f[1] \notin KeysOf(d.fts)
    BY <1>1, <1>3 DEF Without
  <2> QED
    BY <1>1, <1>3, <2>1 DEF Without
<1> QED
  BY <1>1, <1>2, <1>3 DEF HasMirror, inc, fts

\* No write: a process that goes where no store works, or gives up.
LEMMA MirrorLeaves ==
    ASSUME Safe, MirrorInv, NEW p \in Procs, Quiet(p), OthersSame(p), mirror'[p] = mirror[p],
           tx'[p] # "writing", pc'[p] \notin Working \cup {"inspect", "repair"}
    PROVE  MirrorInv'
<1>1. mirror'[p] => HasMirror(db)
  BY DEF MirrorInv, MirrorOf
<1> QED
  BY <1>1, MirrorQuiet DEF Working

\* Local facts of Goto and With for the mirror.
LEMMA Moved ==
    ASSUME Safe, NEW p \in Procs, NEW l
    PROVE  /\ Goto(p, l) => pc'[p] = l /\ OthersSame(p) /\ mirror' = mirror
           /\ \A rows : With(p, l, rows) =>
                pc'[p] = l /\ job'[p] = rows /\ OthersSame(p) /\ mirror' = mirror
  BY DEF Safe, TypeOK, Goto, With, OthersSame

\* A process that gives up leaves the mirror as it is.
LEMMA MirrorGivesUp ==
    ASSUME Safe, MirrorInv, NEW p \in Procs, GivesUp(p) PROVE MirrorInv'
<1>1. pc'[p] = "closed" /\ OthersSame(p) /\ mirror' = mirror
  BY Moved DEF GivesUp
<1>2. Quiet(p) /\ tx'[p] = "none"
  BY DEF GivesUp, RollsBack, Quiet, Safe, TypeOK
<1> QED
  BY <1>1, <1>2, MirrorLeaves DEF Working

\* A commit of the schema has the rows of the file.
LEMMA MirrorSchema ==
    ASSUME Safe, MirrorInv, NEW p \in Procs, NEW new \in DbType, Commits(p, new), OthersSame(p),
           new.fts = db.fts, new.inc = db.inc, db.tables \subseteq new.tables,
           pc'[p] \notin Working, mirror'[p] => HasMirror(new),
           pc'[p] \in {"inspect", "repair"} => mirror'[p]
    PROVE  MirrorInv'
<1>1. db.fts \subseteq db.inc /\ (HasMirror(db) => HasMirror(new))
  BY DEF MirrorInv, HasMirror
<1> QED
  BY <1>1, MirrorCommits DEF Working

\* The schema ladder.
LEMMA MirrorLadder ==
    ASSUME NoTroubles, Safe, MirrorInv, NEW p \in Procs,
           Open(p) \/ Ddl(p) \/ DdlFts(p) \/ Record(p)
    PROVE  MirrorInv'
<1>0. db \in DbType /\ (mirror[p] => HasMirror(db)) /\ AfterSchema(p) \in {"create", "marker"}
  BY LabelFacts DEF Safe, TypeOK, MirrorInv, MirrorOf
<1>1. pc[p] \in Labels \ Working /\ tx[p] = "none"
  BY NothingOpen, BaseOrder, LabelFacts
  DEF Open, Ddl, DdlFts, Record, Working, Labels, BaseTables
<1>2. CASE Open(p)
  <2>1. PICK l \in {"incidents", "create", "marker"} : Goto(p, l) /\ Selects(p)
    BY <1>0, <1>2, BaseOrder DEF Open
  <2>2. tx' = tx
    BY <1>1, <2>1 DEF Selects
  <2> QED
    BY <1>1, <2>1, <2>2, Moved, MirrorLeaves DEF Quiet, Working
<1>3. CASE Ddl(p)
  <2>1. CASE GivesUp(p)
    BY <2>1, MirrorGivesUp
  <2>2. CASE ~GivesUp(p)
    <3> DEFINE new == [db EXCEPT !.tables = @ \cup {pc[p]}]
    <3>1. PICK i \in DOMAIN Base :
             /\ pc[p] = Base[i] /\ Commits(p, new)
             /\ Goto(p, IF i < Len(Base) THEN Base[i + 1] ELSE "fts")
      BY <1>3, <2>2 DEF Ddl
    <3>2. Goto(p, TableAfter(pc[p])) /\ pc[p] \in BaseTables
      BY <3>1, NextTable, BaseOrder
    <3>3. pc'[p] \in {"links", "meta", "fts"} /\ OthersSame(p) /\ mirror' = mirror
      BY <3>2, Moved DEF TableAfter
    <3>4. /\ new \in DbType /\ new.fts = db.fts /\ new.inc = db.inc
          /\ db.tables \subseteq new.tables
      BY <1>0, <3>2 DEF DbType, BaseTables, AllTables
    <3> HIDE DEF new
    <3> QED
      BY <1>0, <3>1, <3>3, <3>4, MirrorSchema DEF Working, HasMirror
  <2> QED
    BY <2>1, <2>2
<1>4. CASE DdlFts(p)
  <2> DEFINE new == [db EXCEPT !.tables = @ \cup {"incidents_fts"}]
  <2>1. Commits(p, new) /\ Goto(p, "record")
    BY <1>4 DEF DdlFts, Outcomes, NoTroubles
  <2>2. /\ new \in DbType /\ new.fts = db.fts /\ new.inc = db.inc
        /\ db.tables \subseteq new.tables
    BY <1>0 DEF DbType, AllTables
  <2> HIDE DEF new
  <2>3. pc'[p] = "record" /\ OthersSame(p) /\ mirror' = mirror
    BY <2>1, Moved
  <2> QED
    BY <1>0, <2>1, <2>2, <2>3, MirrorSchema DEF Working, HasMirror
<1>5. CASE Record(p)
  <2>1. CASE GivesUp(p)
    BY <2>1, MirrorGivesUp
  <2>2. CASE ~GivesUp(p)
    <3> DEFINE new == [db EXCEPT !.version = TRUE]
    <3>1. Commits(p, new) /\ Goto(p, AfterSchema(p))
      BY <1>5, <2>2 DEF Record
    <3>2. new \in DbType /\ new.fts = db.fts /\ new.inc = db.inc /\ new.tables = db.tables
      BY <1>0 DEF DbType
    <3> HIDE DEF new
    <3>3. pc'[p] \in {"create", "marker"} /\ OthersSame(p) /\ mirror' = mirror
      BY <1>0, <3>1, Moved
    <3> QED
      BY <1>0, <3>1, <3>2, <3>3, MirrorSchema DEF Working, HasMirror
  <2> QED
    BY <2>1, <2>2
<1> QED
  BY <1>2, <1>3, <1>4, <1>5

\* Opening a store: it works with an exact mirror or not at all.
LEMMA MirrorOpening ==
    ASSUME NoTroubles, Safe, MirrorInv, NEW p \in Procs, CreateFts(p) \/ Inspect(p) \/ Repair(p)
    PROVE  MirrorInv'
<1>0. db \in DbType /\ MirrorOf(p) /\ db.fts \subseteq db.inc
  BY DEF Safe, TypeOK, MirrorInv
<1>1. tx[p] = "none" /\ Sees(p) = db
  BY NothingOpen DEF CreateFts, Inspect, Repair, Working
<1>2. CASE CreateFts(p)
  <2>1. mirror'[p] = TRUE /\ OthersSame(p) /\ pc'[p] = "inspect"
    <3>1. mirror' = [mirror EXCEPT ![p] = TRUE]
      BY <1>2 DEF CreateFts, Outcomes, NoTroubles
    <3>2. /\ pc' = [pc EXCEPT ![p] = IF mirror'[p] THEN "inspect" ELSE "ready"]
          /\ job' = job
      BY <1>2 DEF CreateFts
    <3> QED
      BY <3>1, <3>2 DEF Safe, TypeOK, OthersSame
  <2>2. CASE HasMirror(db) /\ Selects(p)
    <3>1. tx' = tx
      BY <1>1, <2>2 DEF Selects
    <3> QED
      BY <1>1, <2>1, <2>2, <3>1, MirrorQuiet DEF Quiet, Working
  <2>3. CASE Commits(p, [db EXCEPT !.tables = AllTables])
    <3> DEFINE new == [db EXCEPT !.tables = AllTables]
    <3>1. /\ new \in DbType /\ new.fts = db.fts /\ new.inc = db.inc /\ new.tables = AllTables
          /\ db.tables \subseteq AllTables
      BY <1>0 DEF DbType
    <3> HIDE DEF new
    <3>2. HasMirror(new)
      BY <3>1 DEF HasMirror, AllTables
    <3>3. Commits(p, new)
      BY <2>3 DEF new
    <3> QED
      BY <2>1, <3>1, <3>2, <3>3, MirrorSchema DEF Working
  <2> QED
    BY <1>2, <2>2, <2>3 DEF CreateFts, Outcomes, NoTroubles
<1>3. CASE Inspect(p)
  <2> DEFINE l == IF Incomplete(Sees(p)) THEN "repair" ELSE "ready"
  <2>1. Goto(p, l) /\ Selects(p) /\ pc[p] = "inspect"
    BY <1>3 DEF Inspect
  <2>2. l \in {"repair", "ready"} /\ (l = "ready" => db.fts = db.inc)
    BY <1>0, <1>1, CompleteIsExact
  <2> HIDE DEF l
  <2>3. pc'[p] = l /\ OthersSame(p) /\ mirror' = mirror /\ tx' = tx
    BY <1>1, <2>1, Moved DEF Selects
  <2>4. mirror[p] /\ HasMirror(db)
    BY <1>0, <2>1 DEF MirrorOf
  <2> QED
    BY <1>1, <2>1, <2>2, <2>3, <2>4, MirrorQuiet DEF Quiet, Working
<1>4. CASE Repair(p)
  <2>1. CASE GivesUp(p)
    BY <2>1, MirrorGivesUp
  <2>2. CASE ~GivesUp(p)
    <3> DEFINE new == [db EXCEPT !.fts = db.inc]
    <3>1. Commits(p, new) /\ Goto(p, "ready") /\ pc[p] = "repair"
      BY <1>4, <2>2 DEF Repair
    <3>2. new \in DbType /\ new.fts = new.inc /\ new.tables = db.tables
      BY <1>0 DEF DbType, Pages
    <3> HIDE DEF new
    <3>3. pc'[p] = "ready" /\ OthersSame(p) /\ mirror' = mirror
      BY <3>1, Moved
    <3>4. mirror[p] /\ HasMirror(new)
      BY <1>0, <3>1, <3>2 DEF MirrorOf, HasMirror
    <3> QED
      BY <3>1, <3>2, <3>3, <3>4, MirrorCommits DEF Working
  <2> QED
    BY <2>1, <2>2
<1> QED
  BY <1>2, <1>3, <1>4

\* A store that works has an exact mirror, and sees the file when it can write,
\* but for the deletion it is in.
LEMMA AtWork ==
    ASSUME Safe, MirrorInv, NEW p \in Procs, pc[p] \in Working
    PROVE  /\ mirror[p] /\ HasMirror(db) /\ db.fts = db.inc
           /\ db \in DbType /\ MirrorOf(p)
           /\ pc[p] \notin {"delete", "commit"} =>
                /\ tx[p] # "writing"
                /\ CanWrite(p) => Sees(p) = db
<1>1. MirrorOf(p) /\ ConnType /\ ConnInv
  BY Parts DEF MirrorInv, Safe
<1> QED
  BY <1>1, SeesRows DEF MirrorOf, ConnType

\* A store that works on without a write.
LEMMA MirrorWorks ==
    ASSUME Safe, MirrorInv, NEW p \in Procs, Quiet(p), OthersSame(p), mirror' = mirror,
           pc[p] \in Working \ {"delete", "commit"}, pc'[p] \in Working \ {"delete", "commit"}
    PROVE  MirrorInv'
<1>1. tx'[p] # "writing"
  BY AtWork, QuietConn, Parts DEF Safe
<1> QED
  BY <1>1, AtWork, MirrorQuiet

\* A store that works on with a commit that keeps the mirror exact.
LEMMA MirrorWorkCommits ==
    ASSUME Safe, MirrorInv, NEW p \in Procs, NEW new \in DbType, Commits(p, new),
           OthersSame(p), mirror' = mirror, pc[p] \in Working,
           pc'[p] \in Working \ {"delete", "commit"},
           new.fts = new.inc, new.tables = db.tables
    PROVE  MirrorInv'
<1>1. mirror[p] /\ HasMirror(new)
  BY AtWork DEF HasMirror
<1> QED
  BY <1>1, MirrorCommits

\* The operations but the deletions.
LEMMA MirrorWork ==
    ASSUME Safe, MirrorInv, NEW p \in Procs,
           Compare(p) \/ ListKeys(p) \/ UpsertMany(p) \/ SetMeta(p)
    PROVE  MirrorInv'
<1>0. /\ pc[p] \in Working \ {"delete", "commit"}
      /\ {"ready", "upsert", "unmirror"} \subseteq Working \ {"delete", "commit"}
  BY DEF Compare, ListKeys, UpsertMany, SetMeta, Working
<1>1. CASE Compare(p) \/ ListKeys(p)
  <2>1. PICK l \in {"upsert", "unmirror"} : Selects(p) /\ \E rows : With(p, l, rows)
    BY <1>1 DEF Compare, ListKeys
  <2>2. pc'[p] = l /\ OthersSame(p) /\ mirror' = mirror
    BY <2>1, Moved
  <2> QED
    BY <1>0, <2>1, <2>2, MirrorWorks DEF Quiet
<1>2. CASE UpsertMany(p)
  <2>1. pc'[p] = "ready" /\ OthersSame(p) /\ mirror' = mirror
    BY <1>2, Moved DEF UpsertMany
  <2>2. CASE RollsBack(p)
    BY <1>0, <2>1, <2>2, MirrorWorks DEF Quiet
  <2>3. CASE Commits(p, Upserted(p, Sees(p), job[p]))
    <3> DEFINE new == Upserted(p, db, job[p])
    <3>1. Sees(p) = db
      BY <1>0, <2>3, AtWork DEF Commits
    <3>2. job[p] \in Pages
      BY <1>2 DEF UpsertMany, Safe, TypeOK
    <3>3. new \in DbType /\ new.fts = new.inc /\ new.tables = db.tables
      BY <1>0, <3>2, AtWork, RowsType
    <3> HIDE DEF new
    <3>4. Commits(p, new)
      BY <2>3, <3>1 DEF new
    <3> QED
      BY <1>0, <2>1, <3>3, <3>4, MirrorWorkCommits
  <2> QED
    BY <1>2, <2>2, <2>3 DEF UpsertMany
<1>3. CASE SetMeta(p)
  <2>1. pc' = pc /\ OthersSame(p) /\ mirror' = mirror
    BY <1>3 DEF SetMeta, OthersSame
  <2>2. CASE StaysOpen(p)
    BY <1>0, <2>1, <2>2, MirrorWorks DEF Quiet
  <2>3. CASE Commits(p, [Sees(p) EXCEPT !.meta = db.meta + 1])
    <3> DEFINE new == [db EXCEPT !.meta = db.meta + 1]
    <3>1. Sees(p) = db /\ db \in DbType /\ db.fts = db.inc
      BY <1>0, <2>3, AtWork DEF Commits
    <3>2. new \in DbType /\ new.fts = new.inc /\ new.tables = db.tables
      BY <3>1 DEF DbType
    <3> HIDE DEF new
    <3>3. Commits(p, new)
      BY <2>3, <3>1 DEF new
    <3> QED
      BY <1>0, <2>1, <3>2, <3>3, MirrorWorkCommits
  <2> QED
    BY <1>3, <2>2, <2>3 DEF SetMeta
<1> QED
  BY <1>1, <1>2, <1>3

\* The deletions.
LEMMA MirrorDeletes ==
    ASSUME NoTroubles, Safe, MirrorInv, NEW p \in Procs,
           Prune(p) \/ Unmirror(p) \/ Delete(p) \/ Commit(p)
    PROVE  MirrorInv'
<1>0. /\ pc[p] \in Working /\ {"ready", "unmirror"} \subseteq Working \ {"delete", "commit"}
      /\ ConnType /\ ConnInv
  BY Parts DEF Prune, Unmirror, Delete, Commit, Working, Safe
<1>1. ASSUME NEW keys, Writes(p, Unmirrored(p, keys)), pc'[p] = "delete", job'[p] = keys,
             OthersSame(p), mirror' = mirror, pc[p] \notin {"delete", "commit"}
      PROVE  MirrorInv'
  <2> DEFINE new == Unmirrored(p, keys)
  <2>1. Sees(p) = db /\ db \in DbType /\ mirror[p]
    BY <1>0, <1>1, AtWork DEF Writes
  <2>2. /\ new \in DbType /\ RowsOnly(new)
        /\ new.inc = db.inc /\ new.fts = Without(db.fts, keys)
    BY <2>1, RowsType DEF Unmirrored, RowsOnly
  <2> HIDE DEF new
  <2>3. Writes(p, new)
    BY <1>1 DEF new
  <2> QED
    BY <1>0, <1>1, <2>2, <2>3, MirrorWrites
<1>2. CASE Prune(p)
  <2>1. CASE StaysOpen(p) /\ UNCHANGED <<pc, job, mirror>>
    <3>1. pc[p] = "ready" /\ OthersSame(p) /\ mirror' = mirror /\ pc'[p] = "ready"
      BY <1>2, <2>1 DEF Prune, OthersSame
    <3> QED
      BY <1>0, <2>1, <3>1, MirrorWorks DEF Quiet
  <2>2. CASE Writes(p, Unmirrored(p, Expired(Sees(p)))) /\ With(p, "delete", Expired(Sees(p)))
    <3>1. /\ pc'[p] = "delete" /\ job'[p] = Expired(Sees(p))
          /\ OthersSame(p) /\ mirror' = mirror /\ pc[p] = "ready"
      BY <1>2, <2>2, Moved DEF Prune
    <3> QED
      BY <1>1, <2>2, <3>1
  <2> QED
    BY <1>2, <2>1, <2>2 DEF Prune
<1>3. CASE Unmirror(p)
  <2>1. CASE StaysOpen(p) /\ With(p, "ready", {})
    <3>1. pc'[p] = "ready" /\ OthersSame(p) /\ mirror' = mirror /\ pc[p] = "unmirror"
      BY <1>3, <2>1, Moved DEF Unmirror
    <3> QED
      BY <1>0, <2>1, <3>1, MirrorWorks DEF Quiet
  <2>2. CASE Writes(p, Unmirrored(p, job[p])) /\ Goto(p, "delete")
    <3>1. /\ pc'[p] = "delete" /\ job'[p] = job[p]
          /\ OthersSame(p) /\ mirror' = mirror /\ pc[p] = "unmirror"
      BY <1>3, <2>2, Moved DEF Unmirror, Goto
    <3> QED
      BY <1>1, <2>2, <3>1
  <2> QED
    BY <1>3, <2>1, <2>2 DEF Unmirror
<1>4. CASE Delete(p)
  <2> DEFINE new == [view[p] EXCEPT !.inc = Without(@, job[p])]
  <2>1. /\ pc[p] = "delete" /\ Goto(p, "commit")
        /\ Writes(p, [Sees(p) EXCEPT !.inc = Without(@, job[p])])
    BY <1>4 DEF Delete, Outcomes, NoTroubles
  <2>2. tx[p] = "writing" /\ view[p] \in DbType /\ RowsOnly(view[p])
    BY <1>0, <2>1 DEF Safe, SnapshotInv, ConnType
  <2>3. /\ view[p].inc = db.inc /\ view[p].fts = Without(db.fts, job[p])
        /\ db.fts = db.inc
    BY <1>0, <2>1, AtWork DEF MirrorOf
  <2>4. /\ new \in DbType /\ RowsOnly(new)
        /\ new.fts = view[p].fts /\ new.inc = Without(view[p].inc, job[p])
    <3>1. Without(view[p].inc, job[p]) \in Pages
      BY <2>2, WithoutPage DEF DbType
    <3> DEFINE rows == Without(view[p].inc, job[p])
    <3>2. new = [view[p] EXCEPT !.inc = rows]
      OBVIOUS
    <3> HIDE DEF new, rows
    <3>3. new \in DbType /\ RowsOnly(new) /\ new.fts = view[p].fts /\ new.inc = rows
      BY <2>2, <3>1, <3>2 DEF DbType, RowsOnly, rows
    <3> QED
      BY <3>3 DEF rows
  <2>5. Sees(p) = view[p]
    BY <2>2 DEF Sees
  <2>6. Writes(p, new)
    BY <2>1, <2>5
  <2> HIDE DEF new
  <2>7. pc'[p] = "commit" /\ OthersSame(p) /\ mirror' = mirror
    BY <2>1, Moved
  <2> QED
    BY <1>0, <2>3, <2>4, <2>6, <2>7, MirrorWrites
<1>5. CASE Commit(p)
  <2>1. Commits(p, view[p]) /\ With(p, "ready", {}) /\ pc[p] = "commit"
    BY <1>5 DEF Commit
  <2>2. view[p] \in DbType /\ RowsOnly(view[p]) /\ view[p].fts = view[p].inc
    BY <1>0, <2>1, AtWork DEF Safe, SnapshotInv, ConnType, MirrorOf
  <2>3. pc'[p] = "ready" /\ OthersSame(p) /\ mirror' = mirror
    BY <2>1, Moved
  <2> QED
    BY <1>0, <2>1, <2>2, <2>3, MirrorWorkCommits DEF RowsOnly
<1> QED
  BY <1>2, <1>3, <1>4, <1>5

\* The import, and the ends of a process.
LEMMA MirrorEnd ==
    ASSUME Safe, MirrorInv, NEW p \in Procs, ReadMarker(p) \/ Copy(p) \/ Close(p) \/ Crash(p)
    PROVE  MirrorInv'
<1>1. CASE ReadMarker(p)
  <2>1. PICK l \in {"closed", "copy"} : Goto(p, l) /\ Selects(p)
    BY <1>1 DEF ReadMarker
  <2>2. tx[p] = "none"
    BY <1>1, NothingOpen DEF ReadMarker, Working
  <2>3. pc'[p] = l /\ OthersSame(p) /\ mirror' = mirror /\ tx' = tx
    BY <2>1, <2>2, Moved DEF Selects
  <2> QED
    BY <2>1, <2>2, <2>3, MirrorLeaves DEF Quiet, Working
<1>2. CASE Copy(p)
  <2>1. CASE GivesUp(p)
    BY <2>1, MirrorGivesUp
  <2>2. CASE ~GivesUp(p)
    <3>1. Commits(p, Imported(db)) /\ Goto(p, "closed")
      BY <1>2, <2>2 DEF Copy
    <3>2. pc'[p] = "closed" /\ OthersSame(p) /\ mirror' = mirror
      BY <3>1, Moved
    <3>3. db \in DbType /\ db.fts \subseteq db.inc /\ (mirror[p] => HasMirror(db))
      BY DEF Safe, TypeOK, MirrorInv, MirrorOf
    <3> DEFINE new == Imported(db)
    <3>4. /\ new \in DbType /\ new.fts \subseteq new.inc /\ (HasMirror(db) => HasMirror(new))
          /\ HasMirror(db) /\ db.fts = db.inc => new.fts = new.inc
      BY <3>3, ImportedType, ImportedMirror
    <3>5. Commits(p, new)
      BY <3>1
    <3> HIDE DEF new
    <3> QED
      BY <3>2, <3>3, <3>4, <3>5, MirrorCommits DEF Working
  <2> QED
    BY <2>1, <2>2
<1>3. CASE Close(p) \/ Crash(p)
  <2>1. With(p, "closed", {}) /\ RollsBack(p)
    BY <1>3 DEF Close, Crash
  <2>2. pc'[p] = "closed" /\ OthersSame(p) /\ mirror' = mirror
    BY <2>1, Moved
  <2>3. Quiet(p) /\ tx'[p] = "none"
    BY <2>1 DEF RollsBack, Quiet, Safe, TypeOK
  <2> QED
    BY <2>2, <2>3, MirrorLeaves DEF Working
<1> QED
  BY <1>1, <1>2, <1>3

\* While a store that searches the mirror is open, the committed mirror has one
\* row, with the present text, for every incident, whatever pages, prunes,
\* deletions and the import interleave, after lock timeouts and crashes, as long
\* as no statement fails for another reason (incidents/store.py).
THEOREM MirrorExactCorrect == ASSUME NoTroubles PROVE Spec => []MirrorExact
<1>1. Init => MirrorInv
  <2> SUFFICES ASSUME Init PROVE MirrorInv
    OBVIOUS
  <2>1. Fresh.fts = {} /\ Mirrorless.fts = {}
    BY DEF Fresh, Mirrorless
  <2> QED
    BY <2>1 DEF Init, MirrorInv, MirrorOf, Working
<1>2. Safe /\ MirrorInv /\ [Next]_vars => MirrorInv'
  <2>1. Safe /\ MirrorInv /\ UNCHANGED vars => MirrorInv'
    BY DEF vars, MirrorInv, MirrorOf, HasMirror
  <2>2. ASSUME Safe, MirrorInv, NEW p \in Procs, Step(p) PROVE MirrorInv'
    BY <2>2, MirrorLadder, MirrorOpening, MirrorWork, MirrorDeletes, MirrorEnd DEF Step
  <2> QED
    BY <2>1, <2>2 DEF Next
<1>3. MirrorInv => MirrorExact
  BY DEF MirrorInv, MirrorOf, MirrorExact, Searching, Working, Procs
<1> QED
  BY <1>1, <1>2, <1>3, SafeCorrect, PTL DEF Spec

-----------------------------------------------------------------------------
(* The pattern store that triage keeps in state.db, for any number of calls  *)
(* in any number of processes: Triage, for every log, every cap and all that *)
(* is refused or dies.                                                       *)
CONSTANTS NoText, MaxLog, Before, After, CollapseAt, LineCap, CharCap, TailLines, TokenLimit,
          SampleLines, NoteWords, StopWords, Calls, Targets, Queries, Chunks, Categories,
          NoCategory, Retention, MaxRows, MaxCalls, MaxClock, MaxFaults

VARIABLES rows, index, call, query, unwritten, clock, learned, blind, started, mishaps

Tri == INSTANCE Triage WITH None <- NoText, faults <- mishaps

Given == Tri!TriageAssumption

\* The sizes Triage speaks of.
LEMMA SameSizes ==
    \A S : /\ Tri!Cardinality(S) = Cardinality(S)
           /\ Tri!IsFiniteSet(S) <=> IsFiniteSet(S)
  BY DEF Tri!Cardinality, Cardinality, Tri!IsFiniteSet, IsFiniteSet

\* The excess over the cap.
LEMMA ExcessOf ==
    ASSUME NEW from, Cardinality(DOMAIN from) \in Nat, Given
    PROVE  /\ Tri!Over(from) \in Nat
           /\ Cardinality(DOMAIN from) <= MaxRows + Tri!Over(from)
<1> DEFINE n == Cardinality(DOMAIN from) - MaxRows
<1>1. n \in Int
  BY SameSizes DEF Given, Tri!TriageAssumption
<1>2. \E x \in {0, n} : \A y \in {0, n} : x >= y
  BY <1>1
<1>3. /\ Tri!Max({0, n}) \in {0, n}
      /\ \A y \in {0, n} : Tri!Max({0, n}) >= y
  BY <1>2 DEF Tri!Max
<1>4. Tri!Over(from) = Tri!Max({0, n})
  BY SameSizes DEF Tri!Over
<1> HIDE DEF n
<1>5. Tri!Over(from) \in Nat /\ Tri!Over(from) >= n
  BY <1>1, <1>3, <1>4
<1> QED
  BY <1>5, SameSizes DEF n, Given, Tri!TriageAssumption

\* The least of two counts.
LEMMA LeastOf ==
    ASSUME NEW a \in Nat, NEW b \in Nat
    PROVE  Tri!Min({a, b}) \in Nat /\ Tri!Min({a, b}) = IF a <= b THEN a ELSE b
<1>1. \E x \in {a, b} : \A y \in {a, b} : x <= y
  OBVIOUS
<1>2. /\ Tri!Min({a, b}) \in {a, b}
      /\ \A y \in {a, b} : Tri!Min({a, b}) <= y
  BY <1>1 DEF Tri!Min
<1> QED
  BY <1>2

\* What is left of a finite set without some of its elements.
LEMMA LeftOver ==
    ASSUME NEW S, IsFiniteSet(S), NEW V \in SUBSET S
    PROVE  /\ IsFiniteSet(S \ V)
           /\ Cardinality(S \ V) = Cardinality(S) - Cardinality(V)
<1>1. IsFiniteSet(S \ V) /\ Cardinality(S \ V) = Cardinality(S) - Cardinality(S \cap V)
  BY FS_Difference
<1>2. S \cap V = V
  OBVIOUS
<1> QED
  BY <1>1, <1>2

\* A part of a finite set is no larger.
LEMMA PartOf ==
    ASSUME NEW S, IsFiniteSet(S), NEW P \in SUBSET S
    PROVE  /\ IsFiniteSet(P) /\ Cardinality(P) \in Nat /\ Cardinality(S) \in Nat
           /\ Cardinality(P) <= Cardinality(S)
  BY FS_Subset, FS_CardinalityType

\* One element less, or one more.
LEMMA OneLess ==
    ASSUME NEW S, IsFiniteSet(S), NEW x
    PROVE  /\ IsFiniteSet(S \ {x})
           /\ Cardinality(S \ {x}) \in Nat /\ Cardinality(S) \in Nat
           /\ x \in S => Cardinality(S) = Cardinality(S \ {x}) + 1
           /\ x \notin S => S \ {x} = S
<1>1. /\ IsFiniteSet(S \ {x})
      /\ Cardinality(S \ {x}) = IF x \in S THEN Cardinality(S) - 1 ELSE Cardinality(S)
  BY FS_RemoveElement
<1>2. Cardinality(S \ {x}) \in Nat /\ Cardinality(S) \in Nat
  BY <1>1, FS_CardinalityType
<1> QED
  BY <1>1, <1>2

LEMMA OneMore ==
    ASSUME NEW S, IsFiniteSet(S), NEW x
    PROVE  /\ IsFiniteSet(S \cup {x})
           /\ Cardinality(S \cup {x}) \in Nat /\ Cardinality(S) \in Nat
           /\ x \notin S => Cardinality(S \cup {x}) = Cardinality(S) + 1
           /\ Cardinality(S \cup {x}) <= Cardinality(S) + 1
<1>1. /\ IsFiniteSet(S \cup {x})
      /\ Cardinality(S \cup {x}) = IF x \in S THEN Cardinality(S) ELSE Cardinality(S) + 1
  BY FS_AddElement
<1>2. Cardinality(S \cup {x}) \in Nat /\ Cardinality(S) \in Nat
  BY <1>1, FS_CardinalityType
<1> QED
  BY <1>1, <1>2

-----------------------------------------------------------------------------
(* How many are left.                                                      *)

\* What a call leaves when it has pruned is a count, and no more than there is.
LEMMA LeftIsCount ==
    ASSUME Tri!Counters, NEW c \in Calls
    PROVE  /\ Cardinality(DOMAIN rows) \in Nat
           /\ Tri!Left(c) \in Int /\ Tri!Left(c) <= Cardinality(DOMAIN rows)
<1>1. call[c].overflow \in Nat /\ IsFiniteSet(DOMAIN rows)
  BY SameSizes DEF Tri!Counters
<1>2. /\ Cardinality(DOMAIN rows \ call[c].victims) \in Nat
      /\ Cardinality(DOMAIN rows) \in Nat
      /\ Cardinality(DOMAIN rows \ call[c].victims) <= Cardinality(DOMAIN rows)
  BY <1>1, PartOf
<1> QED
  BY <1>1, <1>2, SameSizes DEF Tri!Left

LEMMA LeftIsCountNext ==
    ASSUME Tri!Counters', NEW c \in Calls
    PROVE  /\ Cardinality(DOMAIN rows') \in Nat
           /\ Tri!Left(c)' \in Int /\ Tri!Left(c)' <= Cardinality(DOMAIN rows')
<1>1. call'[c].overflow \in Nat /\ IsFiniteSet(DOMAIN rows')
  BY SameSizes DEF Tri!Counters
<1>2. /\ Cardinality(DOMAIN rows' \ call'[c].victims) \in Nat
      /\ Cardinality(DOMAIN rows') \in Nat
      /\ Cardinality(DOMAIN rows' \ call'[c].victims) <= Cardinality(DOMAIN rows')
  BY <1>1, PartOf
<1> QED
  BY <1>1, <1>2, SameSizes DEF Tri!Left

\* It leaves no more when there are fewer, and one more when there is one more.
LEMMA LeftOfFewer ==
    ASSUME Tri!Counters, Tri!Counters', NEW c \in Calls, call'[c] = call[c],
           DOMAIN rows' \subseteq DOMAIN rows
    PROVE  Tri!Left(c)' <= Tri!Left(c)
<1>1. call[c].overflow \in Nat /\ IsFiniteSet(DOMAIN rows)
  BY SameSizes DEF Tri!Counters
<1>2. /\ Cardinality(DOMAIN rows') \in Nat /\ Cardinality(DOMAIN rows) \in Nat
      /\ Cardinality(DOMAIN rows') <= Cardinality(DOMAIN rows)
  BY <1>1, PartOf
<1> DEFINE V == call[c].victims
<1>3. DOMAIN rows' \ V \in SUBSET (DOMAIN rows \ V) /\ IsFiniteSet(DOMAIN rows \ V)
  BY <1>1, PartOf
<1>4. /\ Cardinality(DOMAIN rows' \ V) \in Nat /\ Cardinality(DOMAIN rows \ V) \in Nat
      /\ Cardinality(DOMAIN rows' \ V) <= Cardinality(DOMAIN rows \ V)
  BY <1>3, PartOf
<1> QED
  BY <1>1, <1>2, <1>4, SameSizes DEF Tri!Left

LEMMA LeftOfMore ==
    ASSUME Tri!Counters, Tri!Counters', NEW c \in Calls, call'[c] = call[c],
           NEW s, DOMAIN rows' = DOMAIN rows \cup {s}
    PROVE  Tri!Left(c)' <= Tri!Left(c) + 1
<1>1. call[c].overflow \in Nat /\ IsFiniteSet(DOMAIN rows)
  BY SameSizes DEF Tri!Counters
<1>2. /\ Cardinality(DOMAIN rows') \in Nat /\ Cardinality(DOMAIN rows) \in Nat
      /\ Cardinality(DOMAIN rows') <= Cardinality(DOMAIN rows) + 1
  BY <1>1, OneMore
<1> DEFINE V == call[c].victims
<1>3. IsFiniteSet(DOMAIN rows \ V)
  BY <1>1, PartOf
<1>4. /\ IsFiniteSet((DOMAIN rows \ V) \cup {s})
      /\ Cardinality((DOMAIN rows \ V) \cup {s}) \in Nat
      /\ Cardinality(DOMAIN rows \ V) \in Nat
      /\ Cardinality((DOMAIN rows \ V) \cup {s}) <= Cardinality(DOMAIN rows \ V) + 1
  BY <1>3, OneMore
<1>5. DOMAIN rows' \ V \in SUBSET ((DOMAIN rows \ V) \cup {s})
  OBVIOUS
<1>6. /\ Cardinality(DOMAIN rows' \ V) \in Nat
      /\ Cardinality(DOMAIN rows' \ V) <= Cardinality((DOMAIN rows \ V) \cup {s})
  BY <1>4, <1>5, PartOf
<1> QED
  BY <1>1, <1>2, <1>4, <1>6, SameSizes DEF Tri!Left

\* Any set of calls is finite.
LEMMA CallsFinite ==
    ASSUME Given, NEW S \in SUBSET Calls
    PROVE  IsFiniteSet(S) /\ Cardinality(S) \in Nat
  BY PartOf, SameSizes DEF Given, Tri!TriageAssumption

CapInv == Tri!Capped /\ \E after \in [Calls -> SUBSET Calls] : Tri!CountedBefore(after)

\* A step that leaves the rows, the faults and what is to come as they are, and
\* in which no call comes to its count.
LEMMA CalmStep ==
    ASSUME CapInv, Tri!Counters, Tri!Counters',
           DOMAIN rows' = DOMAIN rows, mishaps' = mishaps, Tri!Pending' = Tri!Pending,
           Tri!Counted' \subseteq Tri!Counted, \A d \in Tri!Counted' : call'[d] = call[d]
    PROVE  CapInv'
<1>1. Tri!Capped'
  BY SameSizes DEF CapInv, Tri!Capped
<1>2. PICK after \in [Calls -> SUBSET Calls] : Tri!CountedBefore(after)
  BY DEF CapInv
<1>3. ASSUME NEW c \in Tri!Counted'
      PROVE  /\ after[c] \subseteq Tri!Pending' \ {c}
             /\ \A d \in after[c] \cap Tri!Counted' : after[d] \subseteq after[c]
             /\ Tri!Left(c)' <= MaxRows + mishaps' + Cardinality(after[c])
  <2>1. c \in Tri!Counted /\ c \in Calls
    BY <1>3 DEF Tri!Counted
  <2>2. Tri!Left(c)' = Tri!Left(c)
    BY <1>3, SameSizes DEF Tri!Left
  <2> QED
    BY <1>2, <2>1, <2>2, SameSizes DEF Tri!CountedBefore
<1>4. Tri!CountedBefore(after)'
  BY <1>3, SameSizes DEF Tri!CountedBefore
<1> QED
  BY <1>1, <1>4 DEF CapInv

\* A call makes its record.
LEMMA RecordStep ==
    ASSUME CapInv, Tri!Counters, Tri!Counters', Given,
           NEW s, DOMAIN rows' = DOMAIN rows \cup {s}, mishaps' = mishaps,
           NEW p \in Calls \ Tri!Pending, Tri!Pending' = Tri!Pending \cup {p},
           Tri!Counted' \subseteq Tri!Counted, \A d \in Tri!Counted' : call'[d] = call[d]
    PROVE  CapInv'
<1>1. mishaps \in Nat /\ MaxRows \in Nat /\ IsFiniteSet(DOMAIN rows)
  BY SameSizes DEF Tri!Counters, Given, Tri!TriageAssumption
<1>2. /\ Cardinality(DOMAIN rows') \in Nat /\ Cardinality(DOMAIN rows) \in Nat
      /\ Cardinality(DOMAIN rows') <= Cardinality(DOMAIN rows) + 1
  BY <1>1, OneMore
<1>3. Tri!Pending \in SUBSET Calls
  BY DEF Tri!Pending
<1>4. /\ Cardinality(Tri!Pending') = Cardinality(Tri!Pending) + 1
      /\ Cardinality(Tri!Pending) \in Nat
  BY <1>3, CallsFinite, OneMore
<1>5. Tri!Capped'
  BY <1>1, <1>2, <1>4, SameSizes DEF CapInv, Tri!Capped
<1>6. PICK after \in [Calls -> SUBSET Calls] : Tri!CountedBefore(after)
  BY DEF CapInv
<1> DEFINE then == [c \in Calls |-> after[c] \cup {p}]
<1>7. ASSUME NEW c \in Tri!Counted'
      PROVE  /\ then[c] \subseteq Tri!Pending' \ {c}
             /\ \A d \in then[c] \cap Tri!Counted' : then[d] \subseteq then[c]
             /\ Tri!Left(c)' <= MaxRows + mishaps' + Cardinality(then[c])
  <2>1. c \in Tri!Counted /\ c \in Calls /\ c \in Tri!Pending
    BY <1>7 DEF Tri!Counted, Tri!Pending
  <2>2. /\ after[c] \subseteq Tri!Pending \ {c}
        /\ \A d \in after[c] \cap Tri!Counted : after[d] \subseteq after[c]
        /\ Tri!Left(c) <= MaxRows + mishaps + Cardinality(after[c])
    BY <1>6, <2>1, SameSizes DEF Tri!CountedBefore
  <2>3. p \notin Tri!Counted
    BY DEF Tri!Counted, Tri!Pending
  <2>4. /\ Cardinality(after[c] \cup {p}) = Cardinality(after[c]) + 1
        /\ Cardinality(after[c]) \in Nat
    BY <2>1, <2>2, CallsFinite, OneMore
  <2>5. Tri!Left(c)' <= Tri!Left(c) + 1
    BY <1>7, <2>1, LeftOfMore
  <2>6. Tri!Left(c) \in Int /\ Tri!Left(c)' \in Int
    BY <2>1, LeftIsCount, LeftIsCountNext
  <2>7. Tri!Left(c)' <= MaxRows + mishaps' + Cardinality(then[c])
    BY <1>1, <2>1, <2>2, <2>4, <2>5, <2>6
  <2>8. then[c] \subseteq Tri!Pending' \ {c}
    BY <2>1, <2>2
  <2>9. ASSUME NEW d \in then[c] \cap Tri!Counted' PROVE then[d] \subseteq then[c]
    <3>1. d \in after[c] \cap Tri!Counted /\ d \in Calls
      BY <2>1, <2>3, <2>9 DEF Tri!Counted
    <3> QED
      BY <2>1, <2>2, <3>1
  <2> QED
    BY <2>7, <2>8, <2>9
<1>8. then \in [Calls -> SUBSET Calls]
  OBVIOUS
<1> HIDE DEF then
<1>9. Tri!CountedBefore(then)'
  BY <1>7, SameSizes DEF Tri!CountedBefore
<1> QED
  BY <1>5, <1>8, <1>9 DEF CapInv

\* A call has done with its record: it was refused or died, or what it leaves is
\* within the cap for each call that has counted before.
LEMMA DoneStep ==
    ASSUME CapInv, Tri!Counters, Tri!Counters', Given, Tri!Capped',
           NEW after \in [Calls -> SUBSET Calls], Tri!CountedBefore(after),
           DOMAIN rows' \subseteq DOMAIN rows, mishaps' \in {mishaps, mishaps + 1},
           NEW p \in Calls, Tri!Pending' = Tri!Pending \ {p},
           Tri!Counted' \subseteq Tri!Counted \ {p}, \A d \in Tri!Counted' : call'[d] = call[d],
           \A c \in Tri!Counted' : p \in after[c] =>
               \/ mishaps' = mishaps + 1
               \/ Cardinality(DOMAIN rows')
                     <= MaxRows + mishaps' + Cardinality(after[c] \ {p})
    PROVE  CapInv'
<1>1. mishaps \in Nat /\ MaxRows \in Nat /\ IsFiniteSet(DOMAIN rows)
  BY SameSizes DEF Tri!Counters, Given, Tri!TriageAssumption
<1> DEFINE then == [c \in Calls |-> after[c] \ {p}]
<1>2. ASSUME NEW c \in Tri!Counted'
      PROVE  /\ then[c] \subseteq Tri!Pending' \ {c}
             /\ \A d \in then[c] \cap Tri!Counted' : then[d] \subseteq then[c]
             /\ Tri!Left(c)' <= MaxRows + mishaps' + Cardinality(then[c])
  <2>1. c \in Tri!Counted /\ c \in Calls
    BY <1>2 DEF Tri!Counted
  <2>2. /\ after[c] \subseteq Tri!Pending \ {c}
        /\ \A d \in after[c] \cap Tri!Counted : after[d] \subseteq after[c]
        /\ Tri!Left(c) <= MaxRows + mishaps + Cardinality(after[c])
    BY <2>1, SameSizes DEF Tri!CountedBefore
  <2>3. /\ Cardinality(after[c] \ {p}) \in Nat /\ Cardinality(after[c]) \in Nat
        /\ p \in after[c] => Cardinality(after[c]) = Cardinality(after[c] \ {p}) + 1
        /\ p \notin after[c] => after[c] \ {p} = after[c]
    BY <2>1, CallsFinite, OneLess
  <2>4. Tri!Left(c)' <= Tri!Left(c) /\ Tri!Left(c) \in Int /\ Tri!Left(c)' \in Int
    BY <1>2, <2>1, LeftOfFewer, LeftIsCount, LeftIsCountNext
  <2>5. Tri!Left(c)' <= Cardinality(DOMAIN rows') /\ Cardinality(DOMAIN rows') \in Nat
    BY <2>1, LeftIsCountNext
  <2>6. Tri!Left(c)' <= MaxRows + mishaps' + Cardinality(after[c] \ {p})
    <3>1. CASE p \notin after[c]
      <4>1. Cardinality(after[c] \ {p}) = Cardinality(after[c])
        BY <2>3, <3>1
      <4>2. mishaps' >= mishaps /\ mishaps' \in Nat
        BY <1>1
      <4> QED
        BY <1>1, <2>2, <2>3, <2>4, <4>1, <4>2
    <3>2. CASE p \in after[c] /\ mishaps' = mishaps + 1
      BY <1>1, <2>2, <2>3, <2>4, <3>2
    <3>3. CASE p \in after[c] /\ mishaps' # mishaps + 1
      <4>1. Cardinality(DOMAIN rows') <= MaxRows + mishaps' + Cardinality(after[c] \ {p})
        BY <1>2, <3>3
      <4> QED
        BY <1>1, <2>3, <2>4, <2>5, <4>1
    <3> QED
      BY <3>1, <3>2, <3>3
  <2>7. ASSUME NEW d \in then[c] \cap Tri!Counted' PROVE then[d] \subseteq then[c]
    <3>1. d \in after[c] \cap Tri!Counted /\ d \in Calls
      BY <2>1, <2>7 DEF Tri!Counted
    <3> QED
      BY <2>1, <2>2, <3>1
  <2> QED
    BY <2>1, <2>2, <2>6, <2>7
<1>3. then \in [Calls -> SUBSET Calls]
  OBVIOUS
<1> HIDE DEF then
<1>4. Tri!CountedBefore(then)'
  BY <1>2, SameSizes DEF Tri!CountedBefore
<1> QED
  BY <1>3, <1>4 DEF CapInv

\* A call has counted: there is no more than what the cap allows and its excess.
LEMMA CountStep ==
    ASSUME CapInv, Tri!Counters, Tri!Counters', Given,
           DOMAIN rows' = DOMAIN rows, mishaps' = mishaps, Tri!Pending' = Tri!Pending,
           NEW p \in Tri!Pending \ Tri!Counted, Tri!Counted' = Tri!Counted \cup {p},
           \A d \in Tri!Counted : call'[d] = call[d],
           call'[p].pc = "choose",
           Cardinality(DOMAIN rows) <= MaxRows + call'[p].overflow
    PROVE  CapInv'
<1>1. Tri!Capped'
  BY SameSizes DEF CapInv, Tri!Capped
<1>2. PICK after \in [Calls -> SUBSET Calls] : Tri!CountedBefore(after)
  BY DEF CapInv
<1> DEFINE then == [c \in Calls |-> IF c = p THEN {} ELSE after[c]]
<1>3. mishaps \in Nat /\ MaxRows \in Nat /\ p \in Calls
  BY SameSizes DEF Tri!Counters, Given, Tri!TriageAssumption, Tri!Pending
<1>4. ASSUME NEW c \in Tri!Counted'
      PROVE  /\ then[c] \subseteq Tri!Pending' \ {c}
             /\ \A d \in then[c] \cap Tri!Counted' : then[d] \subseteq then[c]
             /\ Tri!Left(c)' <= MaxRows + mishaps' + Cardinality(then[c])
  <2>1. CASE c = p
    <3>1. then[c] = {}
      BY <1>3, <2>1
    <3>2. Tri!Left(c)' = Cardinality(DOMAIN rows) - call'[p].overflow
      BY <2>1, SameSizes DEF Tri!Left
    <3>3. Cardinality(DOMAIN rows) \in Nat /\ call'[p].overflow \in Nat
      BY <1>3, LeftIsCount, SameSizes DEF Tri!Counters
    <3>4. Cardinality(then[c]) = 0
      BY <3>1, FS_EmptySet
    <3> QED
      BY <1>3, <3>1, <3>2, <3>3, <3>4
  <2>2. CASE c # p
    <3>1. c \in Tri!Counted /\ c \in Calls
      BY <2>2 DEF Tri!Counted
    <3>2. Tri!Left(c)' = Tri!Left(c)
      BY <3>1, SameSizes DEF Tri!Left
    <3>3. then[c] = after[c] /\ \A d \in Calls : then[d] \subseteq after[d]
      BY <2>2, <3>1
    <3>4. ASSUME NEW d \in then[c] \cap Tri!Counted' PROVE then[d] \subseteq then[c]
      <4>1. d \in after[c] /\ d \in Calls
        BY <3>1, <3>3, <3>4
      <4>2. CASE d = p
        BY <4>1, <4>2
      <4>3. CASE d # p
        BY <1>2, <3>1, <3>3, <3>4, <4>1, <4>3, SameSizes DEF Tri!CountedBefore
      <4> QED
        BY <4>2, <4>3
    <3> HIDE DEF then
    <3> QED
      BY <1>2, <3>1, <3>2, <3>3, <3>4, SameSizes DEF Tri!CountedBefore
  <2> QED
    BY <2>1, <2>2
<1>5. then \in [Calls -> SUBSET Calls]
  OBVIOUS
<1> HIDE DEF then
<1>6. Tri!CountedBefore(then)'
  BY <1>4, SameSizes DEF Tri!CountedBefore
<1> QED
  BY <1>1, <1>5, <1>6 DEF CapInv

\* A call has chosen what goes: it leaves what it counted, if there is so much.
LEMMA ChooseStep ==
    ASSUME CapInv, Tri!Counters, Tri!Counters', Given,
           DOMAIN rows' = DOMAIN rows, mishaps' = mishaps, Tri!Pending' = Tri!Pending,
           NEW p \in Tri!Counted, Tri!Counted' = Tri!Counted,
           \A d \in Tri!Counted \ {p} : call'[d] = call[d],
           call[p].pc = "choose", call'[p].pc = "evict",
           NEW V \in SUBSET DOMAIN rows, call'[p].victims = V,
           Cardinality(V) = Tri!Min({call[p].overflow, Cardinality(DOMAIN rows)})
    PROVE  CapInv'
<1>1. Tri!Capped'
  BY SameSizes DEF CapInv, Tri!Capped
<1>2. PICK after \in [Calls -> SUBSET Calls] : Tri!CountedBefore(after)
  BY DEF CapInv
<1>3. mishaps \in Nat /\ MaxRows \in Nat /\ p \in Calls /\ IsFiniteSet(DOMAIN rows)
  BY SameSizes DEF Tri!Counters, Given, Tri!TriageAssumption, Tri!Counted
<1>4. Cardinality(DOMAIN rows) \in Nat /\ call[p].overflow \in Nat
  BY <1>3, LeftIsCount, SameSizes DEF Tri!Counters
<1>5. Cardinality(DOMAIN rows \ V) = Cardinality(DOMAIN rows) - Cardinality(V)
  BY <1>3, LeftOver
<1>6. Cardinality(V) = IF call[p].overflow <= Cardinality(DOMAIN rows)
                       THEN call[p].overflow ELSE Cardinality(DOMAIN rows)
  BY <1>4, LeastOf
<1>7. Tri!Left(p)' = Cardinality(DOMAIN rows \ V)
  BY SameSizes DEF Tri!Left
<1>8. Tri!Left(p) = Cardinality(DOMAIN rows) - call[p].overflow
  BY SameSizes DEF Tri!Left
<1>9. Tri!Left(p)' <= Tri!Left(p) \/ Tri!Left(p)' = 0
  <2>1. CASE call[p].overflow <= Cardinality(DOMAIN rows)
    <3>1. Cardinality(V) = call[p].overflow
      BY <1>6, <2>1
    <3>2. Tri!Left(p)' = Tri!Left(p)
      BY <1>5, <1>7, <1>8, <3>1
    <3>3. Tri!Left(p) \in Int
      BY <1>4, <1>8
    <3> QED
      BY <3>2, <3>3
  <2>2. CASE ~(call[p].overflow <= Cardinality(DOMAIN rows))
    <3>1. Cardinality(V) = Cardinality(DOMAIN rows)
      BY <1>6, <2>2
    <3>2. Tri!Left(p)' = Cardinality(DOMAIN rows) - Cardinality(DOMAIN rows)
      BY <1>5, <1>7, <3>1
    <3> QED
      BY <1>4, <3>2
  <2> QED
    BY <2>1, <2>2
<1>10. Tri!Left(p)' \in Int /\ Tri!Left(p) \in Int
  BY <1>3, LeftIsCount, LeftIsCountNext
<1>11. ASSUME NEW c \in Tri!Counted'
      PROVE  /\ after[c] \subseteq Tri!Pending' \ {c}
             /\ \A d \in after[c] \cap Tri!Counted' : after[d] \subseteq after[c]
             /\ Tri!Left(c)' <= MaxRows + mishaps' + Cardinality(after[c])
  <2>1. c \in Tri!Counted /\ c \in Calls
    BY <1>11 DEF Tri!Counted
  <2>2. /\ after[c] \subseteq Tri!Pending \ {c}
        /\ \A d \in after[c] \cap Tri!Counted : after[d] \subseteq after[c]
        /\ Tri!Left(c) <= MaxRows + mishaps + Cardinality(after[c])
    BY <1>2, <2>1, SameSizes DEF Tri!CountedBefore
  <2>3. Cardinality(after[c]) \in Nat
    BY <2>1, CallsFinite
  <2>4. Tri!Left(c)' <= MaxRows + mishaps' + Cardinality(after[c])
    <3>1. CASE c = p
      BY <1>3, <1>9, <1>10, <2>2, <2>3, <3>1
    <3>2. CASE c # p
      <4>1. Tri!Left(c)' = Tri!Left(c)
        BY <2>1, <3>2, SameSizes DEF Tri!Left
      <4> QED
        BY <2>2, <4>1
    <3> QED
      BY <3>1, <3>2
  <2> QED
    BY <2>2, <2>4
<1>12. Tri!CountedBefore(after)'
  BY <1>11, SameSizes DEF Tri!CountedBefore
<1> QED
  BY <1>1, <1>12 DEF CapInv

\* A call evicts what it chose.
LEMMA EvictStep ==
    ASSUME CapInv, Tri!Counters, Tri!Counters', Given,
           NEW p \in Tri!Counted, call[p].pc = "evict",
           DOMAIN rows' = DOMAIN rows \ call[p].victims, mishaps' = mishaps,
           Tri!Pending' = Tri!Pending \ {p}, Tri!Counted' = Tri!Counted \ {p},
           \A d \in Tri!Counted' : call'[d] = call[d]
    PROVE  CapInv'
<1>1. PICK after \in [Calls -> SUBSET Calls] : Tri!CountedBefore(after)
  BY DEF CapInv
<1>2. mishaps \in Nat /\ MaxRows \in Nat /\ p \in Calls
  BY SameSizes DEF Tri!Counters, Given, Tri!TriageAssumption, Tri!Counted
<1>3. /\ after[p] \subseteq Tri!Pending \ {p}
      /\ Tri!Left(p) <= MaxRows + mishaps + Cardinality(after[p])
  BY <1>1, SameSizes DEF Tri!CountedBefore
<1>4. Tri!Left(p) = Cardinality(DOMAIN rows')
  BY SameSizes DEF Tri!Left
<1>5. Tri!Left(p) \in Int /\ Tri!Pending \ {p} \in SUBSET Calls
  BY <1>2, LeftIsCount DEF Tri!Pending
<1>6. ASSUME NEW S \in SUBSET Calls, after[p] \subseteq S
      PROVE  Cardinality(DOMAIN rows') <= MaxRows + mishaps' + Cardinality(S)
  <2>1. IsFiniteSet(S)
    BY CallsFinite
  <2>2. /\ Cardinality(after[p]) \in Nat /\ Cardinality(S) \in Nat
        /\ Cardinality(after[p]) <= Cardinality(S)
    BY <1>6, <2>1, PartOf
  <2> QED
    BY <1>2, <1>3, <1>4, <1>5, <2>2
<1>7. Tri!Capped'
  <2>1. Cardinality(DOMAIN rows') <= MaxRows + mishaps' + Cardinality(Tri!Pending \ {p})
    BY <1>3, <1>5, <1>6
  <2> QED
    BY <2>1, SameSizes DEF Tri!Capped
<1>8. ASSUME NEW c \in Tri!Counted', p \in after[c]
      PROVE  Cardinality(DOMAIN rows') <= MaxRows + mishaps' + Cardinality(after[c] \ {p})
  <2>1. c \in Tri!Counted /\ c \in Calls
    BY <1>8 DEF Tri!Counted
  <2>2. after[p] \subseteq after[c] \ {p}
    BY <1>1, <1>3, <1>8, <2>1, SameSizes DEF Tri!CountedBefore
  <2>3. after[c] \ {p} \in SUBSET Calls
    BY <2>1
  <2> QED
    BY <1>6, <2>2, <2>3
<1> QED
  BY <1>1, <1>2, <1>7, <1>8, DoneStep

-----------------------------------------------------------------------------
(* The steps of a call.                                                    *)

PrunePlaces == {"age", "expire", "count", "choose", "evict"}

\* A record of a call: it has the fields of Idle.
IsCall(r) == DOMAIN r = DOMAIN Tri!Idle /\ r.overflow \in Nat

\* Where the calls are after one of them moved.
LEMMA OneMoves ==
    ASSUME Tri!Counters, NEW c \in Calls, NEW next, Tri!Step(c, next), IsCall(next)
    PROVE  /\ DOMAIN call' = Calls /\ call'[c] = next
           /\ \A d \in Calls \ {c} : call'[d] = call[d]
           /\ \A d \in Calls : IsCall(call'[d])
           /\ Tri!Pending' = IF next.pc \in PrunePlaces THEN Tri!Pending \cup {c}
                         ELSE Tri!Pending \ {c}
           /\ Tri!Counted' = IF next.pc \in {"choose", "evict"} THEN Tri!Counted \cup {c}
                         ELSE Tri!Counted \ {c}
<1>1. DOMAIN call' = Calls /\ call'[c] = next
  BY SameSizes DEF Tri!Counters, Tri!Step
<1>2. \A d \in Calls \ {c} : call'[d] = call[d]
  BY SameSizes DEF Tri!Counters, Tri!Step
<1>3. \A d \in Calls : IsCall(call'[d])
  BY <1>1, <1>2, SameSizes DEF Tri!Counters, IsCall
<1>4. Tri!Pending' = IF next.pc \in PrunePlaces THEN Tri!Pending \cup {c}
                 ELSE Tri!Pending \ {c}
  BY <1>1, <1>2 DEF Tri!Pending, PrunePlaces
<1>5. Tri!Counted' = IF next.pc \in {"choose", "evict"} THEN Tri!Counted \cup {c}
                 ELSE Tri!Counted \ {c}
  BY <1>1, <1>2 DEF Tri!Counted
<1> QED
  BY <1>1, <1>2, <1>3, <1>4, <1>5

\* What a step leaves alone when the store stays as it is.
LEMMA StoreStays ==
    ASSUME Tri!StoreInv, UNCHANGED Tri!store, mishaps' \in {mishaps, mishaps + 1},
           DOMAIN call' = Calls, \A d \in Calls : IsCall(call'[d])
    PROVE  Tri!Counters' /\ Tri!CountsUses' /\ Tri!MirrorFollows'
<1>1. Tri!Counters'
  BY SameSizes DEF Tri!StoreInv, Tri!Counters, Tri!store, IsCall
<1>2. Tri!CountsUses'
  BY SameSizes DEF Tri!StoreInv, Tri!CountsUses, Tri!store
<1>3. Tri!MirrorFollows'
  BY SameSizes DEF Tri!StoreInv, Tri!StoreInOrder, Tri!MirrorFollows, Tri!store
<1> QED
  BY <1>1, <1>2, <1>3

\* The invariant is what is said of rows and index, and of the cap.
LEMMA StoreParts ==
    /\ Tri!StoreInv <=> Tri!Counters /\ Tri!CountsUses /\ Tri!MirrorFollows /\ CapInv
    /\ Tri!StoreInv' <=> Tri!Counters' /\ Tri!CountsUses' /\ Tri!MirrorFollows' /\ CapInv'
<1>1. Tri!StoreInv <=> Tri!Counters /\ Tri!CountsUses /\ Tri!MirrorFollows /\ CapInv
  BY SameSizes DEF Tri!StoreInv, Tri!StoreInOrder, CapInv
<1>2. Tri!StoreInv' <=> Tri!Counters' /\ Tri!CountsUses' /\ Tri!MirrorFollows' /\ CapInv'
  BY SameSizes DEF Tri!StoreInv, Tri!StoreInOrder, CapInv
<1> QED
  BY <1>1, <1>2

\* A call moves within its prune or outside it, and does not count.
LEMMA QuietMove ==
    ASSUME Tri!StoreInv, Given, NEW c \in Calls, NEW next, Tri!Step(c, next), IsCall(next),
           Tri!Counters', Tri!CountsUses', Tri!MirrorFollows',
           DOMAIN rows' = DOMAIN rows, mishaps' = mishaps,
           next.pc \notin {"choose", "evict"},
           next.pc \in PrunePlaces <=> call[c].pc \in PrunePlaces
    PROVE  Tri!StoreInv'
<1>1. Tri!Counters /\ CapInv
  BY StoreParts
<1>2. /\ Tri!Pending' = Tri!Pending /\ Tri!Counted' \subseteq Tri!Counted
      /\ \A d \in Tri!Counted' : call'[d] = call[d]
  BY <1>1, OneMoves DEF Tri!Pending, Tri!Counted, PrunePlaces
<1>3. CapInv'
  BY <1>1, <1>2, CalmStep
<1> QED
  BY <1>3, StoreParts

\* A call is refused or dies.
LEMMA FaultMove ==
    ASSUME Tri!StoreInv, Given, NEW c \in Calls, NEW next, Tri!Step(c, next), IsCall(next),
           UNCHANGED Tri!store, mishaps' = mishaps + 1, next.pc \notin PrunePlaces
    PROVE  Tri!StoreInv'
<1>1. Tri!Counters /\ CapInv
  BY StoreParts
<1>2. /\ DOMAIN call' = Calls /\ call'[c] = next
      /\ \A d \in Calls \ {c} : call'[d] = call[d]
      /\ \A d \in Calls : IsCall(call'[d])
      /\ Tri!Pending' = Tri!Pending \ {c} /\ Tri!Counted' = Tri!Counted \ {c}
  BY <1>1, OneMoves DEF PrunePlaces
<1>3. Tri!Counters' /\ Tri!CountsUses' /\ Tri!MirrorFollows'
  BY <1>2, StoreStays
<1>4. Tri!Capped'
  <2>1. Cardinality(Tri!Pending) = Cardinality(Tri!Pending \ {c}) + 1
        \/ Cardinality(Tri!Pending) = Cardinality(Tri!Pending \ {c})
    BY CallsFinite, OneLess DEF Tri!Pending
  <2>2. Cardinality(Tri!Pending \ {c}) \in Nat /\ Cardinality(Tri!Pending) \in Nat
    BY CallsFinite DEF Tri!Pending
  <2>3. mishaps \in Nat /\ MaxRows \in Nat /\ Cardinality(DOMAIN rows) \in Nat
    BY <1>1, LeftIsCount, SameSizes DEF Tri!Counters, Given, Tri!TriageAssumption
  <2>4. Cardinality(DOMAIN rows) <= MaxRows + mishaps + Cardinality(Tri!Pending)
    BY <1>1, SameSizes DEF CapInv, Tri!Capped
  <2>5. Cardinality(DOMAIN rows) <= MaxRows + (mishaps + 1) + Cardinality(Tri!Pending \ {c})
    BY <2>1, <2>2, <2>3, <2>4
  <2> QED
    BY <1>2, <2>5, SameSizes DEF Tri!Capped, Tri!store
<1>5. PICK after \in [Calls -> SUBSET Calls] : Tri!CountedBefore(after)
  BY <1>1 DEF CapInv
<1>6. \A d \in Tri!Counted' : call'[d] = call[d]
  BY <1>2 DEF Tri!Counted
<1>7. DOMAIN rows' \subseteq DOMAIN rows
  BY DEF Tri!store
<1>8. CapInv'
  BY <1>1, <1>2, <1>3, <1>4, <1>5, <1>6, <1>7, DoneStep
<1> QED
  BY <1>3, <1>8, StoreParts

\* A call is done, and the rows are within the cap.
LEMMA WithinMove ==
    ASSUME Tri!StoreInv, Given, NEW c \in Calls, NEW next, Tri!Step(c, next), IsCall(next),
           Tri!Counters', Tri!CountsUses', Tri!MirrorFollows',
           DOMAIN rows' \subseteq DOMAIN rows, mishaps' = mishaps, next.pc \notin PrunePlaces,
           Cardinality(DOMAIN rows') <= MaxRows
    PROVE  Tri!StoreInv'
<1>1. Tri!Counters /\ CapInv
  BY StoreParts
<1>2. /\ \A d \in Calls \ {c} : call'[d] = call[d]
      /\ Tri!Pending' = Tri!Pending \ {c} /\ Tri!Counted' = Tri!Counted \ {c}
  BY <1>1, OneMoves DEF PrunePlaces
<1>3. mishaps \in Nat /\ MaxRows \in Nat
  BY <1>1, SameSizes DEF Tri!Counters, Given, Tri!TriageAssumption
<1>4. Cardinality(DOMAIN rows') \in Nat
  BY LeftIsCountNext
<1>5. ASSUME NEW S \in SUBSET Calls
      PROVE  Cardinality(DOMAIN rows') <= MaxRows + mishaps' + Cardinality(S)
  <2>1. Cardinality(S) \in Nat
    BY CallsFinite
  <2> QED
    BY <1>3, <1>4, <2>1
<1>6. Tri!Capped'
  <2>1. Tri!Pending' \in SUBSET Calls
    BY DEF Tri!Pending
  <2> QED
    BY <1>5, <2>1, SameSizes DEF Tri!Capped
<1>7. PICK after \in [Calls -> SUBSET Calls] : Tri!CountedBefore(after)
  BY <1>1 DEF CapInv
<1>8. /\ \A d \in Tri!Counted' : call'[d] = call[d] /\ d \in Calls
      /\ mishaps' \in {mishaps, mishaps + 1} /\ Tri!Counted' \subseteq Tri!Counted \ {c}
  BY <1>2 DEF Tri!Counted
<1>9. \A d \in Tri!Counted' :
        Cardinality(DOMAIN rows') <= MaxRows + mishaps' + Cardinality(after[d] \ {c})
  <2>1. \A d \in Calls : after[d] \ {c} \in SUBSET Calls
    OBVIOUS
  <2> QED
    BY <1>5, <1>8, <2>1
<1>10. CapInv'
  BY <1>1, <1>2, <1>6, <1>7, <1>8, <1>9, DoneStep
<1> QED
  BY <1>10, StoreParts

\* The record an idle call is.
LEMMA IdleCall == IsCall(Tri!Idle) /\ Tri!Idle.pc = "idle" /\ Tri!Idle.pc \notin PrunePlaces
  BY DEF IsCall, Tri!Idle, PrunePlaces

\* A call with another place, and whatever else it has learnt.
LEMMA Placed ==
    ASSUME NEW r, IsCall(r), NEW place
    PROVE  /\ IsCall([r EXCEPT !.pc = place])
           /\ [r EXCEPT !.pc = place].pc = place
           /\ [r EXCEPT !.pc = place].overflow = r.overflow
           /\ [r EXCEPT !.pc = place].fts = r.fts
<1>1. "pc" \in DOMAIN r /\ "overflow" \in DOMAIN r /\ "fts" \in DOMAIN r
  BY DEF IsCall, Tri!Idle
<1> QED
  BY <1>1 DEF IsCall

\* Before the store: the log.
LEMMA FetchQuiet ==
    ASSUME Tri!StoreInv, Given, NEW c \in Calls,
           Tri!Fetch(c) \/ Tri!Lookup(c) \/ Tri!Classify(c) \/ \E t \in Targets : Tri!Start(c, t)
    PROVE  Tri!StoreInv'
<1>1. Tri!Counters /\ IsCall(call[c]) /\ \A d \in Calls : IsCall(call[d])
  BY SameSizes DEF Tri!StoreInv, Tri!Counters, IsCall
<1>2. UNCHANGED Tri!store /\ mishaps' = mishaps
  BY DEF Tri!Fetch, Tri!Stat, Tri!ReadLocal, Tri!FetchRemote, Tri!Lookup, Tri!Classify,
     Tri!Start
<1>3. ASSUME NEW next, Tri!Step(c, next), IsCall(next), call[c].pc \notin PrunePlaces,
             next.pc \notin PrunePlaces
      PROVE  Tri!StoreInv'
  <2>1. /\ DOMAIN call' = Calls
        /\ \A d \in Calls : IsCall(call'[d])
    BY <1>1, <1>3, OneMoves
  <2>2. Tri!Counters' /\ Tri!CountsUses' /\ Tri!MirrorFollows'
    BY <1>2, <2>1, StoreStays
  <2>3. DOMAIN rows' = DOMAIN rows /\ next.pc \notin {"choose", "evict"}
    BY <1>2, <1>3 DEF Tri!store, PrunePlaces
  <2> QED
    BY <1>2, <1>3, <2>2, <2>3, QuietMove
<1>4. CASE Tri!Stat(c)
  <2> DEFINE next == IF Len(Tri!Written(c)) > MaxLog THEN Tri!Idle
                     ELSE [call[c] EXCEPT !.pc = "read"]
  <2>1. IsCall(next) /\ next.pc \in {"idle", "read"}
    BY <1>1, IdleCall, Placed
  <2>2. Tri!Step(c, next) /\ call[c].pc = "stat"
    BY <1>4 DEF Tri!Stat
  <2> HIDE DEF next
  <2> QED
    BY <1>3, <2>1, <2>2 DEF PrunePlaces
<1>5. CASE Tri!ReadLocal(c)
  <2> DEFINE next == [call[c] EXCEPT !.pc = "open",
                  !.raw = SubSeq(Tri!Written(c), 1, Tri!Min({MaxLog, Len(Tri!Written(c))}))]
  <2>1. IsCall(next) /\ next.pc = "open"
    BY <1>1 DEF IsCall, Tri!Idle
  <2>2. Tri!Step(c, next) /\ call[c].pc = "read"
    BY <1>5 DEF Tri!ReadLocal
  <2> HIDE DEF next
  <2> QED
    BY <1>3, <2>1, <2>2 DEF PrunePlaces
<1>6. CASE Tri!FetchRemote(c)
  <2>1. PICK n \in Chunks :
           Tri!Step(c, [call[c] EXCEPT !.pc = "open",
                      !.raw = Tri!ReadCapped(call[c].target.body, n).text,
                      !.truncated = Tri!ReadCapped(call[c].target.body, n).truncated])
    BY <1>6 DEF Tri!FetchRemote
  <2> DEFINE next == [call[c] EXCEPT !.pc = "open",
                      !.raw = Tri!ReadCapped(call[c].target.body, n).text,
                      !.truncated = Tri!ReadCapped(call[c].target.body, n).truncated]
  <2>2. IsCall(next) /\ next.pc = "open"
    BY <1>1 DEF IsCall, Tri!Idle
  <2>3. Tri!Step(c, next) /\ call[c].pc = "fetch"
    BY <1>6, <2>1 DEF Tri!FetchRemote
  <2> HIDE DEF next
  <2> QED
    BY <1>3, <2>2, <2>3 DEF PrunePlaces
<1>7. CASE Tri!Lookup(c)
  <2>1. PICK s : Tri!Step(c, [call[c] EXCEPT
                             !.pc = "classify", !.fuzzy = s # NoText /\ s # Tri!Sig(c),
                             !.prior = IF s = NoText THEN NoText ELSE rows[s]])
    BY <1>7 DEF Tri!Lookup
  <2> DEFINE next == [call[c] EXCEPT
                        !.pc = "classify", !.fuzzy = s # NoText /\ s # Tri!Sig(c),
                        !.prior = IF s = NoText THEN NoText ELSE rows[s]]
  <2>2. IsCall(next) /\ next.pc = "classify"
    BY <1>1 DEF IsCall, Tri!Idle
  <2>3. Tri!Step(c, next) /\ call[c].pc = "lookup"
    BY <1>7, <2>1 DEF Tri!Lookup
  <2> HIDE DEF next
  <2> QED
    BY <1>3, <2>2, <2>3 DEF PrunePlaces
<1>8. CASE Tri!Classify(c)
  <2>1. \/ Tri!Step(c, Tri!Idle)
        \/ \E cat : Tri!Step(c, [call[c] EXCEPT !.pc = "record", !.category = cat])
    BY <1>8 DEF Tri!Classify
  <2>2. call[c].pc = "classify"
    BY <1>8 DEF Tri!Classify
  <2>3. CASE Tri!Step(c, Tri!Idle)
    BY <1>3, <2>2, <2>3, IdleCall DEF PrunePlaces
  <2>4. CASE \E cat : Tri!Step(c, [call[c] EXCEPT !.pc = "record", !.category = cat])
    <3>1. PICK cat : Tri!Step(c, [call[c] EXCEPT !.pc = "record", !.category = cat])
      BY <2>4
    <3> DEFINE next == [call[c] EXCEPT !.pc = "record", !.category = cat]
    <3>2. IsCall(next) /\ next.pc = "record"
      BY <1>1 DEF IsCall, Tri!Idle
    <3>3. Tri!Step(c, next)
      BY <3>1
    <3> HIDE DEF next
    <3> QED
      BY <1>3, <2>2, <3>2, <3>3 DEF PrunePlaces
  <2> QED
    BY <2>1, <2>3, <2>4
<1>9. CASE \E t \in Targets : Tri!Start(c, t)
  <2>1. PICK t \in Targets : Tri!Start(c, t)
    BY <1>9
  <2> DEFINE next == [Tri!Idle EXCEPT
                        !.pc = IF t.remote THEN "fetch" ELSE "stat", !.target = t]
  <2>2. IsCall(next) /\ next.pc \in {"fetch", "stat"}
    BY DEF IsCall, Tri!Idle
  <2>3. Tri!Step(c, next) /\ call[c].pc = "idle"
    BY <2>1 DEF Tri!Start
  <2> HIDE DEF next
  <2> QED
    BY <1>3, <2>2, <2>3 DEF PrunePlaces
<1> QED
  BY <1>4, <1>5, <1>6, <1>7, <1>8, <1>9 DEF Tri!Fetch

\* Coming up, a store files the rows the index lacks.
LEMMA OpenKeeps == ASSUME Tri!StoreInv, Given, NEW c \in Calls, Tri!Open(c) PROVE Tri!StoreInv'
<1>1. Tri!Counters /\ IsCall(call[c]) /\ Tri!MirrorFollows
  BY SameSizes DEF Tri!StoreInv, Tri!StoreInOrder, Tri!Counters, IsCall
<1>2. /\ call[c].pc = "open" /\ UNCHANGED <<rows, learned, blind>>
  BY DEF Tri!Open
<1>3. CASE /\ Tri!Sig(c) = NoText /\ Tri!Step(c, [call[c] EXCEPT !.pc = "classify"])
           /\ UNCHANGED <<index, mishaps>>
  <2> DEFINE next == [call[c] EXCEPT !.pc = "classify"]
  <2>1. IsCall(next) /\ next.pc = "classify" /\ Tri!Step(c, next)
    BY <1>1, <1>3, Placed
  <2>2. UNCHANGED Tri!store /\ mishaps' = mishaps /\ DOMAIN rows' = DOMAIN rows
    BY <1>2, <1>3 DEF Tri!store
  <2> HIDE DEF next
  <2>3. /\ DOMAIN call' = Calls
        /\ \A d \in Calls : IsCall(call'[d])
    BY <1>1, <2>1, OneMoves
  <2>4. Tri!Counters' /\ Tri!CountsUses' /\ Tri!MirrorFollows'
    BY <2>2, <2>3, StoreStays
  <2>5. /\ next.pc \notin {"choose", "evict"}
        /\ next.pc \in PrunePlaces <=> call[c].pc \in PrunePlaces
    BY <1>2, <2>1 DEF PrunePlaces
  <2> QED
    BY <2>1, <2>2, <2>4, <2>5, QuietMove
<1>4. ASSUME NEW next, IsCall(next), next.pc \in {"lookup", "classify"}, Tri!Step(c, next),
             UNCHANGED index, mishaps' = mishaps + 1
      PROVE  Tri!StoreInv'
  <2>1. UNCHANGED Tri!store /\ next.pc \notin PrunePlaces
    BY <1>2, <1>4 DEF Tri!store, PrunePlaces
  <2> QED
    BY <1>4, <2>1, FaultMove
<1>5. CASE /\ index' = [s \in DOMAIN index \cup DOMAIN rows |->
                         IF s \in DOMAIN index THEN index[s] ELSE <<rows[s].sample>>]
           /\ Tri!Step(c, [call[c] EXCEPT !.pc = "lookup", !.open = TRUE, !.fts = TRUE])
           /\ UNCHANGED mishaps
  <2> DEFINE next == [call[c] EXCEPT !.pc = "lookup", !.open = TRUE, !.fts = TRUE]
  <2>1. IsCall(next) /\ next.pc = "lookup"
    BY <1>1 DEF IsCall, Tri!Idle
  <2>2. Tri!Step(c, next)
    BY <1>5
  <2> HIDE DEF next
  <2>3. /\ DOMAIN call' = Calls
        /\ \A d \in Calls : IsCall(call'[d])
    BY <1>1, <2>1, <2>2, OneMoves
  <2>4. Tri!Counters' /\ Tri!CountsUses'
    <3>1. Tri!Counters'
      BY <1>1, <1>2, <1>5, <2>3, SameSizes DEF Tri!Counters, IsCall
    <3>2. Tri!CountsUses'
      BY <1>2, SameSizes DEF Tri!StoreInv, Tri!CountsUses
    <3> QED
      BY <3>1, <3>2
  <2>5. Tri!MirrorFollows'
    <3>1. DOMAIN index' = DOMAIN index \cup DOMAIN rows
      BY <1>5
    <3>2. \A s \in DOMAIN index : index'[s] = index[s]
      BY <1>5
    <3>3. \A s \in DOMAIN rows \ DOMAIN index : index'[s] = <<rows[s].sample>>
      BY <1>5
    <3>4. ASSUME NEW s \in (DOMAIN index \cup DOMAIN rows) \ blind
          PROVE  s \in DOMAIN rows /\ index'[s] = <<rows[s].sample>>
      BY <1>1, <3>2, <3>3 DEF Tri!MirrorFollows
    <3> QED
      BY <1>2, <3>1, <3>4 DEF Tri!MirrorFollows
  <2>6. /\ next.pc \notin {"choose", "evict"}
        /\ next.pc \in PrunePlaces <=> call[c].pc \in PrunePlaces
    BY <1>2, <2>1 DEF PrunePlaces
  <2>7. DOMAIN rows' = DOMAIN rows /\ mishaps' = mishaps
    BY <1>2, <1>5
  <2> QED
    BY <2>1, <2>2, <2>4, <2>5, <2>6, <2>7, QuietMove
<1>6. CASE /\ mishaps' = mishaps + 1 /\ UNCHANGED index
           /\ \/ Tri!Step(c, [call[c] EXCEPT !.pc = "lookup", !.open = TRUE])
              \/ Tri!Step(c, [call[c] EXCEPT !.pc = "classify"])
  <2> DEFINE a == [call[c] EXCEPT !.pc = "lookup", !.open = TRUE]
             b == [call[c] EXCEPT !.pc = "classify"]
  <2>1. IsCall(a) /\ a.pc = "lookup" /\ IsCall(b) /\ b.pc = "classify"
    BY <1>1 DEF IsCall, Tri!Idle
  <2>2. Tri!Step(c, a) \/ Tri!Step(c, b)
    BY <1>6
  <2> HIDE DEF a, b
  <2> QED
    BY <1>4, <1>6, <2>1, <2>2
<1> QED
  BY <1>3, <1>5, <1>6 DEF Tri!Open

\* A record goes in under its signature, and its sample into the index.
LEMMA RecordKeeps ==
    ASSUME Tri!StoreInv, Given, NEW c \in Calls, Tri!Record(c)
    PROVE  Tri!StoreInv'
<1> DEFINE s == Tri!Sig(c)
           next == [call[c] EXCEPT !.pc = "age"]
           count == 1 + IF s \in DOMAIN learned THEN learned[s] ELSE 0
           sample == Tri!SampleOf(Tri!Text(c))
<1>1. Tri!Counters /\ Tri!CountsUses /\ Tri!MirrorFollows /\ CapInv /\ IsCall(call[c])
  BY StoreParts, SameSizes DEF Tri!Counters, IsCall
<1>2. /\ call[c].pc = "record" /\ Tri!Step(c, next) /\ mishaps' = mishaps
      /\ rows' = Tri!Extended(rows, s, Tri!Recorded(c))
      /\ learned' = Tri!Extended(learned, s, count)
      /\ \/ index' = Tri!Extended(index, s, <<sample>>) /\ blind' = blind \ {s}
         \/ /\ index' \in {index, Tri!Without(index, {s}), Tri!FiledBeside(c)}
            /\ blind' = blind \cup {s}
  BY DEF Tri!Record, Tri!Filed, Tri!Misfiled
<1>3. /\ Tri!Recorded(c).sample = sample
      /\ Tri!Recorded(c).n = IF s \in DOMAIN rows THEN rows[s].n + 1 ELSE 1
  BY DEF Tri!Recorded
<1> DEFINE beside == (IF s \in DOMAIN index THEN index[s] ELSE <<>>) \o <<sample>>
<1>12. Tri!FiledBeside(c) = Tri!Extended(index, s, beside)
  BY DEF Tri!FiledBeside
<1> HIDE DEF s, sample, beside
<1>4. IsCall(next) /\ next.pc = "age"
  BY <1>1, Placed
<1> HIDE DEF next
<1>5. /\ DOMAIN call' = Calls
      /\ \A d \in Calls \ {c} : call'[d] = call[d]
      /\ \A d \in Calls : IsCall(call'[d])
      /\ Tri!Pending' = Tri!Pending \cup {c} /\ Tri!Counted' = Tri!Counted \ {c}
  BY <1>1, <1>2, <1>4, OneMoves DEF PrunePlaces
<1>6. /\ DOMAIN rows' = DOMAIN rows \cup {s}
      /\ \A x \in DOMAIN rows \cup {s} : rows'[x] = IF x = s THEN Tri!Recorded(c) ELSE rows[x]
  BY <1>2 DEF Tri!Extended
<1>7. /\ DOMAIN learned' = DOMAIN rows \cup {s}
      /\ \A x \in DOMAIN rows \cup {s} : learned'[x] = IF x = s THEN count ELSE learned[x]
  BY <1>1, <1>2, SameSizes DEF Tri!Extended, Tri!Counters
<1>8. Tri!Counters'
  <2>1. IsFiniteSet(DOMAIN rows')
    BY <1>1, <1>6, OneMore, SameSizes DEF Tri!Counters
  <2>2. \A x \in DOMAIN rows' : rows'[x].n \in Nat
    BY <1>1, <1>3, <1>6, SameSizes DEF Tri!Counters
  <2>3. mishaps' \in Nat /\ DOMAIN learned' = DOMAIN rows'
    BY <1>1, <1>2, <1>6, <1>7, SameSizes DEF Tri!Counters
  <2> QED
    BY <1>5, <2>1, <2>2, <2>3, SameSizes DEF Tri!Counters, IsCall
<1>9. Tri!CountsUses'
  <2>1. ASSUME NEW x \in DOMAIN rows' PROVE rows'[x].n = learned'[x]
    <3>1. CASE x # s
      BY <1>1, <1>6, <1>7, <2>1, <3>1 DEF Tri!CountsUses
    <3>2. CASE x = s
      <4>1. /\ rows'[s].n = (IF s \in DOMAIN rows THEN rows[s].n + 1 ELSE 1)
            /\ learned'[s] = count
        BY <1>3, <1>6, <1>7
      <4>2. CASE s \in DOMAIN rows
        BY <1>1, <3>2, <4>1, <4>2, SameSizes DEF Tri!CountsUses, Tri!Counters
      <4>3. CASE s \notin DOMAIN rows
        BY <1>1, <3>2, <4>1, <4>3, SameSizes DEF Tri!Counters
      <4> QED
        BY <4>2, <4>3
    <3> QED
      BY <3>1, <3>2
  <2> QED
    BY <2>1 DEF Tri!CountsUses
<1>10. Tri!MirrorFollows'
  <2>1. CASE index' = Tri!Extended(index, s, <<sample>>) /\ blind' = blind \ {s}
    <3>2. /\ DOMAIN index' = DOMAIN index \cup {s}
          /\ \A x \in DOMAIN index \cup {s} : index'[x] = IF x = s THEN <<sample>> ELSE index[x]
      BY <2>1 DEF Tri!Extended
    <3>4. ASSUME NEW x \in (DOMAIN rows' \cup DOMAIN index') \ blind'
          PROVE  x \in DOMAIN index' /\ x \in DOMAIN rows' /\ index'[x] = <<rows'[x].sample>>
      <4>1. CASE x = s
        BY <1>3, <1>6, <3>2, <4>1
      <4>2. CASE x # s
        BY <1>1, <1>6, <2>1, <3>2, <3>4, <4>2 DEF Tri!MirrorFollows
      <4> QED
        BY <4>1, <4>2
    <3> QED
      BY <3>4 DEF Tri!MirrorFollows
  <2>2. CASE /\ index' \in {index, Tri!Without(index, {s}), Tri!FiledBeside(c)}
             /\ blind' = blind \cup {s}
    \* The index is as it was but for s, which is now known to have missed one.
    <3>1. /\ DOMAIN index' \subseteq DOMAIN index \cup {s}
          /\ \A x \in DOMAIN index \ {s} : x \in DOMAIN index' /\ index'[x] = index[x]
      <4>1. CASE index' = index
        BY <4>1
      <4>2. CASE index' = Tri!Without(index, {s})
        BY <4>2 DEF Tri!Without
      <4>3. CASE index' = Tri!FiledBeside(c)
        BY <1>12, <4>3 DEF Tri!Extended
      <4> QED
        BY <2>2, <4>1, <4>2, <4>3
    <3>2. ASSUME NEW x \in (DOMAIN rows' \cup DOMAIN index') \ blind'
          PROVE  x \in DOMAIN index' /\ x \in DOMAIN rows' /\ index'[x] = <<rows'[x].sample>>
      <4>1. x # s /\ x \in (DOMAIN rows \cup DOMAIN index) \ blind
        BY <1>6, <2>2, <3>1, <3>2
      <4>2. x \in DOMAIN index /\ x \in DOMAIN rows /\ index[x] = <<rows[x].sample>>
        BY <1>1, <4>1 DEF Tri!MirrorFollows
      <4> QED
        BY <1>6, <3>1, <4>1, <4>2
    <3> QED
      BY <3>2 DEF Tri!MirrorFollows
  <2> QED
    BY <1>2, <2>1, <2>2
<1>11. CapInv'
  <2>1. c \in Calls \ Tri!Pending
    BY <1>2 DEF Tri!Pending
  <2>2. Tri!Counted' \subseteq Tri!Counted /\ \A d \in Tri!Counted' : call'[d] = call[d]
    BY <1>5 DEF Tri!Counted
  <2> QED
    BY <1>1, <1>2, <1>5, <1>6, <1>8, <2>1, <2>2, RecordStep
<1> QED
  BY <1>8, <1>9, <1>10, <1>11, StoreParts

\* Rows that are deleted are no longer in the index, or known not to follow.
LEMMA DeleteKeeps ==
    ASSUME Tri!StoreInv, NEW c \in Calls, NEW sigs, Tri!Delete(c, sigs), mishaps' = mishaps,
           DOMAIN call' = Calls, \A d \in Calls : IsCall(call'[d])
    PROVE  /\ Tri!Counters' /\ Tri!CountsUses' /\ Tri!MirrorFollows'
           /\ DOMAIN rows' = DOMAIN rows \ sigs
<1>1. Tri!Counters /\ Tri!CountsUses /\ Tri!MirrorFollows
  BY StoreParts
<1>2. rows' = Tri!Without(rows, sigs) /\ learned' = Tri!Without(learned, sigs)
  BY DEF Tri!Delete
<1>8. PICK gone \in SUBSET sigs :
        /\ index' = Tri!Without(index, gone)
        /\ blind' = (blind \ gone) \cup ((sigs \ gone) \cap DOMAIN index)
  BY DEF Tri!Delete
<1>3. /\ DOMAIN rows' = DOMAIN rows \ sigs
      /\ \A x \in DOMAIN rows \ sigs : rows'[x] = rows[x]
  BY <1>2 DEF Tri!Without
<1>4. /\ DOMAIN learned' = DOMAIN rows \ sigs
      /\ \A x \in DOMAIN rows \ sigs : learned'[x] = learned[x]
  BY <1>1, <1>2, SameSizes DEF Tri!Without, Tri!Counters
<1>5. Tri!Counters'
  <2>1. IsFiniteSet(DOMAIN rows')
    BY <1>1, <1>3, PartOf, SameSizes DEF Tri!Counters
  <2>2. \A x \in DOMAIN rows' : rows'[x].n \in Nat
    BY <1>1, <1>3, SameSizes DEF Tri!Counters
  <2>3. mishaps' \in Nat /\ DOMAIN learned' = DOMAIN rows'
    BY <1>1, <1>3, <1>4, SameSizes DEF Tri!Counters
  <2> QED
    BY <2>1, <2>2, <2>3, SameSizes DEF Tri!Counters, IsCall
<1>6. Tri!CountsUses'
  BY <1>1, <1>3, <1>4 DEF Tri!CountsUses
<1>7. Tri!MirrorFollows'
  <2>1. /\ DOMAIN index' = DOMAIN index \ gone
        /\ \A x \in DOMAIN index \ gone : index'[x] = index[x]
    BY <1>8 DEF Tri!Without
  <2>2. ASSUME NEW x \in (DOMAIN rows' \cup DOMAIN index') \ blind'
        PROVE  x \in DOMAIN index' /\ x \in DOMAIN rows' /\ index'[x] = <<rows'[x].sample>>
    \* A signature of sigs that is still in the index is known to have missed it.
    <3>1. x \notin sigs /\ x \in (DOMAIN rows \cup DOMAIN index) \ blind
      BY <1>3, <1>8, <2>1, <2>2
    <3>2. x \in DOMAIN index /\ x \in DOMAIN rows /\ index[x] = <<rows[x].sample>>
      BY <1>1, <3>1 DEF Tri!MirrorFollows
    <3> QED
      BY <1>3, <2>1, <3>1, <3>2
  <2> QED
    BY <2>2 DEF Tri!MirrorFollows
<1> QED
  BY <1>3, <1>5, <1>6, <1>7

\* A prune looks for what is too old.
LEMMA AgeKeeps ==
    ASSUME Tri!StoreInv, Given, NEW c \in Calls, Tri!Age(c)
    PROVE  Tri!StoreInv'
<1>1. Tri!Counters /\ IsCall(call[c])
  BY SameSizes DEF Tri!StoreInv, Tri!Counters, IsCall
<1>2. PICK old, place : /\ place \in {"count", "expire"}
                        /\ Tri!Step(c, [call[c] EXCEPT !.old = old, !.pc = place])
  BY DEF Tri!Age
<1> DEFINE next == [call[c] EXCEPT !.old = old, !.pc = place]
<1>3. IsCall(next) /\ next.pc = place
  BY <1>1 DEF IsCall, Tri!Idle
<1>4. Tri!Step(c, next) /\ call[c].pc = "age" /\ UNCHANGED Tri!store /\ mishaps' = mishaps
  BY <1>2 DEF Tri!Age
<1> HIDE DEF next
<1>5. /\ DOMAIN call' = Calls
      /\ \A d \in Calls : IsCall(call'[d])
  BY <1>1, <1>3, <1>4, OneMoves
<1>6. Tri!Counters' /\ Tri!CountsUses' /\ Tri!MirrorFollows'
  BY <1>4, <1>5, StoreStays
<1>7. /\ DOMAIN rows' = DOMAIN rows /\ next.pc \notin {"choose", "evict"}
      /\ next.pc \in PrunePlaces <=> call[c].pc \in PrunePlaces
  BY <1>2, <1>3, <1>4 DEF Tri!store, PrunePlaces
<1> QED
  BY <1>3, <1>4, <1>6, <1>7, QuietMove

\* What is too old goes, and what is then over the cap.
LEMMA ExpireKeeps ==
    ASSUME Tri!StoreInv, Given, NEW c \in Calls, Tri!Expire(c)
    PROVE  Tri!StoreInv'
<1> DEFINE left == Tri!Without(rows, call[c].old)
<1>1. Tri!Counters
  BY StoreParts
<1>2. PICK victims \in Tri!Oldest(left, Tri!Over(left)) : Tri!Delete(c, call[c].old \cup victims)
  BY DEF Tri!Expire
<1>3. /\ Tri!Step(c, Tri!Idle) /\ mishaps' = mishaps
      /\ Tri!Idle.pc \notin PrunePlaces /\ IsCall(Tri!Idle)
  BY IdleCall DEF Tri!Expire
<1>4. /\ DOMAIN call' = Calls
      /\ \A d \in Calls : IsCall(call'[d])
  BY <1>1, <1>3, OneMoves
<1>5. /\ Tri!Counters' /\ Tri!CountsUses' /\ Tri!MirrorFollows'
      /\ DOMAIN rows' = DOMAIN rows \ (call[c].old \cup victims)
  BY <1>2, <1>3, <1>4, DeleteKeeps
<1>6. DOMAIN left = DOMAIN rows \ call[c].old
  BY DEF Tri!Without
<1>7. victims \in SUBSET DOMAIN left /\ Cardinality(victims) = Tri!Over(left)
  BY <1>2, SameSizes DEF Tri!Oldest
<1> HIDE DEF left
<1>8. IsFiniteSet(DOMAIN left) /\ Cardinality(DOMAIN left) \in Nat
  BY <1>1, <1>6, PartOf, SameSizes DEF Tri!Counters
<1>9. /\ Tri!Over(left) \in Nat /\ Cardinality(DOMAIN left) <= MaxRows + Tri!Over(left)
  BY <1>8, ExcessOf
<1>10. Cardinality(DOMAIN left \ victims) = Cardinality(DOMAIN left) - Cardinality(victims)
  BY <1>7, <1>8, LeftOver
<1>11. DOMAIN rows' = DOMAIN left \ victims
  BY <1>5, <1>6
<1>12. Cardinality(DOMAIN rows') <= MaxRows
  BY <1>7, <1>8, <1>9, <1>10, <1>11, SameSizes DEF Given, Tri!TriageAssumption
<1> QED
  BY <1>3, <1>5, <1>12, WithinMove

\* A prune counts.
LEMMA CountKeeps ==
    ASSUME Tri!StoreInv, Given, NEW c \in Calls, Tri!Count(c)
    PROVE  Tri!StoreInv'
<1>1. Tri!Counters /\ CapInv /\ IsCall(call[c])
  BY StoreParts, SameSizes DEF Tri!Counters, IsCall
<1>2. call[c].pc = "count" /\ UNCHANGED Tri!store /\ mishaps' = mishaps
  BY DEF Tri!Count
<1>3. Cardinality(DOMAIN rows) \in Nat
  BY <1>1, LeftIsCount
<1>4. /\ Tri!Over(rows) \in Nat /\ Cardinality(DOMAIN rows) <= MaxRows + Tri!Over(rows)
  BY <1>3, ExcessOf
<1>5. DOMAIN rows' = DOMAIN rows
  BY <1>2 DEF Tri!store
<1>6. CASE Tri!Over(rows) = 0
  <2>1. Tri!Step(c, Tri!Idle) /\ Tri!Idle.pc \notin PrunePlaces /\ IsCall(Tri!Idle)
    BY <1>6, IdleCall DEF Tri!Count
  <2>2. /\ DOMAIN call' = Calls
        /\ \A d \in Calls : IsCall(call'[d])
    BY <1>1, <2>1, OneMoves
  <2>3. Tri!Counters' /\ Tri!CountsUses' /\ Tri!MirrorFollows'
    BY <1>2, <2>2, StoreStays
  <2>4. Cardinality(DOMAIN rows') <= MaxRows
    BY <1>3, <1>4, <1>5, <1>6, SameSizes DEF Given, Tri!TriageAssumption
  <2> QED
    BY <1>2, <1>5, <2>1, <2>3, <2>4, WithinMove
<1>7. CASE Tri!Over(rows) # 0
  <2> DEFINE next == [call[c] EXCEPT !.pc = "choose", !.overflow = Tri!Over(rows)]
  <2>1. IsCall(next) /\ next.pc = "choose" /\ next.overflow = Tri!Over(rows)
    BY <1>1, <1>4 DEF IsCall, Tri!Idle
  <2>2. Tri!Step(c, next)
    BY <1>7 DEF Tri!Count
  <2> HIDE DEF next
  <2>3. /\ DOMAIN call' = Calls /\ call'[c] = next
        /\ \A d \in Calls \ {c} : call'[d] = call[d]
        /\ \A d \in Calls : IsCall(call'[d])
        /\ Tri!Pending' = Tri!Pending \cup {c} /\ Tri!Counted' = Tri!Counted \cup {c}
    BY <1>1, <2>1, <2>2, OneMoves DEF PrunePlaces
  <2>4. Tri!Counters' /\ Tri!CountsUses' /\ Tri!MirrorFollows'
    BY <1>2, <2>3, StoreStays
  <2>5. c \in Tri!Pending \ Tri!Counted /\ Tri!Pending' = Tri!Pending
    BY <1>2, <2>3 DEF Tri!Pending, Tri!Counted
  <2>6. \A d \in Tri!Counted : call'[d] = call[d]
    BY <2>3, <2>5 DEF Tri!Counted
  <2>7. CapInv'
    BY <1>1, <1>2, <1>4, <1>5, <2>1, <2>3, <2>4, <2>5, <2>6, CountStep
  <2> QED
    BY <2>4, <2>7, StoreParts
<1> QED
  BY <1>6, <1>7

\* A prune chooses what goes.
LEMMA ChooseKeeps ==
    ASSUME Tri!StoreInv, Given, NEW c \in Calls, Tri!Choose(c)
    PROVE  Tri!StoreInv'
<1>1. Tri!Counters /\ CapInv /\ IsCall(call[c])
  BY StoreParts, SameSizes DEF Tri!Counters, IsCall
<1>2. call[c].pc = "choose" /\ UNCHANGED Tri!store /\ mishaps' = mishaps
  BY SameSizes DEF Tri!Choose
<1>3. PICK V \in Tri!Oldest(rows, Tri!Min({call[c].overflow, Cardinality(DOMAIN rows)})) :
         Tri!Step(c, [call[c] EXCEPT !.pc = "evict", !.victims = V])
  BY SameSizes DEF Tri!Choose
<1> DEFINE next == [call[c] EXCEPT !.pc = "evict", !.victims = V]
<1>4. IsCall(next) /\ next.pc = "evict" /\ next.victims = V
  BY <1>1 DEF IsCall, Tri!Idle
<1>5. Tri!Step(c, next)
  BY <1>3
<1> HIDE DEF next
<1>6. /\ DOMAIN call' = Calls /\ call'[c] = next
      /\ \A d \in Calls \ {c} : call'[d] = call[d]
      /\ \A d \in Calls : IsCall(call'[d])
      /\ Tri!Pending' = Tri!Pending \cup {c} /\ Tri!Counted' = Tri!Counted \cup {c}
  BY <1>1, <1>4, <1>5, OneMoves DEF PrunePlaces
<1>7. Tri!Counters' /\ Tri!CountsUses' /\ Tri!MirrorFollows'
  BY <1>2, <1>6, StoreStays
<1>8. c \in Tri!Counted /\ Tri!Pending' = Tri!Pending /\ Tri!Counted' = Tri!Counted
  BY <1>2, <1>6 DEF Tri!Pending, Tri!Counted
<1>9. \A d \in Tri!Counted \ {c} : call'[d] = call[d]
  BY <1>6 DEF Tri!Counted
<1>10. /\ V \in SUBSET DOMAIN rows
       /\ Cardinality(V) = Tri!Min({call[c].overflow, Cardinality(DOMAIN rows)})
  BY <1>3, SameSizes DEF Tri!Oldest
<1>11. DOMAIN rows' = DOMAIN rows
  BY <1>2 DEF Tri!store
<1>12. CapInv'
  BY <1>1, <1>2, <1>4, <1>6, <1>7, <1>8, <1>9, <1>10, <1>11, ChooseStep
<1> QED
  BY <1>7, <1>12, StoreParts

\* What was chosen goes.
LEMMA EvictKeeps ==
    ASSUME Tri!StoreInv, Given, NEW c \in Calls, Tri!Evict(c)
    PROVE  Tri!StoreInv'
<1>1. Tri!Counters /\ CapInv
  BY StoreParts
<1>2. /\ call[c].pc = "evict" /\ mishaps' = mishaps /\ Tri!Delete(c, call[c].victims)
      /\ Tri!Step(c, Tri!Idle) /\ IsCall(Tri!Idle) /\ Tri!Idle.pc \notin PrunePlaces
  BY IdleCall DEF Tri!Evict
<1>3. /\ DOMAIN call' = Calls
      /\ \A d \in Calls \ {c} : call'[d] = call[d]
      /\ \A d \in Calls : IsCall(call'[d])
      /\ Tri!Pending' = Tri!Pending \ {c} /\ Tri!Counted' = Tri!Counted \ {c}
  BY <1>1, <1>2, OneMoves DEF PrunePlaces
<1>4. /\ Tri!Counters' /\ Tri!CountsUses' /\ Tri!MirrorFollows'
      /\ DOMAIN rows' = DOMAIN rows \ call[c].victims
  BY <1>2, <1>3, DeleteKeeps
<1>5. c \in Tri!Counted /\ \A d \in Tri!Counted' : call'[d] = call[d]
  BY <1>2, <1>3 DEF Tri!Counted
<1>6. CapInv'
  BY <1>1, <1>2, <1>3, <1>4, <1>5, EvictStep
<1> QED
  BY <1>4, <1>6, StoreParts

\* A fetch fails, a write is refused, a call dies.
LEMMA FaultKeeps ==
    ASSUME Tri!StoreInv, Given, NEW c \in Calls,
           Tri!FetchFails(c) \/ Tri!Refused(c) \/ Tri!Crash(c)
    PROVE  Tri!StoreInv'
<1>1. Tri!Step(c, Tri!Idle) /\ UNCHANGED Tri!store /\ mishaps' = mishaps + 1
  BY DEF Tri!FetchFails, Tri!Refused, Tri!Crash
<1> QED
  BY <1>1, IdleCall, FaultMove

\* Nothing of the store and no call changes.
LEMMA IdleKeeps ==
    ASSUME Tri!StoreInv, UNCHANGED <<call, mishaps, Tri!store>>
    PROVE  Tri!StoreInv'
<1>1. Tri!Counters /\ CapInv
  BY StoreParts
<1>2. DOMAIN call' = Calls /\ \A d \in Calls : IsCall(call'[d])
  BY <1>1, SameSizes DEF Tri!Counters, IsCall
<1>3. Tri!Counters' /\ Tri!CountsUses' /\ Tri!MirrorFollows'
  BY <1>2, StoreStays
<1>4. /\ DOMAIN rows' = DOMAIN rows /\ Tri!Pending' = Tri!Pending /\ Tri!Counted' = Tri!Counted
      /\ \A d \in Tri!Counted' : call'[d] = call[d]
  BY DEF Tri!store, Tri!Pending, Tri!Counted
<1>5. CapInv'
  BY <1>1, <1>3, <1>4, CalmStep
<1> QED
  BY <1>3, <1>5, StoreParts

\* At first there is nothing.
LEMMA InitKeeps == ASSUME Tri!Init, Given PROVE Tri!StoreInv
<1>1. /\ DOMAIN rows = {} /\ DOMAIN index = {} /\ DOMAIN learned = {} /\ mishaps = 0
      /\ DOMAIN call = Calls /\ \A c \in Calls : call[c] = Tri!Idle
  BY DEF Tri!Init
<1>2. Tri!Counters
  BY <1>1, IdleCall, FS_EmptySet, SameSizes DEF Tri!Counters, IsCall
<1>3. Tri!CountsUses /\ Tri!MirrorFollows
  BY <1>1 DEF Tri!CountsUses, Tri!MirrorFollows
<1>4. Tri!Pending = {} /\ Tri!Counted = {}
  BY <1>1, IdleCall DEF Tri!Pending, Tri!Counted, PrunePlaces
<1>5. Tri!Capped
  <2>1. Cardinality(DOMAIN rows) = 0 /\ Cardinality(Tri!Pending) = 0
    BY <1>1, <1>4, FS_EmptySet
  <2> QED
    BY <1>1, <2>1, SameSizes DEF Tri!Capped, Given, Tri!TriageAssumption
<1>6. \A after : Tri!CountedBefore(after)
  BY <1>4, SameSizes DEF Tri!CountedBefore
<1>7. [c \in Calls |-> {}] \in [Calls -> SUBSET Calls]
  OBVIOUS
<1> QED
  BY <1>2, <1>3, <1>5, <1>6, <1>7, StoreParts DEF CapInv

\* Every step keeps the invariant.
LEMMA NextKeeps ==
    ASSUME Tri!StoreInv, Given, [Tri!Next]_Tri!vars
    PROVE  Tri!StoreInv'
<1>1. CASE UNCHANGED Tri!vars
  BY <1>1, IdleKeeps DEF Tri!vars, Tri!store
<1>2. CASE Tri!SignalQuery \/ Tri!Grow \/ Tri!Tick
  <2>1. UNCHANGED <<call, mishaps, Tri!store>>
    BY <1>2 DEF Tri!SignalQuery, Tri!Grow, Tri!Tick
  <2> QED
    BY <2>1, IdleKeeps
<1>3. ASSUME NEW c \in Calls,
             \/ \E t \in Targets : Tri!Start(c, t)
             \/ Tri!Go(c) \/ Tri!FetchFails(c) \/ Tri!Refused(c) \/ Tri!Crash(c)
      PROVE  Tri!StoreInv'
  BY <1>3, FetchQuiet, OpenKeeps, RecordKeeps, AgeKeeps, ExpireKeeps, CountKeeps,
     ChooseKeeps, EvictKeeps, FaultKeeps DEF Tri!Go, Tri!Prune
<1> QED
  BY <1>1, <1>2, <1>3 DEF Tri!Next

\* Rows, counts, index and cap of the pattern store are in order in every
\* reachable state (patterns.py).
THEOREM StoreInvCorrect == ASSUME Tri!TriageAssumption PROVE Tri!Spec => []Tri!StoreInv
<1>1. Tri!Init => Tri!StoreInv
  BY InitKeeps DEF Given
<1>2. Tri!StoreInv /\ [Tri!Next]_Tri!vars => Tri!StoreInv'
  BY NextKeeps DEF Given
<1> QED
  BY <1>1, <1>2, PTL DEF Tri!Spec

\* A row counts every record made under its signature since it is there,
\* whatever other calls learn, prune or die (patterns.py, record).
THEOREM CountsUsesCorrect == ASSUME Tri!TriageAssumption PROVE Tri!Spec => []Tri!CountsUses
<1>1. Tri!StoreInv => Tri!CountsUses
  BY SameSizes DEF Tri!StoreInv
<1> QED
  BY <1>1, StoreInvCorrect, PTL

\* The index follows the rows, and the cap holds but for the prunes that are
\* still to come or were refused (patterns.py, prune and _reindex).
THEOREM StoreInOrderCorrect == ASSUME Tri!TriageAssumption PROVE Tri!Spec => []Tri!StoreInOrder
<1>1. Tri!StoreInv => Tri!StoreInOrder
  BY SameSizes DEF Tri!StoreInv
<1> QED
  BY <1>1, StoreInvCorrect, PTL
=============================================================================
