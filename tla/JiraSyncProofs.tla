--------------------------- MODULE JiraSyncProofs ---------------------------
(***************************************************************************)
(* What is proved of JiraSync for every value of its constants: types, the *)
(* fate of resume tokens, when no `--full` run interferes, that no issue   *)
(* is ever missed and no row goes back, and, when `--full` runs have the   *)
(* tracker to themselves, that they delete only what is gone.              *)
(***************************************************************************)
EXTENDS JiraSync, TLAPS

\* The values the actions assign belong to the types.  With this fact at hand
\* the sets themselves stay unexpanded below.
LEMMA Elements ==
    /\ \A p \in {"idle", "prepare", "clear", "openSweep", "checkQuery",
                 "setQuery", "resolve", "fetch", "store", "persist", "finish",
                 "closeSweep"} : p \in Pcs
    /\ "openSweep" \in Nexts /\ "setQuery" \in Nexts /\ Nexts \subseteq Pcs
    /\ 0 \in Stamps /\ 0 \in Revs /\ 0 \in Steps /\ 1 \in Steps
    /\ \A s \in Steps : s < 5 => s + 1 \in Steps
    /\ Revs \subseteq Nat /\ Stamps \subseteq Nat /\ Steps \subseteq Nat
    /\ NoToken \in TokensOrNone /\ NoQuery \in QueriesOrNone
    /\ Queries \subseteq QueriesOrNone /\ Modes \subseteq AllModes
    /\ [k \in Keys |-> 0] \in [Keys -> Revs]
  BY SyncAssumption
  DEF SyncAssumption, Pcs, Nexts, Stamps, Revs, Steps, TokensOrNone,
      QueriesOrNone, AllModes

\* The record of no run is well typed.
LEMMA IdleType == Idle \in RunType
  BY Elements DEF Idle, RunType, AllModes, Nexts

\* Init establishes the types.
LEMMA TypeInit == Init => TypeOK
<1> SUFFICES ASSUME Init PROVE TypeOK
  OBVIOUS
<1>1. jira \in [Keys -> Revs] /\ rev \in Revs
  BY SyncAssumption DEF Init, SyncAssumption, Revs
<1>2. meta \in MetaType
  BY Elements DEF Init, MetaType
<1>3. local \in [Keys -> Revs] /\ conf \in Queries
  BY Elements DEF Init
<1>4. run \in RunType /\ run.pc = "idle"
  BY IdleType DEF Init, Idle
<1>5. budget \in [edits : Nat, crashes : Nat, failures : Nat,
                 rejects : Nat, queries : Nat]
  BY SyncAssumption DEF Init, SyncAssumption
<1> QED
  BY <1>1, <1>2, <1>3, <1>4, <1>5 DEF TypeOK

\* A fetched page and the token that came with it are well typed.
LEMMA FetchType == TypeOK /\ FetchPage => run' \in RunType
<1> SUFFICES ASSUME TypeOK, FetchPage PROVE run' \in RunType
  OBVIOUS
<1> USE Elements DEF TypeOK
<1> DEFINE
      page(S) == [k \in Keys |-> IF k \in S THEN jira[k] ELSE 0]
      after(S, last) == IF S = Results THEN NoToken
                        ELSE [query |-> run.jql, floor |-> run.floor,
                              pos |-> jira[last]]
<1>0. PICK S \in SUBSET Results : \E last \in S :
         run' = [run EXCEPT !.pc = "store", !.page = page(S),
                            !.after = after(S, last)]
  BY DEF FetchPage
<1>1. PICK last \in S :
         run' = [run EXCEPT !.pc = "store", !.page = page(S),
                            !.after = after(S, last)]
  BY <1>0
<1>2. last \in Keys /\ jira[last] # 0 /\ run.jql \in Queries
  BY <1>1, SyncAssumption DEF Results, SyncAssumption, FetchPage
<1>3. page(S) \in [Keys -> Revs]
  OBVIOUS
<1>4. after(S, last) \in TokensOrNone
  <2>1. jira[last] \in 1..MaxRev
    BY <1>2 DEF Revs
  <2>2. run.floor \in Stamps
    BY DEF RunType
  <2> QED
    BY <1>2, <2>1, <2>2 DEF TokensOrNone, Tokens
<1> HIDE DEF page, after
<1> QED
  BY <1>1, <1>3, <1>4 DEF RunType

\* So is what the run knows once the page is stored.
LEMMA StoreType == TypeOK /\ StorePage => run' \in RunType /\ local' \in [Keys -> Revs]
<1> SUFFICES ASSUME TypeOK, StorePage
             PROVE  run' \in RunType /\ local' \in [Keys -> Revs]
  OBVIOUS
<1> USE Elements DEF TypeOK
<1>1. local' \in [Keys -> Revs]
  BY DEF StorePage, RunType
<1>2. run' \in RunType
  <2>1. PICK n \in Stamps : run' = [run EXCEPT
                      !.pc = IF run.after # NoToken /\ run.pages + 1 < MaxPages
                               THEN "fetch" ELSE "persist",
                      !.step = 1,
                      !.page = [k \in Keys |-> 0],
                      !.after = NoToken,
                      !.token = run.after,
                      !.newest = n,
                      !.pages = @ + 1,
                      !.exhausted = run.after = NoToken,
                      !.seen = @ \cup {k \in Keys : run.page[k] # 0}]
    BY DEF StorePage
  <2> DEFINE found == {k \in Keys : run.page[k] # 0}
  <2>2. /\ run.pages + 1 \in Nat /\ run.seen \cup found \in SUBSET Keys
        /\ run.after \in TokensOrNone /\ (run.after = NoToken) \in BOOLEAN
    BY DEF RunType
  <2> HIDE DEF found
  <2>3. CASE run.after # NoToken /\ run.pages + 1 < MaxPages
    BY <2>1, <2>2, <2>3 DEF RunType, found
  <2>4. CASE ~(run.after # NoToken /\ run.pages + 1 < MaxPages)
    BY <2>1, <2>2, <2>4 DEF RunType, found
  <2> QED
    BY <2>3, <2>4
<1> QED
  BY <1>1, <1>2

\* The writes that end a sweep keep the meta table well typed.
LEMMA PersistType == TypeOK /\ Persist => meta' \in MetaType
<1> SUFFICES ASSUME TypeOK, Persist PROVE meta' \in MetaType
  OBVIOUS
<1> USE Elements DEF TypeOK
<1>1. run.newest \in Stamps /\ run.token \in TokensOrNone
  BY DEF RunType
<1>2. CASE run.inc /\ run.exhausted
  BY <1>1, <1>2 DEF Persist, IncrementalWrite, MetaType
<1>3. CASE run.inc /\ ~run.exhausted
  BY <1>1, <1>3 DEF Persist, IncrementalWrite, MetaType
<1>4. CASE ~run.inc
  BY <1>1, <1>4 DEF Persist, BackfillWrite, MetaType
<1> QED
  BY <1>2, <1>3, <1>4

\* Every step keeps the types.
LEMMA TypeStep == TypeOK /\ [Next]_vars => TypeOK'
<1> SUFFICES ASSUME TypeOK, [Next]_vars PROVE TypeOK'
  OBVIOUS
<1> USE Elements, IdleType DEF TypeOK
<1>1. ASSUME NEW k \in Keys, EditIssue(k) PROVE TypeOK'
  BY <1>1, SyncAssumption DEF EditIssue, Revs, SyncAssumption
<1>2. ASSUME NEW k \in Keys, DeleteIssue(k) PROVE TypeOK'
  BY <1>2 DEF DeleteIssue
<1>3. ASSUME NEW q \in Queries, EditQuery(q) PROVE TypeOK'
  BY <1>3 DEF EditQuery
<1>4. ASSUME NEW m \in Modes, Start(m) PROVE TypeOK'
  <2>1. run' \in RunType
    BY <1>4 DEF Start, RunType
  <2>2. run'.jql = conf
    BY <1>4 DEF Start, RunType
  <2> QED
    BY <1>4, <2>1, <2>2 DEF Start
<1>5. CASE ResumeSweep
  BY <1>5 DEF ResumeSweep, RunType, MetaType
<1>6. CASE ResetForSweep
  BY <1>6 DEF ResetForSweep, RunType
<1>7. CASE ClearOne
  <2>1. meta' \in MetaType
    BY <1>7 DEF ClearOne, Cleared, MetaType
  <2>2. run' \in RunType
    BY <1>7 DEF ClearOne, RunType
  <2> QED
    BY <1>7, <2>1, <2>2 DEF ClearOne, RunType, Idle
<1>8. CASE OpenSweep
  <2>1. meta' \in MetaType
    BY <1>8 DEF OpenSweep, MetaType, RunType
  <2>2. run' \in RunType
    BY <1>8 DEF OpenSweep, MetaType, RunType
  <2> QED
    BY <1>8, <2>1, <2>2 DEF OpenSweep, RunType, Idle
<1>9. CASE CheckQuery
  BY <1>9 DEF CheckQuery, RunType
<1>10. CASE SetQuery
  BY <1>10 DEF SetQuery, RunType, MetaType
<1>11. CASE Resolve
  <2>1. meta' \in MetaType
    BY <1>11 DEF Resolve, Later, MetaType, RunType
  <2>2. run' \in RunType
    <3>1. /\ meta.wm \in Stamps /\ meta.newest \in Stamps
          /\ MinuteOf[meta.wm] \in Stamps
          /\ meta.syTok \in TokensOrNone /\ meta.bfTok \in TokensOrNone
          /\ meta.done \in BOOLEAN
      BY StampAssumption DEF StampAssumption, MetaType
    <3>2. Later(meta.wm, meta.newest) \in Stamps
      BY <3>1 DEF Later
    <3>3. CASE run.mode # "full" /\ meta.done
      <4>1. run' = [run EXCEPT !.pc = "fetch", !.inc = TRUE,
                      !.floor = MinuteOf[meta.wm], !.wasDone = meta.done,
                      !.token = meta.syTok, !.held = meta.syTok # NoToken,
                      !.newest = Later(meta.wm, meta.newest)]
        BY <1>11, <3>3 DEF Resolve
      <4>2. (meta.syTok # NoToken) \in BOOLEAN
        OBVIOUS
      <4> QED
        BY <3>1, <3>2, <4>1, <4>2 DEF RunType
    <3>4. CASE ~(run.mode # "full" /\ meta.done)
      <4> DEFINE w == IF run.mode # "full" THEN meta.wm ELSE 0
      <4>1. run' = [run EXCEPT !.pc = "fetch", !.inc = FALSE,
                      !.floor = 0, !.wasDone = meta.done,
                      !.token = meta.bfTok, !.held = meta.bfTok # NoToken,
                      !.newest = w]
        BY <1>11, <3>4 DEF Resolve
      <4>2. (meta.bfTok # NoToken) \in BOOLEAN /\ w \in Stamps
        BY <3>1
      <4> HIDE DEF w
      <4> QED
        BY <3>1, <4>1, <4>2 DEF RunType
    <3> QED
      BY <3>3, <3>4
  <2> QED
    BY <1>11, <2>1, <2>2 DEF Resolve, RunType, Idle
<1>12. CASE FetchPage
  BY <1>12, FetchType DEF FetchPage, RunType
<1>13. CASE FetchNothing
  BY <1>13 DEF FetchNothing, RunType
<1>14. CASE TokenRejected
  <2>1. meta' \in MetaType
    BY <1>14 DEF TokenRejected, MetaType, RunType
  <2>2. run' \in RunType
    BY <1>14 DEF TokenRejected, MetaType, RunType
  <2> QED
    BY <1>14, <2>1, <2>2 DEF TokenRejected, RunType, Idle
<1>15. CASE StorePage
  BY <1>15, StoreType DEF StorePage, RunType
<1>16. CASE Persist
  <2>1. run' \in RunType
    BY <1>16 DEF Persist, RunType
  <2> QED
    BY <1>16, <2>1, PersistType DEF Persist, RunType
<1>17. CASE FinishCli
  BY <1>17 DEF FinishCli, Idle
<1>18. CASE Prune
  BY <1>18 DEF Prune, Idle
<1>19. CASE KeepSweep
  BY <1>19 DEF KeepSweep, Idle, RunType, MetaType, SweepSeen
<1>20. CASE DeleteUnseen
  BY <1>20 DEF DeleteUnseen, RunType
<1>21. CASE CloseSweep
  <2>1. meta' \in MetaType
    BY <1>21 DEF CloseSweep, MetaType, RunType
  <2>2. run' \in RunType
    BY <1>21 DEF CloseSweep, MetaType, RunType
  <2> QED
    BY <1>21, <2>1, <2>2 DEF CloseSweep, RunType, Idle
<1>22. CASE RequestFails
  BY <1>22 DEF RequestFails, Idle
<1>23. CASE Crash
  BY <1>23 DEF Crash, Idle
<1>24. CASE UNCHANGED vars
  BY <1>24 DEF vars
<1> QED
  BY <1>1, <1>2, <1>3, <1>4, <1>5, <1>6, <1>7, <1>8, <1>9, <1>10, <1>11, <1>12, <1>13, <1>14, <1>15, <1>16, <1>17, <1>18, <1>19, <1>20, <1>21, <1>22, <1>23, <1>24 DEF Next, Sync, Upstream

\* The types hold in every reachable state.
THEOREM TypeCorrect == Spec => []TypeOK
  BY TypeInit, TypeStep, PTL DEF Spec

-----------------------------------------------------------------------------
(* The inductive invariant.                                                *)


\* What the types say of the numbers a proof compares.
LEMMA Numbers ==
    ASSUME TypeOK
    PROVE  /\ rev \in Revs /\ rev \in Nat
           /\ \A k \in Keys : /\ jira[k] \in Revs /\ local[k] \in Revs
                              /\ run.page[k] \in Revs
           /\ meta.wm \in Nat /\ meta.newest \in Nat /\ run.newest \in Nat
           /\ meta.wm \in Stamps /\ MinuteOf[meta.wm] \in Nat
           /\ MinuteOf[meta.wm] <= meta.wm
           /\ \A t \in {meta.bfTok, meta.syTok, run.token, run.after} :
                t # NoToken => t.pos \in Nat /\ t \in Tokens
           /\ run.floor \in Nat
<1> USE Elements DEF TypeOK
<1>1. /\ rev \in Revs /\ rev \in Nat
      /\ \A k \in Keys : jira[k] \in Revs /\ local[k] \in Revs
  OBVIOUS
<1>2. \A k \in Keys : run.page[k] \in Revs
  BY DEF RunType
<1>3. /\ meta.wm \in Stamps /\ meta.newest \in Nat /\ run.newest \in Nat
      /\ run.floor \in Nat
  BY DEF RunType, MetaType
<1>4. MinuteOf[meta.wm] \in Nat /\ MinuteOf[meta.wm] <= meta.wm
  BY <1>3, StampAssumption DEF StampAssumption
<1>5. \A t \in {meta.bfTok, meta.syTok, run.token, run.after} : t \in TokensOrNone
  BY DEF RunType, MetaType
<1>6. \A t \in Tokens : t.pos \in Nat
  BY DEF Tokens
<1> QED
  BY <1>1, <1>2, <1>3, <1>4, <1>5, <1>6 DEF TokensOrNone

\* Stamps order as revisions do; queries select keys.
LEMMA Order ==
    /\ \A r \in Revs : r \in Nat /\ StampOf[r] \in Nat
    /\ \A r, s \in Revs : r <= s => StampOf[r] <= StampOf[s]
    /\ 0 \in Revs /\ MaxRev \in Nat /\ Cutoff \in Nat
    /\ \A q \in Queries : Match[q] \subseteq Keys
  BY Elements, StampAssumption, SyncAssumption DEF StampAssumption, SyncAssumption

-----------------------------------------------------------------------------
(* One lemma per action: the step keeps the inductive invariant.           *)

\* An edit makes its key missing, but above every stamp the code remembers.
LEMMA EditStep == ASSUME TypeOK, TypeOK', SyncInv, NEW key \in Keys, EditIssue(key) PROVE SyncInv'
<1> USE Numbers, Order DEF SyncInv, EditIssue
<1>0. /\ rev' \in Revs /\ rev' = rev + 1 /\ jira'[key] = rev'
      /\ \A k \in Keys : k # key => jira'[k] = jira[k]
      /\ local' = local /\ meta' = meta /\ run' = run
      /\ StampOf[rev] <= StampOf[rev']
  BY DEF TypeOK
<1>1. NothingFromTheFuture'
  BY <1>0 DEF NothingFromTheFuture
<1>2. TokensMatchStoredQuery'
  BY <1>0 DEF TokensMatchStoredQuery
<1>m. \A q \in Queries : \A k \in Missing(q)' :
        \/ k \in Missing(q) /\ jira'[k] = jira[k]
        \/ jira'[k] = rev + 1 /\ StampOf[jira'[k]] >= StampOf[rev]
  BY <1>0 DEF Missing
<1>3. WatermarkCovers'
  BY <1>0, <1>m DEF WatermarkCovers, NothingFromTheFuture, Ahead, TypeOK, MetaType, QueriesOrNone
<1>4. TokenCovers'
  BY <1>0, <1>m DEF TokenCovers, NothingFromTheFuture, Ahead, TypeOK, MetaType, QueriesOrNone
<1>5. Stages' /\ SweepStart'
  BY <1>0 DEF Stages, SweepStart, Sweeping
<1>6. FetchCovers'
  BY <1>0, <1>m DEF FetchCovers, NothingFromTheFuture, Ahead, TypeOK, Served
<1>7. PageCovers'
  BY <1>0, <1>m DEF PageCovers, NothingFromTheFuture, AheadOrDone, TypeOK, MintedHere
<1>8. PersistCovers'
  BY <1>0, <1>m DEF PersistCovers, NothingFromTheFuture, AheadOrDone, TypeOK, MintedHere
<1> QED
  BY <1>1, <1>2, <1>3, <1>4, <1>5, <1>6, <1>7, <1>8

\* A deletion makes nothing missing.
LEMMA DeleteStep == ASSUME TypeOK, TypeOK', SyncInv, NEW key \in Keys, DeleteIssue(key) PROVE SyncInv'
<1> USE Numbers, Order DEF SyncInv, DeleteIssue
<1>0. /\ jira'[key] = 0
      /\ \A k \in Keys : k # key => jira'[k] = jira[k]
      /\ rev' = rev /\ local' = local /\ meta' = meta /\ run' = run
  BY DEF TypeOK
<1>1. NothingFromTheFuture'
  BY <1>0 DEF NothingFromTheFuture
<1>2. TokensMatchStoredQuery'
  BY <1>0 DEF TokensMatchStoredQuery
<1>m. \A q \in Queries : \A k \in Missing(q)' :
        k \in Missing(q) /\ jira'[k] = jira[k]
  BY <1>0 DEF Missing
<1>3. WatermarkCovers'
  BY <1>0, <1>m DEF WatermarkCovers, Ahead, TypeOK, MetaType, QueriesOrNone
<1>4. TokenCovers'
  BY <1>0, <1>m DEF TokenCovers, Ahead, TypeOK, MetaType, QueriesOrNone
<1>5. Stages' /\ SweepStart'
  BY <1>0 DEF Stages, SweepStart, Sweeping
<1>6. FetchCovers'
  BY <1>0, <1>m DEF FetchCovers, Ahead, TypeOK, Served
<1>7. PageCovers'
  BY <1>0, <1>m DEF PageCovers, AheadOrDone, TypeOK, MintedHere
<1>8. PersistCovers'
  BY <1>0, <1>m DEF PersistCovers, AheadOrDone, TypeOK, MintedHere
<1> QED
  BY <1>1, <1>2, <1>3, <1>4, <1>5, <1>6, <1>7, <1>8

\* A step that changes nothing but the stage of a run outside its sweep.
LEMMA StageStep ==
    ASSUME TypeOK, TypeOK', SyncInv, UNCHANGED <<jira, rev, local, meta>>,
           run'.pc \in {"idle", "clear", "checkQuery", "setQuery", "finish"},
           run'.newest <= StampOf[rev], run'.page = [k \in Keys |-> 0], Stages'
    PROVE  SyncInv'
<1> USE Numbers, Order DEF SyncInv
<1>1. NothingFromTheFuture'
  BY DEF NothingFromTheFuture
<1>2. TokensMatchStoredQuery' /\ WatermarkCovers' /\ TokenCovers'
  BY DEF TokensMatchStoredQuery, WatermarkCovers, TokenCovers, Ahead, Missing
<1>3. SweepStart' /\ FetchCovers' /\ PageCovers' /\ PersistCovers'
  BY DEF SweepStart, FetchCovers, PageCovers, PersistCovers, Sweeping
<1> QED
  BY <1>1, <1>2, <1>3

\* A run that ends, for whatever reason, leaves the invariant as it was.
LEMMA IdleStep ==
    ASSUME TypeOK, TypeOK', SyncInv, UNCHANGED <<jira, rev, local, meta>>,
           run' = Idle
    PROVE  SyncInv'
<1>1. /\ run'.pc = "idle" /\ run'.newest = 0 /\ run'.page = [k \in Keys |-> 0]
      /\ run'.mode = "cli" /\ run'.next = "idle"
  BY DEF Idle
<1>2. Stages'
  BY <1>1 DEF SyncInv, Stages
<1>3. 0 <= StampOf[rev]
  BY Numbers, Order
<1> QED
  BY <1>1, <1>2, <1>3, StageStep

\* A background run or `jira sync` begins.
LEMMA StartStep ==
    ASSUME TypeOK, TypeOK', SyncInv, NEW m \in Modes \ {"full"}, Start(m)
    PROVE  SyncInv'
<1>1. /\ run'.pc = "checkQuery" /\ run'.mode = m /\ run'.next = "idle"
      /\ run'.newest = 0 /\ run'.page = [k \in Keys |-> 0] /\ run'.jql \in Queries
  BY DEF Start, Idle, TypeOK
<1>2. Stages'
  BY <1>1 DEF SyncInv, Stages, Start
<1>3. 0 <= StampOf[rev]
  BY Numbers, Order
<1> QED
  BY <1>1, <1>2, <1>3, StageStep DEF Start

\* _clear_tokens_if_query_changed decides.
LEMMA CheckStep == ASSUME TypeOK, TypeOK', SyncInv, CheckQuery PROVE SyncInv'
<1> USE DEF SyncInv, CheckQuery
<1>1. /\ run.newest <= StampOf[rev] /\ \A k \in Keys : run.page[k] = 0
  BY DEF NothingFromTheFuture
<1>2. run.page = [k \in Keys |-> 0]
  BY <1>1 DEF TypeOK, RunType
<1>3. CASE meta.jql \notin {NoQuery, run.jql}
  <2>1. /\ run'.pc = "clear" /\ run'.step = 1 /\ run'.next = "setQuery"
        /\ run'.jql = run.jql /\ run'.mode = run.mode
        /\ run'.newest = run.newest /\ run'.page = run.page
    BY <1>3 DEF TypeOK, RunType
  <2>2. Stages'
    BY <1>3, <2>1 DEF Stages, TypeOK
  <2> QED
    BY <1>1, <1>2, <2>1, <2>2, StageStep
<1>4. CASE meta.jql \in {NoQuery, run.jql}
  <2>1. /\ run'.pc = "setQuery" /\ run'.step = run.step /\ run'.next = run.next
        /\ run'.jql = run.jql /\ run'.mode = run.mode
        /\ run'.newest = run.newest /\ run'.page = run.page
    BY <1>4 DEF TypeOK, RunType
  <2>2. Stages'
    BY <1>4, <2>1 DEF Stages, TypeOK
  <2> QED
    BY <1>1, <1>2, <2>1, <2>2, StageStep
<1> QED
  BY <1>3, <1>4

\* One of its clearing writes: the watermark goes first, so every later state
\* promises nothing.
LEMMA ClearStep == ASSUME TypeOK, TypeOK', SyncInv, ClearOne PROVE SyncInv'
<1> USE Numbers, Order DEF SyncInv, ClearOne
<1>0. run.step \in 1..5 /\ run.next = "setQuery" /\ run.jql \in Queries
  BY DEF Stages, TypeOK
<1>1. /\ run'.jql = run.jql /\ run'.mode = run.mode /\ run'.next = run.next
      /\ run'.newest = run.newest /\ run'.page = run.page
      /\ IF run.step < 5 THEN run'.pc = "clear" /\ run'.step = run.step + 1
                         ELSE run'.pc = "setQuery"
  BY <1>0 DEF TypeOK, RunType
<1>2. /\ meta'.jql = meta.jql
      /\ meta'.wm     = IF run.step = 1 THEN 0 ELSE meta.wm
      /\ meta'.done   = IF run.step = 2 THEN FALSE ELSE meta.done
      /\ meta'.bfTok  = IF run.step = 3 THEN NoToken ELSE meta.bfTok
      /\ meta'.syTok  = IF run.step = 4 THEN NoToken ELSE meta.syTok
      /\ meta'.newest = IF run.step = 5 THEN 0 ELSE meta.newest
  BY DEF TypeOK, MetaType, Cleared
<1> HIDE DEF ClearOne
<1>u. run.pc = "clear" /\ UNCHANGED <<jira, rev, local>>
  BY DEF ClearOne
<1>3. NothingFromTheFuture'
  BY <1>1, <1>2, <1>u DEF NothingFromTheFuture
<1>4. TokensMatchStoredQuery'
  BY <1>2 DEF TokensMatchStoredQuery
<1>5. Stages'
  BY <1>0, <1>1, <1>2, <1>u DEF Stages
<1>6. WatermarkCovers'
  BY <1>0, <1>2, <1>u DEF WatermarkCovers, Stages, Ahead, Missing, TypeOK, MetaType, QueriesOrNone
<1>7. TokenCovers'
  BY <1>0, <1>2, <1>u DEF TokenCovers, Stages, Ahead, Missing, TypeOK, MetaType, QueriesOrNone
<1>8. SweepStart' /\ FetchCovers' /\ PageCovers' /\ PersistCovers'
  BY <1>1 DEF SweepStart, FetchCovers, PageCovers, PersistCovers, Sweeping
<1> QED
  BY <1>3, <1>4, <1>5, <1>6, <1>7, <1>8

\* The query is recorded only once nothing of another query is left.
LEMMA SetStep == ASSUME TypeOK, TypeOK', SyncInv, SetQuery PROVE SyncInv'
<1> USE Numbers, Order DEF SyncInv, SetQuery
<1>1. /\ run'.pc = "resolve" /\ run'.jql = run.jql /\ run'.mode = run.mode
      /\ run'.next = run.next /\ run'.newest = run.newest /\ run'.page = run.page
  BY DEF TypeOK, RunType
<1>2. /\ meta'.jql = run.jql /\ meta'.wm = meta.wm /\ meta'.done = meta.done
      /\ meta'.bfTok = meta.bfTok /\ meta'.syTok = meta.syTok
      /\ meta'.newest = meta.newest
  BY DEF TypeOK, MetaType
<1> HIDE DEF SetQuery
<1>u. run.pc = "setQuery" /\ run.jql \in Queries /\ UNCHANGED <<jira, rev, local>>
  BY DEF SetQuery, TypeOK
<1>3. NothingFromTheFuture'
  BY <1>1, <1>2, <1>u DEF NothingFromTheFuture
<1>4. TokensMatchStoredQuery'
  BY <1>2, <1>u DEF TokensMatchStoredQuery, Stages
<1>5. Stages'
  BY <1>1, <1>2, <1>u, SyncAssumption DEF Stages, SyncAssumption
<1>6. WatermarkCovers'
  BY <1>2, <1>u DEF WatermarkCovers, Stages, Ahead, Missing
<1>7. TokenCovers'
  BY <1>2, <1>u DEF TokenCovers, Stages, Ahead, Missing
<1>8. SweepStart' /\ FetchCovers' /\ PageCovers' /\ PersistCovers'
  BY <1>1 DEF SweepStart, FetchCovers, PageCovers, PersistCovers, Sweeping
<1> QED
  BY <1>3, <1>4, <1>5, <1>6, <1>7, <1>8

\* Retention removes only rows that are not missed.
LEMMA PruneStep == ASSUME TypeOK, TypeOK', SyncInv, Prune PROVE SyncInv'
<1> USE Numbers, Order DEF SyncInv
<1>1. /\ run'.pc = "idle" /\ run'.newest = 0 /\ run'.page = [k \in Keys |-> 0]
      /\ run'.mode = "cli" /\ run'.next = "idle"
  BY DEF Prune, Idle
<1>u. UNCHANGED <<jira, rev, meta>>
  BY DEF Prune
<1>l. local' = [k \in Keys |-> IF StampOf[local[k]] < Cutoff THEN 0 ELSE local[k]]
  BY DEF Prune
<1>2. /\ UNCHANGED <<jira, rev, meta>>
      /\ \A k \in Keys : \/ local'[k] = local[k]
                         \/ StampOf[local[k]] < Cutoff /\ local'[k] = 0
  BY <1>u, <1>l
<1>3. NothingFromTheFuture'
  BY <1>1, <1>2 DEF NothingFromTheFuture
<1>m. \A q \in Queries : \A k \in Missing(q)' : k \in Missing(q)
  BY <1>2 DEF Missing
<1>4. TokensMatchStoredQuery'
  BY <1>2 DEF TokensMatchStoredQuery
<1>5. Stages'
  BY <1>1, <1>2 DEF Stages
<1>6. WatermarkCovers'
  BY <1>m, <1>2 DEF WatermarkCovers, Ahead, TypeOK, MetaType, QueriesOrNone
<1>7. TokenCovers'
  BY <1>m, <1>2 DEF TokenCovers, Ahead, TypeOK, MetaType, QueriesOrNone
<1>8. SweepStart' /\ FetchCovers' /\ PageCovers' /\ PersistCovers'
  BY <1>1 DEF SweepStart, FetchCovers, PageCovers, PersistCovers, Sweeping
<1> QED
  BY <1>3, <1>4, <1>5, <1>6, <1>7, <1>8

\* The resume point covers what the saved state covered.
LEMMA ResolveStep == ASSUME TypeOK, TypeOK', SyncInv, Resolve PROVE SyncInv'
<1> USE Numbers, Order DEF SyncInv
<1>u. /\ run.pc = "resolve" /\ UNCHANGED <<jira, rev, local, meta>>
      /\ run.jql \in Queries /\ meta.jql = run.jql /\ run.mode # "full"
      /\ meta.jql # NoQuery
  BY SyncAssumption DEF Resolve, TypeOK, Stages, SyncAssumption
<1>p. \A k \in Keys : run.page[k] = 0
  BY <1>u DEF NothingFromTheFuture
<1>1. /\ run'.pc = "fetch" /\ run'.jql = run.jql /\ run'.mode = run.mode
      /\ run'.next = run.next /\ run'.page = run.page
      /\ run'.inc = meta.done
      /\ run'.token = IF meta.done THEN meta.syTok ELSE meta.bfTok
      /\ run'.floor = IF meta.done THEN MinuteOf[meta.wm] ELSE 0
      /\ run'.newest = IF meta.done THEN Later(meta.wm, meta.newest) ELSE meta.wm
  <2>1. CASE meta.done
    <3>1. meta.done = TRUE
      BY <2>1 DEF TypeOK, MetaType
    <3>2. run' = [run EXCEPT !.pc = "fetch", !.inc = TRUE,
                    !.floor = MinuteOf[meta.wm], !.wasDone = meta.done,
                    !.token = meta.syTok, !.held = meta.syTok # NoToken,
                    !.newest = Later(meta.wm, meta.newest)]
      BY <1>u, <2>1 DEF Resolve
    <3> QED
      BY <1>u, <2>1, <3>1, <3>2 DEF TypeOK, RunType
  <2>2. CASE ~meta.done
    <3>1. meta.done = FALSE
      BY <2>2 DEF TypeOK, MetaType
    <3>2. run' = [run EXCEPT !.pc = "fetch", !.inc = FALSE, !.floor = 0,
                    !.wasDone = meta.done, !.token = meta.bfTok,
                    !.held = meta.bfTok # NoToken, !.newest = meta.wm]
      BY <1>u, <2>2 DEF Resolve
    <3> QED
      BY <1>u, <2>2, <3>1, <3>2 DEF TypeOK, RunType
  <2> QED
    BY <2>1, <2>2
<1>3. NothingFromTheFuture'
  BY <1>1, <1>u, <1>p DEF NothingFromTheFuture, Later
<1>4. TokensMatchStoredQuery' /\ WatermarkCovers' /\ TokenCovers'
  BY <1>u DEF TokensMatchStoredQuery, WatermarkCovers, TokenCovers, Ahead, Missing
<1>5. Stages'
  BY <1>1, <1>u DEF Stages
<1>6. SweepStart'
  BY <1>1, <1>u DEF SweepStart, Sweeping, Later, TypeOK, MetaType
<1>7. FetchCovers'
  BY <1>1, <1>u DEF FetchCovers, Served, WatermarkCovers, TokenCovers, Ahead, Missing, Later
<1>8. PageCovers' /\ PersistCovers'
  BY <1>1 DEF PageCovers, PersistCovers
<1> QED
  BY <1>3, <1>4, <1>5, <1>6, <1>7, <1>8

\* Without its token a phase starts from the first page.
LEMMA RejectStep == ASSUME TypeOK, TypeOK', SyncInv, TokenRejected PROVE SyncInv'
<1> USE Numbers, Order DEF SyncInv
<1>u. /\ run.pc = "fetch" /\ UNCHANGED <<jira, rev, local>>
      /\ run.jql \in Queries /\ meta.jql = run.jql /\ run.mode # "full"
  BY DEF TokenRejected, TypeOK, Stages
<1>1. /\ run'.pc = "fetch" /\ run'.jql = run.jql /\ run'.mode = run.mode
      /\ run'.next = run.next /\ run'.page = run.page /\ run'.inc = run.inc
      /\ run'.token = NoToken /\ run'.floor = run.floor /\ run'.newest = run.newest
  BY <1>u DEF TokenRejected, TypeOK, RunType
<1>2. /\ meta'.jql = meta.jql /\ meta'.wm = meta.wm /\ meta'.done = meta.done
      /\ meta'.newest = meta.newest
      /\ meta'.syTok = IF run.inc THEN NoToken ELSE meta.syTok
      /\ meta'.bfTok = IF run.inc THEN meta.bfTok ELSE NoToken
  BY DEF TokenRejected, TypeOK, MetaType
<1>3. NothingFromTheFuture'
  BY <1>1, <1>2, <1>u DEF NothingFromTheFuture
<1>4. TokensMatchStoredQuery'
  BY <1>2 DEF TokensMatchStoredQuery
<1>5. WatermarkCovers' /\ TokenCovers'
  BY <1>2, <1>u DEF WatermarkCovers, TokenCovers, Ahead, Missing, TypeOK, MetaType, QueriesOrNone
<1>6. Stages'
  BY <1>1, <1>2, <1>u DEF Stages
<1>7. SweepStart'
  BY <1>1, <1>2, <1>u DEF SweepStart, Sweeping
<1>8. FetchCovers'
  BY <1>1, <1>2, <1>u DEF FetchCovers, SweepStart, Sweeping, Ahead, Missing
<1>9. PageCovers' /\ PersistCovers'
  BY <1>1 DEF PageCovers, PersistCovers
<1> QED
  BY <1>3, <1>4, <1>5, <1>6, <1>7, <1>8, <1>9

\* A missing issue that is not newer than all the run has seen is among the
\* results of the next request.
LEMMA MissingIsNext ==
    ASSUME TypeOK, SyncInv, run.pc = "fetch", Served,
           NEW k \in Missing(run.jql), Ahead(k, run.token)
    PROVE  k \in Results
<1> USE Numbers, Order DEF SyncInv
<1>1. /\ run.jql \in Queries /\ meta.jql = run.jql /\ meta.jql # NoQuery
      /\ k \in Match[run.jql] /\ k \in Keys /\ jira[k] # 0
  BY SyncAssumption DEF TypeOK, Stages, SyncAssumption, Missing
<1>2. jira[k] < Position
  BY <1>1 DEF Position, Ahead, Revs
<1>3. StampOf[jira[k]] >= run.floor
  BY <1>1 DEF SweepStart, Sweeping, WatermarkCovers
<1> QED
  BY <1>1, <1>2, <1>3 DEF Results

\* An empty page: nothing missing is left that is not newer.
LEMMA NothingStep == ASSUME TypeOK, TypeOK', SyncInv, FetchNothing PROVE SyncInv'
<1> USE Numbers, Order DEF SyncInv
<1>u. /\ run.pc = "fetch" /\ UNCHANGED <<jira, rev, local, meta>>
      /\ run.jql \in Queries /\ meta.jql = run.jql /\ run.mode # "full"
      /\ Served /\ Results = {}
  BY DEF FetchNothing, TypeOK, Stages
<1>1. /\ run'.pc = "persist" /\ run'.jql = run.jql /\ run'.mode = run.mode
      /\ run'.next = run.next /\ run'.page = run.page /\ run'.inc = run.inc
      /\ run'.token = run.token /\ run'.floor = run.floor
      /\ run'.newest = run.newest /\ run'.step = 1 /\ run'.exhausted = TRUE
  BY <1>u DEF FetchNothing, TypeOK, RunType
<1>3. NothingFromTheFuture'
  BY <1>1, <1>u DEF NothingFromTheFuture
<1>4. TokensMatchStoredQuery' /\ WatermarkCovers' /\ TokenCovers'
  BY <1>u DEF TokensMatchStoredQuery, WatermarkCovers, TokenCovers, Ahead, Missing
<1>5. Stages'
  BY <1>1, <1>u DEF Stages
<1>6. SweepStart'
  BY <1>1, <1>u DEF SweepStart, Sweeping
<1>7. FetchCovers' /\ PageCovers'
  BY <1>1 DEF FetchCovers, PageCovers
<1>m. \A k \in Missing(run.jql) : StampOf[jira[k]] >= run.newest
  BY <1>u, MissingIsNext DEF FetchCovers
<1>8. PersistCovers'
  BY <1>1, <1>u, <1>m DEF PersistCovers, Missing
<1> QED
  BY <1>3, <1>4, <1>5, <1>6, <1>7, <1>8

\* A page and its next token split what is missing.
LEMMA FetchStep == ASSUME TypeOK, TypeOK', SyncInv, FetchPage PROVE SyncInv'
<1> USE Numbers, Order DEF SyncInv
<1>u. /\ run.pc = "fetch" /\ UNCHANGED <<jira, rev, local, meta>>
      /\ run.jql \in Queries /\ meta.jql = run.jql /\ run.mode # "full"
      /\ Served
  BY DEF FetchPage, TypeOK, Stages
<1> DEFINE
      page(S) == [k \in Keys |-> IF k \in S THEN jira[k] ELSE 0]
      after(S, last) == IF S = Results THEN NoToken
                        ELSE [query |-> run.jql, floor |-> run.floor,
                              pos |-> jira[last]]
<1>a. PICK S \in SUBSET Results : \E last \in S :
         /\ IsPage(S)
         /\ \A k \in S : jira[last] <= jira[k]
         /\ run' = [run EXCEPT !.pc = "store", !.page = page(S),
                               !.after = after(S, last)]
  BY DEF FetchPage
<1>b. PICK last \in S :
         /\ IsPage(S)
         /\ \A k \in S : jira[last] <= jira[k]
         /\ run' = [run EXCEPT !.pc = "store", !.page = page(S),
                               !.after = after(S, last)]
  BY <1>a
<1>s. /\ \A k \in S : k \in Keys /\ jira[k] # 0 /\ jira[k] < Position
      /\ \A k \in Results \ S : jira[k] < jira[last]
  BY <1>u, <1>b DEF Results, IsPage
<1> HIDE DEF page, after
<1>1. /\ run'.pc = "store" /\ run'.jql = run.jql /\ run'.mode = run.mode
      /\ run'.next = run.next /\ run'.inc = run.inc
      /\ run'.token = run.token /\ run'.floor = run.floor
      /\ run'.newest = run.newest
      /\ run'.page = page(S) /\ run'.after = after(S, last)
  BY <1>b DEF TypeOK, RunType
<1>g. \A k \in Keys : run'.page[k] = IF k \in S THEN jira[k] ELSE 0
  BY <1>1 DEF page
<1>t. IF S = Results
        THEN run'.after = NoToken
        ELSE /\ run'.after # NoToken /\ run'.after.query = run.jql
             /\ run'.after.floor = run.floor /\ run'.after.pos = jira[last]
  <2>1. last \in Keys /\ jira[last] \in 1..MaxRev
    BY <1>b, <1>s DEF Revs
  <2>2. [query |-> run.jql, floor |-> run.floor, pos |-> jira[last]] \in Tokens
    BY <1>u, <2>1 DEF Tokens, TypeOK, RunType
  <2> QED
    BY <1>1, <2>2, SyncAssumption DEF after, SyncAssumption
<1>3. NothingFromTheFuture'
  BY <1>1, <1>g, <1>u DEF NothingFromTheFuture
<1>4. TokensMatchStoredQuery' /\ WatermarkCovers' /\ TokenCovers'
  BY <1>u DEF TokensMatchStoredQuery, WatermarkCovers, TokenCovers, Ahead, Missing
<1>5. Stages'
  BY <1>1, <1>u DEF Stages
<1>6. SweepStart'
  BY <1>1, <1>u DEF SweepStart, Sweeping
<1>7. FetchCovers' /\ PersistCovers'
  BY <1>1 DEF FetchCovers, PersistCovers
<1>8. PageCovers'
  <2>1. MintedHere(run.after)'
    BY <1>1, <1>t, <1>u DEF MintedHere
  <2>2. ASSUME ~run'.inc, meta'.bfTok # NoToken, run'.after # NoToken
        PROVE  run'.after.pos <= meta'.bfTok.pos
    <3>1. run.token # NoToken /\ run.token.pos <= meta.bfTok.pos
      BY <1>1, <1>u, <2>2 DEF FetchCovers
    <3>2. jira[last] < run.token.pos
      BY <1>b, <1>s, <3>1 DEF Position
    <3> QED
      BY <1>s, <1>t, <1>u, <1>b, <2>2, <3>1, <3>2
  <2>3. ASSUME NEW k \in Missing(run.jql)
        PROVE  \/ run'.page[k] = jira[k]
               \/ AheadOrDone(k, run.after)'
               \/ /\ StampOf[jira[k]] >= run.newest
                  /\ \A l \in Keys : run'.page[l] <= jira[k]
    <3>1. k \in Keys
      BY <1>u DEF Missing
    <3>2. CASE k \in Results
      BY <1>g, <1>s, <1>t, <1>u, <3>1, <3>2 DEF AheadOrDone
    <3>3. CASE k \notin Results
      <4>1. ~Ahead(k, run.token) /\ StampOf[jira[k]] >= run.newest
        BY <1>u, <3>3, MissingIsNext DEF FetchCovers
      <4>2. jira[k] >= Position
        BY <3>1, <4>1 DEF Ahead, Position
      <4>3. Position \in Nat
        BY DEF Position
      <4> QED
        BY <1>g, <1>s, <3>1, <4>1, <4>2, <4>3
    <3> QED
      BY <3>2, <3>3
  <2> QED
    BY <1>1, <1>u, <2>1, <2>2, <2>3 DEF PageCovers, Missing
<1> QED
  BY <1>3, <1>4, <1>5, <1>6, <1>7, <1>8

\* Storing a page leaves missing what is behind its token or newer than it.
LEMMA StoreStep == ASSUME TypeOK, TypeOK', SyncInv, StorePage PROVE SyncInv'
<1> USE Numbers, Order DEF SyncInv
<1>u. /\ run.pc = "store" /\ UNCHANGED <<jira, rev, meta>>
      /\ run.jql \in Queries /\ meta.jql = run.jql /\ run.mode # "full"
  BY DEF StorePage, TypeOK, Stages
<1>a. PICK n \in Stamps :
        /\ IsNewest(n, run.page)
        /\ run' = [run EXCEPT
                      !.pc = IF run.after # NoToken /\ run.pages + 1 < MaxPages
                               THEN "fetch" ELSE "persist",
                      !.step = 1,
                      !.page = [k \in Keys |-> 0],
                      !.after = NoToken,
                      !.token = run.after,
                      !.newest = n,
                      !.pages = @ + 1,
                      !.exhausted = run.after = NoToken,
                      !.seen = @ \cup {k \in Keys : run.page[k] # 0}]
  BY DEF StorePage
<1>1. /\ run'.pc \in {"fetch", "persist"}
      /\ run.after = NoToken => run'.pc = "persist"
      /\ run'.jql = run.jql /\ run'.mode = run.mode /\ run'.next = run.next
      /\ run'.inc = run.inc /\ run'.floor = run.floor /\ run'.step = 1
      /\ run'.page = [k \in Keys |-> 0] /\ run'.token = run.after
      /\ run'.newest = n /\ (run'.exhausted <=> run.after = NoToken)
  <2> DEFINE more == run.after # NoToken /\ run.pages + 1 < MaxPages
             found == run.seen \cup {k \in Keys : run.page[k] # 0}
             count == run.pages + 1
             last == run.after = NoToken
             blank == [k \in Keys |-> 0]
  <2> HIDE DEF more, found, count, last, blank
  <2>1. run' = [run EXCEPT
                      !.pc = IF more THEN "fetch" ELSE "persist",
                      !.step = 1,
                      !.page = blank,
                      !.after = NoToken,
                      !.token = run.after,
                      !.newest = n,
                      !.pages = count,
                      !.exhausted = last,
                      !.seen = found]
    BY <1>a DEF more, found, count, last, blank
  <2>2. run'.pc = IF more THEN "fetch" ELSE "persist"
    BY <2>1 DEF TypeOK, RunType
  <2>3. /\ run'.jql = run.jql /\ run'.mode = run.mode
        /\ run'.next = run.next /\ run'.inc = run.inc
    BY <2>1 DEF TypeOK, RunType
  <2>5. run'.floor = run.floor /\ run'.step = 1
    BY <2>1 DEF TypeOK, RunType
  <2>6. run'.page = blank /\ run'.token = run.after
    BY <2>1 DEF TypeOK, RunType
  <2>7. run'.newest = n
    BY <2>1 DEF TypeOK, RunType
  <2>4. run'.exhausted = last
    BY <2>1 DEF TypeOK, RunType
  <2> QED
    BY <2>2, <2>3, <2>4, <2>5, <2>6, <2>7 DEF more, last, blank
<1>n. /\ n \in Nat /\ n >= run.newest /\ n <= StampOf[rev]
      /\ n = run.newest \/ \E l \in Keys : n = StampOf[run.page[l]]
  <2>1. \A l \in Keys : StampOf[run.page[l]] \in Stamps
    BY StampAssumption DEF StampAssumption
  <2> QED
    BY <1>a, <2>1, Elements DEF IsNewest, PageNewest, NothingFromTheFuture
<1>2. \A k \in Keys : local'[k] = IF run.page[k] # 0 THEN run.page[k] ELSE local[k]
  BY DEF StorePage
<1>m. \A k \in Missing(run.jql)' :
        \/ AheadOrDone(k, run.after)
        \/ StampOf[jira[k]] >= n
  <2> SUFFICES ASSUME NEW k \in Missing(run.jql)', ~AheadOrDone(k, run.after)
               PROVE  StampOf[jira[k]] >= n
    OBVIOUS
  <2>1. k \in Keys /\ jira[k] # 0 /\ local'[k] # jira[k] /\ k \in Match[run.jql]
        /\ StampOf[jira[k]] >= Cutoff
    BY <1>u, <1>1 DEF Missing
  <2>2. k \in Missing(run.jql) /\ run.page[k] # jira[k]
    BY <1>u, <1>2, <2>1 DEF NothingFromTheFuture, Missing
  <2>3. StampOf[jira[k]] >= run.newest /\ \A l \in Keys : run.page[l] <= jira[k]
    BY <1>u, <2>2 DEF PageCovers
  <2> QED
    BY <1>n, <2>1, <2>3
<1>3. NothingFromTheFuture'
  BY <1>1, <1>2, <1>n, <1>u DEF NothingFromTheFuture
<1>k. \A k \in Missing(run.jql)' : k \in Missing(run.jql)
  BY <1>1, <1>2, <1>u DEF Missing, NothingFromTheFuture
<1>4. TokensMatchStoredQuery' /\ WatermarkCovers' /\ TokenCovers'
  BY <1>u, <1>k, <1>1 DEF TokensMatchStoredQuery, WatermarkCovers, TokenCovers, Ahead
<1>5. Stages'
  BY <1>1, <1>u DEF Stages
<1>6. SweepStart'
  BY <1>1, <1>n, <1>u DEF SweepStart, Sweeping
<1>7. FetchCovers'
  BY <1>1, <1>m, <1>u DEF FetchCovers, PageCovers, Ahead, AheadOrDone
<1>8. PersistCovers'
  BY <1>1, <1>m, <1>u DEF PersistCovers, PageCovers, AheadOrDone, MintedHere
<1>9. PageCovers'
  BY <1>1 DEF PageCovers
<1> QED
  BY <1>3, <1>4, <1>5, <1>6, <1>7, <1>8, <1>9

\* Each of the three progress writes keeps what the others promise.
LEMMA PersistStep == ASSUME TypeOK, TypeOK', SyncInv, Persist PROVE SyncInv'
<1> USE Numbers, Order DEF SyncInv
<1>u. /\ run.pc = "persist" /\ UNCHANGED <<jira, rev, local>>
      /\ run.jql \in Queries /\ meta.jql = run.jql /\ run.mode # "full"
      /\ run.step \in 1..3 /\ meta.jql # NoQuery
  BY SyncAssumption DEF Persist, TypeOK, Stages, PersistCovers, SyncAssumption
<1>1. /\ run'.pc = IF run.step < 3 THEN "persist" ELSE "finish"
      /\ run'.jql = run.jql /\ run'.mode = run.mode /\ run'.next = run.next
      /\ run'.page = run.page /\ run'.inc = run.inc /\ run'.token = run.token
      /\ run'.floor = run.floor /\ run'.newest = run.newest
      /\ run'.exhausted = run.exhausted
      /\ run.step < 3 => run'.step = run.step + 1
  BY <1>u DEF Persist, TypeOK, RunType
<1>2. /\ meta'.jql = meta.jql
      /\ meta'.wm = IF /\ run.step = 1 /\ run.newest # 0
                       /\ ~run.inc \/ run.exhausted
                      THEN run.newest ELSE meta.wm
      /\ meta'.done = IF ~run.inc /\ run.step = 2 /\ run.exhausted
                        THEN TRUE ELSE meta.done
      /\ meta'.bfTok = IF ~run.inc /\ run.step = 3
                         THEN (IF run.exhausted THEN NoToken ELSE run.token)
                         ELSE meta.bfTok
      /\ meta'.syTok = IF run.inc /\ run.step = 2
                         THEN (IF run.exhausted THEN NoToken ELSE run.token)
                         ELSE meta.syTok
      /\ meta'.newest = IF run.inc /\ run.step = 3
                          THEN (IF run.exhausted THEN 0 ELSE run.newest)
                          ELSE meta.newest
  <2>1. CASE run.inc /\ run.exhausted
    BY <1>u, <2>1 DEF Persist, IncrementalWrite, TypeOK, MetaType
  <2>2. CASE run.inc /\ ~run.exhausted
    BY <1>u, <2>2 DEF Persist, IncrementalWrite, TypeOK, MetaType
  <2>3. CASE ~run.inc
    BY <1>u, <2>3 DEF Persist, BackfillWrite, TypeOK, MetaType
  <2> QED
    BY <2>1, <2>2, <2>3
<1>w. /\ meta'.wm <= run.newest
      /\ run.step = 1 /\ (~run.inc \/ run.exhausted) => meta'.wm = run.newest
  BY <1>u, <1>2 DEF SweepStart, Sweeping
<1>3. NothingFromTheFuture'
  BY <1>1, <1>2, <1>u DEF NothingFromTheFuture
<1>4. TokensMatchStoredQuery'
  BY <1>2, <1>u DEF TokensMatchStoredQuery, PersistCovers, MintedHere
<1>5. Stages'
  BY <1>1, <1>2, <1>u DEF Stages
<1>6. SweepStart'
  BY <1>1, <1>2, <1>w, <1>u DEF SweepStart, Sweeping
<1>7. FetchCovers' /\ PageCovers'
  BY <1>1 DEF FetchCovers, PageCovers
<1>m. \A k \in Keys : (k \in Missing(run.jql))' <=> k \in Missing(run.jql)
  BY <1>1, <1>u DEF Missing
<1>8. WatermarkCovers'
  <2> SUFFICES ASSUME NEW k \in Missing(run.jql)
               PROVE  \/ ~meta'.done /\ (meta'.bfTok = NoToken
                                         \/ jira[k] < meta'.bfTok.pos)
                      \/ StampOf[jira[k]] >= meta'.wm
    BY <1>1, <1>2, <1>m, <1>u DEF WatermarkCovers, Ahead, Missing
  <2>1. k \in Keys /\ jira[k] \in Revs
    BY <1>u DEF Missing
  <2>2. \/ ~run.exhausted /\ AheadOrDone(k, run.token)
        \/ StampOf[jira[k]] >= run.newest
    BY <1>u DEF PersistCovers
  <2>3. \/ ~meta.done /\ Ahead(k, meta.bfTok)
        \/ StampOf[jira[k]] >= meta.wm
    BY <1>u DEF WatermarkCovers
  <2>4. CASE StampOf[jira[k]] >= run.newest
    <3>1. meta'.wm \in Nat /\ StampOf[jira[k]] \in Nat
      BY <1>2, <2>1
    <3> QED
      BY <1>w, <2>4, <3>1
  <2>5. CASE ~run.exhausted /\ AheadOrDone(k, run.token)
    <3>1. CASE run.inc
      <4>1. meta'.wm = meta.wm
        BY <1>2, <2>5, <3>1
      <4>2. meta.done
        BY <1>u, <3>1 DEF SweepStart, Sweeping
      <4> QED
        BY <2>3, <4>1, <4>2
    <3>2. CASE ~run.inc
      BY <1>2, <1>u, <2>1, <2>3, <2>5, <3>2
      DEF SweepStart, Sweeping, PersistCovers, AheadOrDone, Ahead
    <3> QED
      BY <3>1, <3>2
  <2> QED
    BY <2>2, <2>4, <2>5
<1>9. TokenCovers'
  <2> SUFFICES ASSUME NEW k \in Missing(run.jql)
               PROVE  \/ meta'.syTok = NoToken \/ jira[k] < meta'.syTok.pos
                      \/ StampOf[jira[k]] >= meta'.newest
    BY <1>1, <1>2, <1>m, <1>u DEF TokenCovers, Ahead, Missing
  <2>1. k \in Keys /\ jira[k] \in Revs
    BY <1>u DEF Missing
  <2>2. \/ ~run.exhausted /\ AheadOrDone(k, run.token)
        \/ StampOf[jira[k]] >= run.newest
    BY <1>u DEF PersistCovers
  <2>3. Ahead(k, meta.syTok) \/ StampOf[jira[k]] >= meta.newest
    BY <1>u DEF TokenCovers
  <2> QED
    BY <1>2, <1>u, <2>1, <2>2, <2>3
    DEF PersistCovers, SweepStart, Sweeping, AheadOrDone, Ahead
<1>10. PersistCovers'
  BY <1>1, <1>2, <1>m, <1>u, <1>w
  DEF PersistCovers, AheadOrDone, MintedHere, SweepStart, Sweeping, Missing
<1> QED
  BY <1>3, <1>4, <1>5, <1>6, <1>7, <1>8, <1>9, <1>10

\* Init establishes the invariant.
LEMMA InvInit == Init => SyncInv
<1> SUFFICES ASSUME Init PROVE SyncInv
  OBVIOUS
<1> USE TypeInit, Numbers, Order DEF SyncInv
<1>1. /\ meta.wm = 0 /\ ~meta.done /\ meta.bfTok = NoToken
      /\ meta.syTok = NoToken /\ meta.newest = 0 /\ meta.jql = NoQuery
      /\ \A k \in Keys : local[k] = 0 /\ jira[k] <= rev
  BY DEF Init, TypeOK
<1>2. /\ run.pc = "idle" /\ run.mode = "cli" /\ run.next = "idle"
      /\ run.newest = 0 /\ \A k \in Keys : run.page[k] = 0
  BY DEF Init, Idle
<1>3. NothingFromTheFuture
  BY <1>1, <1>2 DEF NothingFromTheFuture
<1>4. TokensMatchStoredQuery /\ WatermarkCovers /\ TokenCovers
  BY <1>1 DEF TokensMatchStoredQuery, WatermarkCovers, TokenCovers
<1>5. Stages /\ SweepStart /\ FetchCovers /\ PageCovers /\ PersistCovers
  BY <1>1, <1>2
  DEF Stages, SweepStart, Sweeping, FetchCovers, PageCovers, PersistCovers
<1> QED
  BY <1>3, <1>4, <1>5

\* Without `--full` runs every step keeps it.
LEMMA InvStep ==
    ASSUME "full" \notin Modes, TypeOK, TypeOK', SyncInv, [Next]_vars
    PROVE  SyncInv'
<1>1. ASSUME NEW k \in Keys, EditIssue(k) \/ DeleteIssue(k) PROVE SyncInv'
  BY <1>1, EditStep, DeleteStep
<1>2. ASSUME NEW q \in Queries, EditQuery(q) PROVE SyncInv'
  BY <1>2
  DEF EditQuery, SyncInv, NothingFromTheFuture, TokensMatchStoredQuery,
      WatermarkCovers, TokenCovers, Stages, SweepStart, Sweeping, FetchCovers,
      PageCovers, PersistCovers, Missing, Ahead, AheadOrDone, MintedHere, Served
<1>3. ASSUME NEW m \in Modes, Start(m) PROVE SyncInv'
  BY <1>3, StartStep
<1>4. CASE RequestFails \/ Crash \/ FinishCli
  BY <1>4, IdleStep DEF RequestFails, Crash, FinishCli
<1>5. CASE \/ ResumeSweep \/ ResetForSweep \/ OpenSweep \/ KeepSweep
           \/ DeleteUnseen \/ CloseSweep
  BY <1>5
  DEF ResumeSweep, ResetForSweep, OpenSweep, KeepSweep, DeleteUnseen,
      CloseSweep, SyncInv, Stages
<1>6. CASE ClearOne \/ CheckQuery \/ SetQuery \/ Resolve \/ Prune
  BY <1>6, ClearStep, CheckStep, SetStep, ResolveStep, PruneStep
<1>7. CASE FetchPage \/ FetchNothing \/ TokenRejected \/ StorePage \/ Persist
  BY <1>7, FetchStep, NothingStep, RejectStep, StoreStep, PersistStep
<1>8. CASE UNCHANGED vars
  BY <1>8
  DEF vars, SyncInv, NothingFromTheFuture, TokensMatchStoredQuery,
      WatermarkCovers, TokenCovers, Stages, SweepStart, Sweeping, FetchCovers,
      PageCovers, PersistCovers, Missing, Ahead, AheadOrDone, MintedHere, Served
<1> QED
  BY <1>1, <1>2, <1>3, <1>4, <1>5, <1>6, <1>7, <1>8 DEF Next, Sync, Upstream

\* The inductive invariant holds in every reachable state.
THEOREM SyncInvCorrect == ASSUME "full" \notin Modes PROVE Spec => []SyncInv
<1>1. TypeOK /\ TypeOK' /\ SyncInv /\ [Next]_vars => SyncInv'
  BY InvStep
<1> QED
  BY <1>1, InvInit, TypeCorrect, PTL DEF Spec

\* No truncation, expiry, crash or query edit loses an issue (run_sync).
THEOREM NothingMissedCorrect ==
    ASSUME "full" \notin Modes PROVE Spec => []NothingMissed
<1>1. SyncInv => NothingMissed
  BY DEF SyncInv, WatermarkCovers, NothingMissed
<1> QED
  BY <1>1, SyncInvCorrect, PTL

\* No run pages a query with another's token (_clear_tokens_if_query_changed).
THEOREM TokensCorrect ==
    ASSUME "full" \notin Modes PROVE Spec => []TokensMatchStoredQuery
<1>1. SyncInv => TokensMatchStoredQuery
  BY DEF SyncInv
<1> QED
  BY <1>1, SyncInvCorrect, PTL

\* The watermark retreats only in a reset (_persist_incremental_progress and
\* _persist_backfill_progress never lower it).
THEOREM WatermarkCorrect ==
    ASSUME "full" \notin Modes PROVE Spec => WatermarkNeverRetreats
<1>1. ASSUME TypeOK, SyncInv, [Next]_vars, meta'.wm < meta.wm
      PROVE  run.pc = "clear" /\ meta'.wm = 0
  <2> USE Numbers, Elements
  <2>1. meta.wm \in Nat
    BY <1>1 DEF TypeOK, MetaType
  <2>2. CASE UNCHANGED meta
    BY <1>1, <2>1, <2>2
  <2>3. CASE ClearOne
    BY <1>1, <2>1, <2>3 DEF ClearOne, Cleared, TypeOK, MetaType
  <2>4. CASE SetQuery
    BY <1>1, <2>1, <2>4 DEF SetQuery, TypeOK, MetaType
  <2>5. CASE TokenRejected
    BY <1>1, <2>1, <2>5 DEF TokenRejected, TypeOK, MetaType
  <2>6. CASE Persist
    <3>1. meta.wm <= run.newest
      BY <1>1, <2>6 DEF Persist, SyncInv, SweepStart, Sweeping
    <3>2. meta'.wm \in {meta.wm, run.newest}
      BY <1>1, <2>6
      DEF Persist, IncrementalWrite, BackfillWrite, TypeOK, MetaType
    <3>3. run.newest \in Nat
      BY <1>1 DEF TypeOK, RunType
    <3> QED
      BY <1>1, <2>1, <3>1, <3>2, <3>3
  <2>7. CASE OpenSweep \/ KeepSweep \/ CloseSweep
    BY <1>1, <2>7 DEF OpenSweep, KeepSweep, CloseSweep, SyncInv, Stages
  <2>8. CASE UNCHANGED vars
    BY <1>1, <2>1, <2>8 DEF vars
  <2> QED
    BY <1>1, <2>2, <2>3, <2>4, <2>5, <2>6, <2>7, <2>8
    DEF Next, Sync, Upstream, EditIssue, DeleteIssue, EditQuery, Start,
        ResumeSweep, ResetForSweep, CheckQuery, Resolve, FetchPage,
        FetchNothing, StorePage, FinishCli, Prune, DeleteUnseen,
        RequestFails, Crash
<1>2. TypeOK /\ SyncInv /\ [Next]_vars
        => [meta'.wm < meta.wm => run.pc = "clear" /\ meta'.wm = 0]_vars
  BY <1>1
<1> QED
  BY <1>2, SyncInvCorrect, TypeCorrect, PTL DEF Spec, WatermarkNeverRetreats

-----------------------------------------------------------------------------
(* `--full` runs that have the tracker and the database to themselves.      *)

\* The fields of the checkpoint and of the run that the sweep's invariant reads.
LEMMA SweepFields ==
    ASSUME TypeOK
    PROVE  /\ run.pc # "idle" => run.jql \in Queries
           /\ run.step \in Nat /\ meta.done \in BOOLEAN /\ run.exhausted \in BOOLEAN
           /\ run.wasDone \in BOOLEAN /\ run.inc \in BOOLEAN
           /\ run.seen \subseteq Keys /\ run.prior \subseteq Keys /\ run.page \in [Keys -> Revs]
           /\ run.pages \in Nat /\ MaxPages \in Nat
           /\ \A q \in Queries : Match[q] \subseteq Keys
           /\ \A k \in Keys : jira[k] \in Nat /\ jira[k] <= MaxRev
  BY SyncAssumption, Elements DEF TypeOK, RunType, MetaType, Steps, SyncAssumption, Revs

\* Issues that are deleted need not be seen; the user may edit the query.
LEMMA SweepAround ==
    ASSUME TypeOK, SweepInv, \/ \E k \in Keys : EditIssue(k) \/ DeleteIssue(k)
                             \/ \E q \in Queries : EditQuery(q)
                             \/ Crash
    PROVE  SweepInv'
<1>1. CASE \E k \in Keys : EditIssue(k)
  BY <1>1 DEF EditIssue, SweepInv
<1>2. CASE Crash
  BY <1>2 DEF Crash, SweepInv
<1>3. ASSUME NEW k \in Keys, DeleteIssue(k) PROVE SweepInv'
  <2>1. /\ UNCHANGED <<meta, run, budget>>
        /\ \A l \in Keys : jira'[l] # 0 => jira'[l] = jira[l]
    BY <1>3 DEF DeleteIssue, TypeOK
  <2>2. \A q \in Queries : \A l \in Match[q] : jira'[l] # 0 => jira'[l] = jira[l]
    BY <2>1, SweepFields
  <2>3. ASSUME NEW q \in Queries, NEW seen, NEW t, Enumerated(q, seen, t)
        PROVE  Enumerated(q, seen, t)'
    BY <2>2, <2>3 DEF Enumerated, Ahead
  <2>4. SweepRests'
    BY <2>1, <2>2 DEF SweepInv, SweepRests, Enumerated, Ahead
  <2>5. SweepGoesOn'
    BY <2>1, <2>2, SweepFields DEF SweepInv, SweepGoesOn, Enumerated, Ahead, Opened, Sweeping
  <2>6. SweepCovers'
    BY <2>1, <2>2, SweepFields
    DEF SweepInv, SweepCovers, Enumerated, Ahead, AheadOrDone, SweepSeen
  <2>7. SweepBegins' /\ (budget.edits = 0 /\ budget.crashes = 0)'
    BY <2>1 DEF SweepInv, SweepBegins
  <2> QED
    BY <2>4, <2>5, <2>6, <2>7 DEF SweepInv
<1>4. ASSUME NEW q \in Queries, EditQuery(q) PROVE SweepInv'
  <2>1. /\ UNCHANGED <<jira, meta, run>>
        /\ budget'.edits = budget.edits /\ budget'.crashes = budget.crashes
    BY <1>4 DEF EditQuery, TypeOK
  <2> QED
    BY <2>1 DEF SweepInv, SweepRests, SweepBegins, SweepGoesOn, SweepCovers, Enumerated, Ahead,
                AheadOrDone, Opened, Sweeping, SweepSeen
<1> QED
  BY <1>1, <1>2, <1>3, <1>4

\* A sweep begins, is resumed, or is reset and opened.
LEMMA SweepOpens ==
    ASSUME TypeOK, SweepInv,
           \/ Start("full") \/ ResumeSweep \/ ResetForSweep \/ ClearOne \/ OpenSweep
    PROVE  SweepInv'
<1> USE SweepFields
<1>b. budget.edits = 0 /\ budget.crashes = 0
  BY DEF SweepInv
<1>1. CASE Start("full")
  <2>1. /\ run'.pc = "prepare" /\ run'.mode = "full" /\ run'.jql = conf
        /\ run'.prior = {} /\ UNCHANGED <<jira, meta, budget>> /\ run.pc = "idle"
    BY <1>1 DEF Start, Idle
  <2> QED
    BY <2>1 DEF SweepInv, SweepRests, SweepBegins, SweepGoesOn, SweepCovers, Enumerated, Ahead,
                Opened, Sweeping
<1>2. CASE ResumeSweep
  <2>1. /\ run'.pc = "checkQuery" /\ run'.mode = run.mode /\ run'.jql = run.jql
        /\ run'.prior = meta.fullSeen /\ UNCHANGED <<jira, meta, budget>>
        /\ run.pc = "prepare" /\ meta.fullActive /\ meta.fullJql = run.jql
    BY <1>2 DEF ResumeSweep, SweepOpen, TypeOK, RunType
  <2> QED
    BY <2>1 DEF SweepInv, SweepRests, SweepBegins, SweepGoesOn, SweepCovers, Enumerated, Ahead,
                Opened, Sweeping
<1>3. CASE ResetForSweep
  <2>1. /\ run'.pc = "clear" /\ run'.step = 1 /\ run'.next = "openSweep"
        /\ run'.mode = run.mode /\ run'.prior = run.prior /\ run.pc = "prepare"
        /\ run'.jql = run.jql /\ UNCHANGED <<jira, meta, budget>>
    BY <1>3 DEF ResetForSweep, TypeOK, RunType
  <2> QED
    BY <2>1 DEF SweepInv, SweepRests, SweepBegins, SweepGoesOn, SweepCovers, Enumerated, Ahead,
                Opened, Sweeping
<1>4. CASE ClearOne
  <2>1. /\ run.pc = "clear" /\ run.step \in 1..5 /\ run.next \in {"openSweep", "setQuery"}
        /\ UNCHANGED <<jira, budget>>
        /\ run'.mode = run.mode /\ run'.jql = run.jql /\ run'.prior = run.prior
        /\ run'.next = run.next
        /\ IF run.step < 5 THEN run'.pc = "clear" /\ run'.step = run.step + 1
                           ELSE run'.pc = run.next /\ run'.step = 1
    BY <1>4 DEF ClearOne, SweepInv, SweepBegins, TypeOK, RunType
  <2>2. /\ meta'.done = IF run.step = 2 THEN FALSE ELSE meta.done
        /\ meta'.bfTok = IF run.step = 3 THEN NoToken ELSE meta.bfTok
        /\ meta'.fullActive = meta.fullActive /\ meta'.fullJql = meta.fullJql
        /\ meta'.fullSeen = meta.fullSeen
    BY <1>4 DEF ClearOne, Cleared, TypeOK, MetaType
  <2> QED
    BY <2>1, <2>2 DEF SweepInv, SweepRests, SweepBegins, SweepGoesOn, SweepCovers, Enumerated,
                      Ahead, Opened, Sweeping
<1>5. CASE OpenSweep
  <2>1. /\ run.pc = "openSweep" /\ run.step \in 1..3 /\ UNCHANGED <<jira, budget>>
        /\ run'.mode = run.mode /\ run'.jql = run.jql /\ run'.prior = run.prior
        /\ IF run.step < 3 THEN run'.pc = run.pc /\ run'.step = run.step + 1
                           ELSE run'.pc = "checkQuery"
    BY <1>5 DEF OpenSweep, SweepInv, SweepBegins, TypeOK, RunType
  <2>2. /\ meta'.done = meta.done /\ meta'.bfTok = meta.bfTok
        /\ meta'.fullActive = IF run.step = 1 THEN TRUE ELSE meta.fullActive
        /\ meta'.fullJql = IF run.step = 2 THEN run.jql ELSE meta.fullJql
        /\ meta'.fullSeen = IF run.step = 3 THEN {} ELSE meta.fullSeen
    BY <1>5 DEF OpenSweep, TypeOK, MetaType
  <2>3. CASE run.step < 3
    BY <2>1, <2>2, <2>3 DEF SweepInv, SweepRests, SweepBegins, SweepGoesOn, SweepCovers,
                            Enumerated, Ahead, Opened, Sweeping
  <2>4. CASE run.step = 3
    <3>1. /\ run'.pc = "checkQuery" /\ ~meta.done /\ meta.bfTok = NoToken
          /\ meta.fullActive /\ meta.fullJql = run.jql /\ run.prior = {} /\ run.mode = "full"
      BY <2>1, <2>4 DEF SweepInv, SweepBegins, SweepGoesOn
    <3> QED
      BY <1>b, <2>1, <2>2, <2>4, <3>1
      DEF SweepInv, SweepRests, SweepBegins, SweepGoesOn, SweepCovers, Enumerated, Ahead,
          Opened, Sweeping
  <2> QED
    BY <2>1, <2>3, <2>4
<1> QED
  BY <1>1, <1>2, <1>3, <1>4, <1>5

\* Its query is checked and its progress taken up.
LEMMA SweepResolves ==
    ASSUME TypeOK, SweepInv, CheckQuery \/ SetQuery \/ Resolve PROVE SweepInv'
<1> USE SweepFields
<1>1. CASE CheckQuery
  <2>1. /\ run.pc = "checkQuery" /\ UNCHANGED <<jira, meta, budget>>
        /\ run'.mode = run.mode /\ run'.jql = run.jql /\ run'.prior = run.prior
        /\ \/ run'.pc = "setQuery"
           \/ run'.pc = "clear" /\ run'.step = 1 /\ run'.next = "setQuery"
    BY <1>1 DEF CheckQuery, TypeOK, RunType
  <2> QED
    BY <2>1 DEF SweepInv, SweepRests, SweepBegins, SweepGoesOn, SweepCovers, Enumerated, Ahead,
                Opened, Sweeping
<1>2. CASE SetQuery
  <2>1. /\ run.pc = "setQuery" /\ run'.pc = "resolve" /\ UNCHANGED <<jira, budget>>
        /\ run'.mode = run.mode /\ run'.jql = run.jql /\ run'.prior = run.prior
        /\ meta'.done = meta.done /\ meta'.bfTok = meta.bfTok
        /\ meta'.fullActive = meta.fullActive /\ meta'.fullJql = meta.fullJql
        /\ meta'.fullSeen = meta.fullSeen
    BY <1>2 DEF SetQuery, TypeOK, RunType, MetaType
  <2> QED
    BY <2>1 DEF SweepInv, SweepRests, SweepBegins, SweepGoesOn, SweepCovers, Enumerated, Ahead,
                Opened, Sweeping
<1>3. CASE Resolve
  <2>1. /\ run.pc = "resolve" /\ run'.pc = "fetch" /\ UNCHANGED <<jira, meta, budget>>
        /\ run.mode = "full"
    BY <1>3 DEF Resolve, SweepInv, SweepGoesOn
  <2>2. /\ run'.mode = run.mode /\ run'.jql = run.jql /\ run'.prior = run.prior
        /\ run'.seen = run.seen /\ run'.wasDone = meta.done /\ run'.inc = FALSE
        /\ run'.floor = 0 /\ run'.token = meta.bfTok
    BY <1>3, <2>1 DEF Resolve, TypeOK, RunType
  <2> QED
    BY <2>1, <2>2 DEF SweepInv, SweepRests, SweepBegins, SweepGoesOn, SweepCovers, Enumerated,
                      Ahead, Opened, Sweeping, SweepSeen
<1> QED
  BY <1>1, <1>2, <1>3

\* A page holds the first of the live issues that are ahead; a rejected token
\* is dropped, and a run that fails leaves its checkpoint behind.
LEMMA SweepFetches ==
    ASSUME TypeOK, SweepInv, FetchPage \/ FetchNothing \/ TokenRejected \/ RequestFails
    PROVE  SweepInv'
<1> USE SweepFields
<1>b. /\ budget.edits = 0 /\ budget.crashes = 0
      /\ run.mode = "full" /\ meta.fullActive /\ meta.fullJql = run.jql
      /\ meta.fullSeen = run.prior /\ ~meta.done /\ Enumerated(run.jql, run.prior, meta.bfTok)
      /\ ~run.wasDone /\ ~run.inc /\ run.floor = 0 /\ run.pc = "fetch" /\ run.jql \in Queries
      /\ Enumerated(run.jql, SweepSeen, run.token)
  BY DEF SweepInv, SweepGoesOn, SweepCovers, Opened, Sweeping,
         FetchPage, FetchNothing, TokenRejected, RequestFails
<1>r. \A k \in Match[run.jql] : jira[k] # 0 => k \in SweepSeen \/ k \in Results
  <2> SUFFICES ASSUME NEW k \in Match[run.jql], jira[k] # 0, k \notin SweepSeen
               PROVE  k \in Results
    OBVIOUS
  <2>1. Ahead(k, run.token)
    BY <1>b DEF Enumerated
  <2>2. k \in Keys /\ jira[k] \in Nat /\ jira[k] <= MaxRev /\ jira[k] \in Revs
    BY <1>b DEF TypeOK
  <2>3. jira[k] < Position
    BY <2>1, <2>2, SyncAssumption DEF Position, Ahead, SyncAssumption
  <2>4. StampOf[jira[k]] >= run.floor
    BY <1>b, <2>2, Order
  <2> QED
    BY <2>3, <2>4 DEF Results
<1>1. CASE FetchPage
  <2>0. PICK S \in SUBSET Results : \E last \in S :
          /\ IsPage(S)
          /\ \A k \in S : jira[last] <= jira[k]
          /\ run' = [run EXCEPT
                      !.pc = "store",
                      !.page = [k \in Keys |-> IF k \in S THEN jira[k] ELSE 0],
                      !.after = IF S = Results THEN NoToken
                                ELSE [query |-> run.jql, floor |-> run.floor,
                                      pos |-> jira[last]]]
    BY <1>1 DEF FetchPage
  <2>1. PICK last \in S :
          /\ IsPage(S)
          /\ run' = [run EXCEPT
                      !.pc = "store",
                      !.page = [k \in Keys |-> IF k \in S THEN jira[k] ELSE 0],
                      !.after = IF S = Results THEN NoToken
                                ELSE [query |-> run.jql, floor |-> run.floor,
                                      pos |-> jira[last]]]
    BY <2>0
  <2>2. /\ run'.pc = "store" /\ UNCHANGED <<jira, meta, budget>>
        /\ run'.mode = run.mode /\ run'.jql = run.jql /\ run'.prior = run.prior
        /\ run'.seen = run.seen /\ run'.wasDone = run.wasDone /\ run'.inc = run.inc
        /\ run'.floor = run.floor
        /\ \A k \in Keys : run'.page[k] = IF k \in S THEN jira[k] ELSE 0
        /\ S # Results => run'.after = [query |-> run.jql, floor |-> run.floor,
                                       pos |-> jira[last]]
    BY <1>1, <2>1 DEF FetchPage, TypeOK, RunType
  <2>3. ASSUME NEW k \in Match[run.jql], jira[k] # 0, k \notin SweepSeen, k \notin S
        PROVE  run'.after # NoToken /\ jira[k] < run'.after.pos
    <3>1. k \in Results \ S /\ S # Results
      BY <1>r, <2>3
    <3>2. jira[k] < jira[last]
      BY <2>1, <3>1 DEF IsPage
    <3>3. last \in Keys /\ jira[last] \in 1..MaxRev
      BY <1>b, <2>1 DEF Results
    <3>4. run'.after \in Tokens
      BY <1>b, <2>2, <3>1, <3>3, Elements DEF Tokens
    <3> QED
      BY <2>2, <3>1, <3>2, <3>4, SyncAssumption DEF SyncAssumption
  <2>4. SweepCovers'
    BY <1>b, <2>2, <2>3 DEF SweepCovers, SweepSeen, AheadOrDone
  <2> QED
    BY <1>b, <2>2, <2>4 DEF SweepInv, SweepRests, SweepBegins, SweepGoesOn, Opened, Sweeping,
                            Enumerated, Ahead
<1>2. CASE FetchNothing
  <2>1. /\ run'.pc = "persist" /\ run'.step = 1 /\ run'.exhausted
        /\ UNCHANGED <<jira, meta, budget>> /\ Results = {}
        /\ run'.mode = run.mode /\ run'.jql = run.jql /\ run'.prior = run.prior
        /\ run'.seen = run.seen /\ run'.wasDone = run.wasDone /\ run'.inc = run.inc
        /\ run'.floor = run.floor
    BY <1>2 DEF FetchNothing, TypeOK, RunType
  <2>2. SweepCovers'
    BY <1>b, <1>r, <2>1 DEF SweepCovers, SweepSeen
  <2> QED
    BY <1>b, <2>1, <2>2 DEF SweepInv, SweepRests, SweepBegins, SweepGoesOn, Opened, Sweeping
<1>3. CASE TokenRejected
  <2>1. /\ run'.pc = run.pc /\ run'.token = NoToken
        /\ run'.mode = run.mode /\ run'.jql = run.jql /\ run'.prior = run.prior
        /\ run'.seen = run.seen /\ run'.wasDone = run.wasDone /\ run'.inc = run.inc
        /\ run'.floor = run.floor
        /\ UNCHANGED jira /\ budget'.edits = budget.edits /\ budget'.crashes = budget.crashes
    BY <1>3 DEF TokenRejected, TypeOK, RunType
  <2>2. /\ meta'.done = meta.done /\ meta'.bfTok = NoToken
        /\ meta'.fullActive = meta.fullActive /\ meta'.fullJql = meta.fullJql
        /\ meta'.fullSeen = meta.fullSeen
    BY <1>3, <1>b DEF TokenRejected, TypeOK, MetaType
  <2> QED
    BY <1>b, <2>1, <2>2 DEF SweepInv, SweepRests, SweepBegins, SweepGoesOn, SweepCovers,
                            Opened, Sweeping, Enumerated, Ahead
<1>4. CASE RequestFails
  <2>1. /\ run'.pc = "idle" /\ UNCHANGED <<jira, meta>>
        /\ budget'.edits = budget.edits /\ budget'.crashes = budget.crashes
    BY <1>4 DEF RequestFails, Idle, TypeOK
  <2> QED
    BY <1>b, <2>1 DEF SweepInv, SweepRests, SweepBegins, SweepGoesOn, SweepCovers,
                      Opened, Sweeping, Enumerated, Ahead
<1> QED
  BY <1>1, <1>2, <1>3, <1>4

\* What was on a stored page is seen.
LEMMA SweepStores == ASSUME TypeOK, SweepInv, StorePage PROVE SweepInv'
<1> USE SweepFields
<1>b. /\ budget.edits = 0 /\ budget.crashes = 0
      /\ run.mode = "full" /\ meta.fullActive /\ meta.fullJql = run.jql
      /\ meta.fullSeen = run.prior /\ ~meta.done /\ Enumerated(run.jql, run.prior, meta.bfTok)
      /\ ~run.wasDone /\ ~run.inc /\ run.floor = 0 /\ run.jql \in Queries
      /\ \A k \in Match[run.jql] : jira[k] # 0 =>
            k \in SweepSeen \/ run.page[k] # 0 \/ AheadOrDone(k, run.after)
  BY DEF SweepInv, SweepGoesOn, SweepCovers, Opened, Sweeping, StorePage
<1>a. PICK n \in Stamps :
        run' = [run EXCEPT
                      !.pc = IF run.after # NoToken /\ run.pages + 1 < MaxPages
                               THEN "fetch" ELSE "persist",
                      !.step = 1,
                      !.page = [k \in Keys |-> 0],
                      !.after = NoToken,
                      !.token = run.after,
                      !.newest = n,
                      !.pages = @ + 1,
                      !.exhausted = run.after = NoToken,
                      !.seen = @ \cup {k \in Keys : run.page[k] # 0}]
  BY DEF StorePage
<1> DEFINE more == run.after # NoToken /\ run.pages + 1 < MaxPages
           found == run.seen \cup {k \in Keys : run.page[k] # 0}
           count == run.pages + 1
           last == run.after = NoToken
           blank == [k \in Keys |-> 0]
<1>1. run' = [run EXCEPT !.pc = IF more THEN "fetch" ELSE "persist", !.step = 1,
                         !.page = blank, !.after = NoToken, !.token = run.after,
                         !.newest = n, !.pages = count, !.exhausted = last, !.seen = found]
  BY <1>a
<1> HIDE DEF more, found, count, last, blank
<1>2. /\ run'.pc = IF more THEN "fetch" ELSE "persist"
      /\ run'.mode = run.mode /\ run'.jql = run.jql /\ run'.prior = run.prior
      /\ run'.step = 1
  BY <1>1 DEF TypeOK, RunType
<1>3. run'.wasDone = run.wasDone /\ run'.inc = run.inc /\ run'.floor = run.floor
  BY <1>1 DEF TypeOK, RunType
<1>4. run'.seen = found /\ run'.token = run.after /\ run'.exhausted = last
  BY <1>1 DEF TypeOK, RunType
<1>5. UNCHANGED <<jira, meta, budget>>
  BY DEF StorePage
<1>6. \A k \in Match[run.jql] : jira[k] # 0 =>
        k \in run.prior \cup found \/ AheadOrDone(k, run.after)
  BY <1>b DEF SweepSeen, found
<1>7. SweepCovers'
  BY <1>b, <1>2, <1>3, <1>4, <1>5, <1>6
  DEF SweepCovers, SweepSeen, Enumerated, Ahead, AheadOrDone, more, last
<1> QED
  BY <1>b, <1>2, <1>3, <1>5, <1>7
  DEF SweepInv, SweepRests, SweepBegins, SweepGoesOn, Opened, Sweeping, Enumerated, Ahead

\* The progress writes; an unfinished sweep is kept, a finished one deletes and
\* closes its checkpoint.
LEMMA SweepEnds ==
    ASSUME TypeOK, SweepInv, Persist \/ KeepSweep \/ DeleteUnseen \/ CloseSweep
    PROVE  SweepInv'
<1> USE SweepFields
<1>b. budget.edits = 0 /\ budget.crashes = 0
  BY DEF SweepInv
<1>1. CASE Persist
  <2>1. /\ run.pc = "persist" /\ run.step \in 1..3 /\ ~run.inc /\ UNCHANGED <<jira, budget>>
        /\ run.mode = "full" /\ run.jql \in Queries
    BY <1>1 DEF Persist, SweepInv, SweepGoesOn, SweepCovers, Sweeping
  <2>2. /\ run'.pc = IF run.step < 3 THEN "persist" ELSE "finish"
        /\ run.step < 3 => run'.step = run.step + 1
        /\ run'.mode = run.mode /\ run'.jql = run.jql /\ run'.prior = run.prior
        /\ run'.seen = run.seen /\ run'.wasDone = run.wasDone /\ run'.inc = run.inc
        /\ run'.floor = run.floor /\ run'.token = run.token /\ run'.exhausted = run.exhausted
    BY <1>1 DEF Persist, TypeOK, RunType
  <2>3. /\ meta'.done = IF run.step = 2 /\ run.exhausted THEN TRUE ELSE meta.done
        /\ run.step = 3 => meta'.bfTok = IF run.exhausted THEN NoToken ELSE run.token
        /\ meta'.fullActive = meta.fullActive /\ meta'.fullJql = meta.fullJql
        /\ meta'.fullSeen = meta.fullSeen
    BY <1>1, <2>1 DEF Persist, BackfillWrite, TypeOK, MetaType
  <2>4. SweepCovers'
    BY <2>1, <2>2, <2>3 DEF SweepInv, SweepCovers, SweepSeen, AheadOrDone
  <2>5. SweepGoesOn'
    BY <2>1, <2>2, <2>3 DEF SweepInv, SweepGoesOn, Opened, Sweeping
  <2> QED
    BY <1>b, <2>1, <2>2, <2>4, <2>5 DEF SweepInv, SweepRests, SweepBegins
<1>2. CASE KeepSweep
  <2>1. /\ run.pc = "finish" /\ ~run.exhausted /\ UNCHANGED <<jira, budget>>
        /\ run'.pc = "idle"
    BY <1>2 DEF KeepSweep, BackfillComplete, Idle
  <2>2. /\ meta'.done = meta.done /\ meta'.bfTok = meta.bfTok
        /\ meta'.fullActive = meta.fullActive /\ meta'.fullJql = meta.fullJql
        /\ meta'.fullSeen = SweepSeen
    BY <1>2 DEF KeepSweep, TypeOK, MetaType
  <2>3. /\ ~meta.done /\ meta.bfTok = run.token /\ meta.fullJql = run.jql
        /\ \A k \in Match[run.jql] : jira[k] # 0 =>
              k \in SweepSeen \/ AheadOrDone(k, run.token)
    BY <2>1 DEF SweepInv, SweepCovers, SweepGoesOn, Opened
  <2> QED
    BY <1>b, <2>1, <2>2, <2>3
    DEF SweepInv, SweepRests, SweepBegins, SweepGoesOn, SweepCovers, Opened, Sweeping,
        Enumerated, Ahead, AheadOrDone
<1>3. CASE DeleteUnseen
  <2>1. /\ run'.pc = "closeSweep" /\ run'.step = 1 /\ run'.mode = "full"
        /\ UNCHANGED <<jira, meta, budget>>
    BY <1>3 DEF DeleteUnseen, TypeOK, RunType
  <2> QED
    BY <1>b, <2>1
    DEF SweepInv, SweepRests, SweepBegins, SweepGoesOn, SweepCovers, Opened, Sweeping
<1>4. CASE CloseSweep
  <2>1. /\ run.pc = "closeSweep" /\ run.step \in 1..3 /\ run.mode = "full"
        /\ run.step > 1 => ~meta.fullActive
        /\ UNCHANGED <<jira, budget>>
    BY <1>4 DEF CloseSweep, SweepInv, SweepGoesOn, SweepCovers
  <2>2. /\ meta'.fullActive = IF run.step = 1 THEN FALSE ELSE meta.fullActive
        /\ IF run.step < 3
             THEN run'.pc = "closeSweep" /\ run'.step = run.step + 1 /\ run'.mode = "full"
             ELSE run'.pc = "idle"
    BY <1>4, <2>1 DEF CloseSweep, Idle, TypeOK, MetaType, RunType
  <2> QED
    BY <1>b, <2>1, <2>2
    DEF SweepInv, SweepRests, SweepBegins, SweepGoesOn, SweepCovers, Opened, Sweeping
<1> QED
  BY <1>1, <1>2, <1>3, <1>4

\* Where only `--full` runs exist, every step keeps the sweep's invariant.
LEMMA SweepStep == ASSUME SweepsAlone, TypeOK, SweepInv, [Next]_vars PROVE SweepInv'
<1>1. CASE Upstream \/ (\E q \in Queries : EditQuery(q)) \/ Crash
  BY <1>1, SweepAround DEF Upstream
<1>2. ASSUME NEW m \in Modes, Start(m) PROVE SweepInv'
  BY <1>2, SweepOpens DEF SweepsAlone
<1>3. CASE ResumeSweep \/ ResetForSweep \/ ClearOne \/ OpenSweep
  BY <1>3, SweepOpens
<1>4. CASE CheckQuery \/ SetQuery \/ Resolve
  BY <1>4, SweepResolves
<1>5. CASE FetchPage \/ FetchNothing \/ TokenRejected \/ RequestFails \/ StorePage
  BY <1>5, SweepFetches, SweepStores
<1>6. CASE Persist \/ KeepSweep \/ DeleteUnseen \/ CloseSweep
  BY <1>6, SweepEnds
<1>7. CASE FinishCli \/ Prune
  BY <1>7 DEF FinishCli, Prune, SweepInv, SweepGoesOn
<1>8. CASE UNCHANGED vars
  BY <1>8 DEF vars, SweepInv, SweepRests, SweepBegins, SweepGoesOn, SweepCovers, Enumerated,
              Ahead, AheadOrDone, Opened, Sweeping, SweepSeen
<1> QED
  BY <1>1, <1>2, <1>3, <1>4, <1>5, <1>6, <1>7, <1>8 DEF Next, Sync

\* The sweep's invariant holds in every reachable state.
THEOREM SweepInvCorrect == ASSUME SweepsAlone PROVE Spec => []SweepInv
<1>1. Init => SweepInv
  BY DEF Init, Idle, SweepsAlone, SweepInv, SweepRests, SweepBegins, SweepGoesOn, SweepCovers,
         Opened, Sweeping
<1>2. TypeOK /\ SweepInv /\ [Next]_vars => SweepInv'
  BY SweepStep
<1> QED
  BY <1>1, <1>2, TypeCorrect, PTL DEF Spec

\* `--full` deletes only what Jira no longer returns, however many runs the
\* sweep takes, whichever requests fail and whichever tokens Jira rejects
\* (_reconcile_full_sync).
THEOREM SweepDeletesCorrect == ASSUME SweepsAlone PROVE Spec => SweepDeletesOnlyGone
<1>1. ASSUME TypeOK, SweepInv, DeleteUnseen, NEW k \in Match[run.jql],
             local[k] # 0, local'[k] = 0
      PROVE  jira[k] = 0
  <2>1. run.pc = "finish" /\ run.exhausted /\ run.jql \in Queries /\ k \in Keys
    BY <1>1, SweepFields
    DEF DeleteUnseen, BackfillComplete, SweepInv, SweepGoesOn, Sweeping
  <2>2. k \notin SweepSeen
    BY <1>1, <2>1 DEF DeleteUnseen
  <2> QED
    BY <1>1, <2>1, <2>2 DEF SweepInv, SweepCovers
<1>2. TypeOK /\ SweepInv => [DeleteUnseen =>
        \A k \in Match[run.jql] : local[k] # 0 /\ local'[k] = 0 => jira[k] = 0]_vars
  BY <1>1
<1> QED
  BY <1>2, SweepInvCorrect, TypeCorrect, PTL DEF SweepDeletesOnlyGone

=============================================================================
