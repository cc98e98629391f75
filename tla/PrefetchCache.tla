--------------------------- MODULE PrefetchCache ---------------------------
(***************************************************************************)
(* The prefetch cache of the incidents stage (incidents/prefetch.py) with  *)
(* the two threads that meet in it: turns that read it under a timeout and *)
(* the background sync that clears it (incidents/__init__.py, _sync_once). *)
(*                                                                         *)
(* A text the builder returns is abstracted to the version of the index it *)
(* was read from; 0 is the empty text.  Every section under the cache's    *)
(* lock is one action.  A future's id is used again once the future is     *)
(* gone and nobody waits for it.                                           *)
(*                                                                         *)
(* A definition named ...Slip is the next one with a plausible mistake.    *)
(***************************************************************************)
EXTENDS Naturals, Sequences, FiniteSets

CONSTANTS
    Keys,        \* normalised queries
    Turns,       \* threads that call get() or queue()
    Futures,     \* ids of submitted builds
    NoFuture,
    Workers,     \* threads of the pool
    MaxSize,     \* entries kept
    MaxIndex,    \* bound: versions of the index
    MaxFailures  \* bound: syncs that fail after they stored a page

ASSUME CacheAssumption ==
    /\ Workers \in Nat \ {0} /\ MaxSize \in Nat \ {0}
    /\ MaxIndex \in Nat \ {0} /\ MaxFailures \in Nat
    /\ Keys # {} /\ IsFiniteSet(Keys) /\ IsFiniteSet(Futures)
    /\ NoFuture \notin Futures

MaxPending == 2 * Workers
Versions == 0..MaxIndex

VARIABLES
    index,       \* the version of the incidents table
    sync,        \* the sync thread: "idle", or "clear" when it owes a clear()
    swept,       \* the version of the table at the last clear() (history)
    failures,    \* syncs that may still fail
    generation, closed,
    cache,       \* the entries, oldest first
    inflight,    \* inflight[k]: the build of k that get() and queue() join
    future,      \* the builds
    pool,        \* the pool's queue of builds
    turn         \* the calls of get() and queue()

vars == <<index, sync, swept, failures, generation, closed, cache, inflight,
          future, pool, turn>>

syncVars == <<index, sync, swept, failures>>
cacheVars == <<generation, closed, cache>>
buildVars == <<inflight, future, pool>>

Quiet == [pc |-> "idle", key |-> CHOOSE k \in Keys : TRUE, waits |-> FALSE,
          future |-> NoFuture]

Unused == [state |-> "gone", key |-> CHOOSE k \in Keys : TRUE,
           generation |-> 0, value |-> 0, hooked |-> FALSE]

Init ==
    /\ index = 1 /\ sync = "idle" /\ swept = 1 /\ failures = MaxFailures
    /\ generation = 0 /\ closed = FALSE
    /\ cache = <<>>
    /\ inflight = [k \in Keys |-> NoFuture]
    /\ future = [f \in Futures |-> Unused]
    /\ pool = <<>>
    /\ turn = [t \in Turns |-> Quiet]

Cached(k) == \E i \in 1..Len(cache) : cache[i].key = k
Pending == {k \in Keys : inflight[k] # NoFuture}
Awaited == {turn[t].future : t \in Turns}
Free == {f \in Futures : future[f].state = "gone" /\ f \notin Awaited}
Busy == {f \in Futures : future[f].state \in {"running", "built"}}
Live == Busy \cup {f \in Futures : future[f].state = "queued"}

-----------------------------------------------------------------------------
(* The background sync.                                                    *)

\* run_sync stores rows; the thread goes on to clear the cache ...
Ingest ==
    /\ sync = "idle" /\ index < MaxIndex
    /\ index' = index + 1
    /\ sync' = "clear"
    /\ UNCHANGED <<swept, failures, cacheVars, buildVars, turn>>

\* ... or raises on a later page, which _sync_once lets through to the
\* scheduler: the rows are stored and the cache is not cleared.
IngestFails ==
    /\ sync = "idle" /\ index < MaxIndex /\ failures > 0
    /\ index' = index + 1
    /\ failures' = failures - 1
    /\ UNCHANGED <<sync, swept, cacheVars, buildVars, turn>>

\* The generation stays as it is.
ClearSlip ==
    /\ sync = "clear"
    /\ sync' = "idle"
    /\ swept' = index
    /\ cache' = <<>>
    /\ UNCHANGED <<index, failures, generation, closed, buildVars, turn>>

Clear ==
    /\ sync = "clear"
    /\ sync' = "idle"
    /\ swept' = index
    /\ generation' = generation + 1
    /\ cache' = <<>>
    /\ UNCHANGED <<index, failures, closed, buildVars, turn>>

-----------------------------------------------------------------------------
(* get() and queue() on a turn.                                            *)

Return(t) == turn' = [turn EXCEPT ![t] = Quiet]

\* get() returns at once what is cached; queue() does not look.
Ask(t, k, waits) ==
    /\ turn[t].pc = "idle"
    /\ waits => ~Cached(k)
    /\ turn' = [turn EXCEPT ![t] = [Quiet EXCEPT !.pc = "submit", !.key = k,
                                                  !.waits = waits]]
    /\ UNCHANGED <<syncVars, cacheVars, buildVars>>

\* _submit: closed, or too many pending: nothing is built.
Refused(t) ==
    /\ turn[t].pc = "submit"
    /\ \/ closed
       \/ /\ inflight[turn[t].key] = NoFuture
          /\ Cardinality(Pending) >= MaxPending
    /\ Return(t)
    /\ UNCHANGED <<syncVars, cacheVars, buildVars>>

\* _submit: the key is being built; get() joins it.
Join(t) ==
    LET existing == inflight[turn[t].key] IN
    /\ turn[t].pc = "submit" /\ ~closed /\ existing # NoFuture
    /\ IF turn[t].waits
         THEN turn' = [turn EXCEPT ![t] = [Quiet EXCEPT !.pc = "wait",
                                                        !.future = existing]]
         ELSE Return(t)
    /\ UNCHANGED <<syncVars, cacheVars, buildVars>>

Submit(t, f) ==
    /\ turn[t].pc = "submit" /\ ~closed
    /\ inflight[turn[t].key] = NoFuture
    /\ Cardinality(Pending) < MaxPending
    /\ f \in Free
    /\ future' = [future EXCEPT ![f] = [state |-> "queued", key |-> turn[t].key,
                                        generation |-> generation, value |-> 0,
                                        hooked |-> FALSE]]
    /\ inflight' = [inflight EXCEPT ![turn[t].key] = f]
    /\ pool' = Append(pool, f)
    /\ turn' = [turn EXCEPT ![t] = [Quiet EXCEPT !.pc = "hook", !.future = f,
                                                  !.waits = turn[t].waits]]
    /\ UNCHANGED <<syncVars, cacheVars>>

\* _forget
Forgotten(f) ==
    [k \in Keys |-> IF k = future[f].key /\ inflight[k] = f THEN NoFuture
                                                           ELSE inflight[k]]

AfterHook(t) ==
    IF turn[t].waits
      THEN turn' = [turn EXCEPT ![t].pc = "wait", ![t].waits = FALSE]
      ELSE Return(t)

\* A callback added to a finished future is lost.
HookSlip(t) ==
    LET f == turn[t].future IN
    /\ turn[t].pc = "hook"
    /\ AfterHook(t)
    /\ IF future[f].state = "done"
         THEN future' = [future EXCEPT ![f] = Unused]
         ELSE future' = [future EXCEPT ![f].hooked = TRUE]
    /\ UNCHANGED <<syncVars, cacheVars, inflight, pool>>

\* add_done_callback, outside the lock: a finished future forgets at once.
Hook(t) ==
    LET f == turn[t].future IN
    /\ turn[t].pc = "hook"
    /\ AfterHook(t)
    /\ IF future[f].state = "done"
         THEN /\ inflight' = Forgotten(f)
              /\ future' = [future EXCEPT ![f] = Unused]
         ELSE /\ future' = [future EXCEPT ![f].hooked = TRUE]
              /\ UNCHANGED inflight
    /\ UNCHANGED <<syncVars, cacheVars, pool>>

Answer(t) ==
    /\ turn[t].pc = "wait"
    /\ future[turn[t].future].state \in {"done", "gone"}
    /\ Return(t)
    /\ UNCHANGED <<syncVars, cacheVars, buildVars>>

\* A get() that gives up also forgets the build it waited for.
TimeoutSlip(t) ==
    /\ turn[t].pc = "wait"
    /\ Return(t)
    /\ inflight' = Forgotten(turn[t].future)
    /\ UNCHANGED <<syncVars, cacheVars, future, pool>>

\* The wait is bounded; the build goes on.
Timeout(t) ==
    /\ turn[t].pc = "wait"
    /\ Return(t)
    /\ UNCHANGED <<syncVars, cacheVars, buildVars>>

-----------------------------------------------------------------------------
(* The pool.                                                               *)

Run ==
    /\ pool # <<>> /\ Cardinality(Busy) < Workers
    /\ future' = [future EXCEPT ![Head(pool)].state = "running"]
    /\ pool' = Tail(pool)
    /\ UNCHANGED <<syncVars, cacheVars, inflight, turn>>

\* The builder searches the index and finds something, finds nothing ...
Build(f, v) ==
    /\ future[f].state = "running"
    /\ v \in {0, index}
    /\ future' = [future EXCEPT ![f].state = "built", ![f].value = v]
    /\ UNCHANGED <<syncVars, cacheVars, inflight, pool, turn>>

Finished(f) == [future[f] EXCEPT !.state = "done", !.value = 0, !.generation = 0]

\* ... or raises.
BuildFails(f) ==
    /\ future[f].state = "running"
    /\ future' = [future EXCEPT ![f] = Finished(f)]
    /\ UNCHANGED <<syncVars, cacheVars, inflight, pool, turn>>

Evicted == IF Len(cache) >= MaxSize THEN Tail(cache) ELSE cache

Stored(k, v) ==
    IF Cached(k)
      THEN [i \in 1..Len(cache) |->
              IF cache[i].key = k THEN [key |-> k, value |-> v] ELSE cache[i]]
      ELSE Append(Evicted, [key |-> k, value |-> v])

\* The text is cached whatever happened since it was asked for.
PutSlip(f) ==
    /\ future[f].state = "built"
    /\ cache' = IF future[f].value = 0 \/ closed
                  THEN cache ELSE Stored(future[f].key, future[f].value)
    /\ future' = [future EXCEPT ![f] = Finished(f)]
    /\ UNCHANGED <<syncVars, generation, closed, inflight, pool, turn>>

\* _put, and the end of the build; an empty text is not cached.
Put(f) ==
    /\ future[f].state = "built"
    /\ cache' = IF \/ future[f].value = 0 \/ closed
                   \/ future[f].generation # generation
                  THEN cache
                  ELSE Stored(future[f].key, future[f].value)
    /\ future' = [future EXCEPT ![f] = Finished(f)]
    /\ UNCHANGED <<syncVars, generation, closed, inflight, pool, turn>>

\* The waiters are awake before the callback runs.
Forget(f) ==
    /\ future[f].state = "done" /\ future[f].hooked
    /\ inflight' = Forgotten(f)
    /\ future' = [future EXCEPT ![f] = Unused]
    /\ UNCHANGED <<syncVars, cacheVars, pool, turn>>

\* shutdown: the queued builds are cancelled, the running ones go on.
Shutdown ==
    /\ ~closed
    /\ closed' = TRUE
    /\ generation' = generation + 1
    /\ cache' = <<>>
    /\ inflight' = [k \in Keys |-> NoFuture]
    /\ future' = [f \in Futures |->
                    IF future[f].state = "queued"
                      THEN Finished(f) ELSE future[f]]
    /\ pool' = <<>>
    /\ UNCHANGED <<syncVars, turn>>

-----------------------------------------------------------------------------
Worker(f) ==
    \/ \E v \in Versions : Build(f, v)
    \/ BuildFails(f) \/ Put(f) \/ Forget(f)

Caller(t) ==
    \/ \E k \in Keys, waits \in BOOLEAN : Ask(t, k, waits)
    \/ Refused(t) \/ Join(t) \/ (\E f \in Futures : Submit(t, f))
    \/ Hook(t) \/ Answer(t) \/ Timeout(t)

Next ==
    \/ Ingest \/ IngestFails \/ Clear
    \/ \E t \in Turns : Caller(t)
    \/ Run
    \/ \E f \in Futures : Worker(f)
    \/ Shutdown

Spec == Init /\ [][Next]_vars

\* The pool's threads run, the builder (a local query) ends, and the turn that
\* submitted a build returns from _submit.
FairSpec ==
    /\ Spec
    /\ WF_vars(Run)
    /\ \A f \in Futures : WF_vars(Worker(f))
    /\ \A t \in Turns : WF_vars(Hook(t))

-----------------------------------------------------------------------------
(* Properties.                                                             *)

States == {"queued", "running", "built", "done", "gone"}
Entry == [key : Keys, value : Versions]
FutureType == [state : States, key : Keys, generation : Nat, value : Versions,
               hooked : BOOLEAN]
TurnType == [pc : {"idle", "submit", "hook", "wait"}, key : Keys,
             waits : BOOLEAN, future : Futures \cup {NoFuture}]

\* Every variable keeps its type, and a call that waits has a future.
TypeOK ==
    /\ index \in Versions /\ swept \in Versions
    /\ sync \in {"idle", "clear"}
    /\ failures \in Nat /\ generation \in Nat /\ closed \in BOOLEAN
    /\ cache \in Seq(Entry)
    /\ inflight \in [Keys -> Futures \cup {NoFuture}]
    /\ future \in [Futures -> FutureType]
    /\ pool \in Seq(Futures)
    /\ turn \in [Turns -> TurnType]
    /\ \A t \in Turns : turn[t].pc \in {"hook", "wait"} => turn[t].future # NoFuture

\* A build that read the index before a clear() never lands after it: what is
\* cached was read from the index the last clear() saw, or a later one
\* (prefetch.py: the generation is taken at submission and checked in _put).
CachedSinceClear ==
    \A i \in 1..Len(cache) : cache[i].value >= swept

\* The limits of the cache hold through joins, time-outs and clears: entries,
\* pending builds, and one unfinished build of a query at a time.
Bounded ==
    /\ Len(cache) <= MaxSize
    /\ Cardinality(Live) <= MaxPending
    /\ \A f, g \in Live : future[f].key = future[g].key => f = g

\* _sync_once: "ingest, then invalidate cache on change".  Unless the sync
\* still owes its clear(), a turn is never answered from the cache with what
\* an older index said.
CacheFollowsIndex ==
    sync = "idle" => \A i \in 1..Len(cache) : cache[i].value = index

\* CacheFollowsIndex while every sync so far has got to its clear().
CacheFollowsSyncs == failures = MaxFailures => CacheFollowsIndex

\* An entry of _inflight is of a build of its query that is not over for good:
\* its callback is to run, or the turn that submitted it has yet to add it.
\* (_submit adds the callback outside the lock, when the build may have ended.)
SlotsHeld ==
    \A k \in Keys :
      LET f == inflight[k] IN
      f # NoFuture =>
        /\ future[f].key = k /\ future[f].state # "gone"
        /\ future[f].hooked \/ \E t \in Turns : turn[t].pc = "hook" /\ turn[t].future = f

\* The slot of a query is given back whatever happens to its build, so no
\* query is refused for ever.
SlotsComeBack ==
    \A k \in Keys : []<>(inflight[k] = NoFuture)

-----------------------------------------------------------------------------
(* What the proofs of CachedSinceClear and Bounded rest on.                *)

\* A build of this generation that found something found it in the index of
\* the last clear(), or a later one.
BuiltSinceClear ==
    /\ swept <= index
    /\ \A f \in Futures :
         /\ future[f].generation <= generation
         /\ future[f].state = "built" /\ future[f].value # 0
              /\ future[f].generation = generation => future[f].value >= swept

\* The pool's queue holds each queued build once.
PoolHoldsQueued ==
    /\ \A i \in 1..Len(pool) : future[pool[i]].state = "queued"
    /\ \A i, j \in 1..Len(pool) : pool[i] = pool[j] => i = j

\* Until shutdown every unfinished build is the one its query is entered with.
LiveIsInflight ==
    ~closed => \A f \in Live : inflight[future[f].key] = f
=============================================================================
