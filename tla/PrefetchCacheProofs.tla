------------------------ MODULE PrefetchCacheProofs ------------------------
(***************************************************************************)
(* For any number of queries, turns, builds and workers: the types of      *)
(* PrefetchCache, the freshness of what is cached and the cache's limits.  *)
(***************************************************************************)
EXTENDS PrefetchCache, FiniteSetTheorems, SequenceTheorems, TLAPS

\* The constants, without the finiteness of the sets.
LEMMA Numbers ==
    /\ Workers \in Nat /\ MaxSize \in Nat /\ MaxSize > 0
    /\ MaxPending \in Nat /\ MaxPending > 0
    /\ MaxIndex \in Nat /\ MaxFailures \in Nat
    /\ 0 \in Versions /\ 1 \in Versions
    /\ \A v \in Versions : v \in Nat
    /\ NoFuture \notin Futures
  BY CacheAssumption DEF MaxPending, Versions

\* The initial records of turns and futures are of their types.
LEMMA Records ==
    /\ Quiet \in TurnType /\ Quiet.pc = "idle"
    /\ Unused \in FutureType /\ Unused.state = "gone"
    /\ Unused.generation = 0
<1> DEFINE key == CHOOSE k \in Keys : TRUE
<1>1. key \in Keys
  BY CacheAssumption
<1> HIDE DEF key
<1>2. Quiet = [pc |-> "idle", key |-> key, waits |-> FALSE, future |-> NoFuture]
  BY DEF Quiet, key
<1>3. Unused = [state |-> "gone", key |-> key, generation |-> 0, value |-> 0,
                hooked |-> FALSE]
  BY DEF Unused, key
<1> QED
  BY <1>1, <1>2, <1>3, Numbers DEF TurnType, FutureType, States

\* What _put does to the entries: they stay typed and within the limit, and
\* each of them is the new one or was there before.
LEMMA StoredProperties ==
    ASSUME NEW k \in Keys, NEW v \in Versions, cache \in Seq(Entry)
    PROVE  /\ Stored(k, v) \in Seq(Entry)
           /\ Len(cache) <= MaxSize => Len(Stored(k, v)) <= MaxSize
           /\ \A i \in 1..Len(Stored(k, v)) :
                \/ Stored(k, v)[i].value = v
                \/ \E j \in 1..Len(cache) : Stored(k, v)[i] = cache[j]
<1> DEFINE new == [key |-> k, value |-> v]
<1>0. new \in Entry /\ new.value = v
  BY DEF Entry
<1> HIDE DEF new
<1>1. CASE Cached(k)
  <2> DEFINE e(i) == IF cache[i].key = k THEN new ELSE cache[i]
             s == [i \in 1..Len(cache) |-> e(i)]
  <2>1. \A i \in 1..Len(cache) : e(i) \in Entry /\ (e(i).value = v \/ e(i) = cache[i])
    BY <1>0, ElementOfSeq
  <2>2. Len(cache) \in Nat
    BY LenProperties
  <2>3. s \in Seq(Entry)
    <3> HIDE DEF e
    <3> QED BY <2>1, <2>2, IsASeq
  <2>4. Len(s) = Len(cache)
    BY <2>2, <2>3, LenProperties
  <2>5. Stored(k, v) = s
    BY <1>1 DEF Stored, new
  <2> HIDE DEF e
  <2> QED
    BY <2>1, <2>3, <2>4, <2>5
<1>2. CASE ~Cached(k)
  <2>1. /\ Evicted \in Seq(Entry)
        /\ Len(cache) <= MaxSize => Len(Evicted) < MaxSize
        /\ \A i \in 1..Len(Evicted) : \E j \in 1..Len(cache) : Evicted[i] = cache[j]
    <3>1. CASE Len(cache) >= MaxSize
      <4>1. cache # <<>>
        BY <3>1, Numbers
      <4>2. /\ Tail(cache) \in Seq(Entry)
            /\ Len(Tail(cache)) = Len(cache) - 1
            /\ \A i \in 1..Len(Tail(cache)) : Tail(cache)[i] = cache[i + 1]
        BY <4>1, HeadTailProperties
      <4>3. Len(cache) \in Nat
        BY LenProperties
      <4>4. \A i \in 1..Len(Tail(cache)) : i + 1 \in 1..Len(cache)
        BY <4>2, <4>3
      <4> QED
        BY <3>1, <4>2, <4>3, <4>4, Numbers DEF Evicted
    <3>2. CASE ~(Len(cache) >= MaxSize)
      <4>1. Len(cache) \in Nat
        BY LenProperties
      <4> QED
        BY <3>2, <4>1, Numbers DEF Evicted
    <3> QED
      BY <3>1, <3>2
  <2>2. /\ Append(Evicted, new) \in Seq(Entry)
        /\ Len(Append(Evicted, new)) = Len(Evicted) + 1
        /\ \A i \in 1..Len(Evicted) : Append(Evicted, new)[i] = Evicted[i]
        /\ Append(Evicted, new)[Len(Evicted) + 1] = new
    BY <1>0, <2>1, AppendProperties
  <2>3. Stored(k, v) = Append(Evicted, new)
    BY <1>2 DEF Stored, new
  <2>4. Len(Evicted) \in Nat
    BY <2>1, LenProperties
  <2> QED
    BY <1>0, <2>1, <2>2, <2>3, <2>4, Numbers
<1> QED
  BY <1>1, <1>2

\* Init establishes the types.
LEMMA TypeInit == Init => TypeOK
  BY Numbers, Records, EmptySeq
  DEF Init, TypeOK, Entry

\* A future that is done is still a future.
LEMMA FinishedType ==
    ASSUME TypeOK, NEW f \in Futures
    PROVE  /\ Finished(f) \in FutureType
           /\ Finished(f).state = "done" /\ Finished(f).generation = 0
           /\ Finished(f).key = future[f].key
  BY Numbers DEF TypeOK, Finished, FutureType, States

\* Every step of a turn keeps the types.
LEMMA CallerType ==
    ASSUME TypeOK, NEW t \in Turns, Caller(t)
    PROVE  TypeOK'
<1> USE Numbers, Records
<1>1. ASSUME NEW k \in Keys, NEW waits \in BOOLEAN, Ask(t, k, waits)
      PROVE  TypeOK'
  BY <1>1 DEF Ask, TypeOK, TurnType, syncVars, cacheVars, buildVars
<1>2. CASE Refused(t) \/ Answer(t) \/ Timeout(t)
  BY <1>2
  DEF Refused, Answer, Timeout, Return, TypeOK, syncVars, cacheVars, buildVars
<1>3. CASE Join(t)
  <2>1. inflight[turn[t].key] \in Futures
    BY <1>3 DEF Join, TypeOK, TurnType
  <2> DEFINE r == [Quiet EXCEPT !.pc = "wait", !.future = inflight[turn[t].key]]
  <2>2. r \in TurnType /\ r.future # NoFuture
    BY <2>1 DEF TurnType
  <2>3. turn' = [turn EXCEPT ![t] = r] \/ turn' = [turn EXCEPT ![t] = Quiet]
    BY <1>3 DEF Join, Return
  <2> HIDE DEF r
  <2> QED
    BY <1>3, <2>2, <2>3 DEF Join, TypeOK, syncVars, cacheVars, buildVars
<1>4. ASSUME NEW f \in Futures, Submit(t, f) PROVE TypeOK'
  <2>1. turn[t].key \in Keys
    BY DEF TypeOK, TurnType
  <2>2. inflight' \in [Keys -> Futures \cup {NoFuture}]
    BY <1>4, <2>1 DEF Submit, TypeOK
  <2>3. future' \in [Futures -> FutureType]
    BY <1>4, <2>1 DEF Submit, TypeOK, FutureType, States
  <2>4. pool' \in Seq(Futures)
    BY <1>4, AppendProperties DEF Submit, TypeOK
  <2>5. /\ turn' \in [Turns -> TurnType]
        /\ \A u \in Turns : turn'[u].pc \in {"hook", "wait"} => turn'[u].future # NoFuture
    BY <1>4 DEF Submit, TypeOK, TurnType
  <2> QED
    BY <1>4, <2>2, <2>3, <2>4, <2>5 DEF Submit, TypeOK, syncVars, cacheVars
<1>5. CASE Hook(t)
  <2> DEFINE f == turn[t].future
  <2>1. f \in Futures
    BY <1>5 DEF Hook, TypeOK, TurnType
  <2>2. /\ turn' \in [Turns -> TurnType]
        /\ \A u \in Turns : turn'[u].pc \in {"hook", "wait"} => turn'[u].future # NoFuture
    <3> DEFINE r == [turn[t] EXCEPT !.pc = "wait", !.waits = FALSE]
    <3>1. r \in TurnType /\ r.future = f
      BY DEF TypeOK, TurnType
    <3>2. turn' = [turn EXCEPT ![t] = r] \/ turn' = [turn EXCEPT ![t] = Quiet]
      BY <1>5 DEF Hook, AfterHook, Return, TypeOK
    <3> HIDE DEF r
    <3> QED
      BY <2>1, <3>1, <3>2 DEF TypeOK
  <2>3. inflight' \in [Keys -> Futures \cup {NoFuture}]
    BY <1>5 DEF Hook, Forgotten, TypeOK
  <2>4. future' \in [Futures -> FutureType]
    <3> DEFINE r == [future[f] EXCEPT !.hooked = TRUE]
    <3>1. r \in FutureType
      BY <2>1 DEF TypeOK, FutureType
    <3>2. future' = [future EXCEPT ![f] = r] \/ future' = [future EXCEPT ![f] = Unused]
      BY <1>5 DEF Hook, TypeOK
    <3> HIDE DEF r, f
    <3> QED
      BY <2>1, <3>1, <3>2 DEF TypeOK
  <2> QED
    BY <1>5, <2>2, <2>3, <2>4 DEF Hook, TypeOK, syncVars, cacheVars
<1> QED
  BY <1>1, <1>2, <1>3, <1>4, <1>5, Caller(t) DEF Caller

\* Every step of the pool keeps the types.
LEMMA PoolType ==
    ASSUME TypeOK, Run \/ \E f \in Futures : Worker(f)
    PROVE  TypeOK'
<1> USE Numbers, Records
<1>1. CASE Run
  <2>1. Head(pool) \in Futures /\ Tail(pool) \in Seq(Futures)
    BY <1>1, HeadTailProperties DEF Run, TypeOK
  <2>2. future' \in [Futures -> FutureType]
    BY <1>1, <2>1 DEF Run, TypeOK, FutureType, States
  <2> QED
    BY <1>1, <2>1, <2>2 DEF Run, TypeOK, syncVars, cacheVars
<1>2. ASSUME NEW f \in Futures, Worker(f) PROVE TypeOK'
  <2>1. ASSUME NEW v \in Versions, Build(f, v) PROVE TypeOK'
    <3>1. future' \in [Futures -> FutureType]
      BY <2>1 DEF Build, TypeOK, FutureType, States
    <3> QED
      BY <2>1, <3>1 DEF Build, TypeOK, syncVars, cacheVars
  <2>2. CASE BuildFails(f)
    BY <2>2, FinishedType DEF BuildFails, TypeOK, syncVars, cacheVars
  <2>3. CASE Put(f)
    <3>1. cache' \in Seq(Entry)
      <4> DEFINE v == future[f].value
      <4>1. v \in Versions /\ future[f].key \in Keys
        BY DEF TypeOK, FutureType
      <4>2. cache \in Seq(Entry)
        BY DEF TypeOK
      <4>3. Stored(future[f].key, v) \in Seq(Entry)
        BY <4>1, <4>2, StoredProperties
      <4> QED
        BY <2>3, <4>2, <4>3 DEF Put
    <3>2. future' \in [Futures -> FutureType]
      BY <2>3, FinishedType DEF Put, TypeOK
    <3> QED
      BY <2>3, <3>1, <3>2 DEF Put, TypeOK, syncVars
  <2>4. CASE Forget(f)
    <3>1. inflight' \in [Keys -> Futures \cup {NoFuture}]
      BY <2>4 DEF Forget, Forgotten, TypeOK
    <3>2. future' \in [Futures -> FutureType]
      BY <2>4 DEF Forget, TypeOK
    <3> QED
      BY <2>4, <3>1, <3>2 DEF Forget, TypeOK, syncVars, cacheVars
  <2> QED
    BY <1>2, <2>1, <2>2, <2>3, <2>4 DEF Worker
<1> QED
  BY <1>1, <1>2

\* Every step keeps the types.
LEMMA TypeStep == TypeOK /\ [Next]_vars => TypeOK'
<1> SUFFICES ASSUME TypeOK, [Next]_vars PROVE TypeOK'
  OBVIOUS
<1> USE Numbers, Records
<1>1. CASE Ingest \/ IngestFails
  <2>1. index + 1 \in Versions
    BY <1>1 DEF Ingest, IngestFails, TypeOK, Versions
  <2> QED
    BY <1>1, <2>1 DEF Ingest, IngestFails, TypeOK, cacheVars, buildVars
<1>2. CASE Clear
  BY <1>2, EmptySeq DEF Clear, TypeOK, buildVars
<1>3. ASSUME NEW t \in Turns, Caller(t) PROVE TypeOK'
  BY <1>3, CallerType
<1>4. CASE Run \/ \E f \in Futures : Worker(f)
  BY <1>4, PoolType
<1>5. CASE Shutdown
  <2>1. future' \in [Futures -> FutureType]
    BY <1>5, FinishedType DEF Shutdown, TypeOK
  <2> QED
    BY <1>5, <2>1, EmptySeq DEF Shutdown, TypeOK, syncVars
<1>6. CASE UNCHANGED vars
  BY <1>6 DEF vars, TypeOK
<1> QED
  BY <1>1, <1>2, <1>3, <1>4, <1>5, <1>6 DEF Next

\* Every reachable state is well typed.
THEOREM TypeCorrect == Spec => []TypeOK
  BY TypeInit, TypeStep, PTL DEF Spec

-----------------------------------------------------------------------------
(* Freshness.                                                              *)

\* Nothing is cached at first.
LEMMA FreshInit == Init => CachedSinceClear /\ BuiltSinceClear
  BY Records, Numbers DEF Init, CachedSinceClear, BuiltSinceClear

\* Builds that are new, or whose value is dropped, do not disturb freshness.
LEMMA BuildsStayFresh ==
    ASSUME TypeOK, BuiltSinceClear, UNCHANGED <<index, swept, generation>>,
           \A f \in Futures :
             \/ /\ future'[f].generation = future[f].generation
                /\ future'[f].state = "built" =>
                     future[f].state = "built" /\ future'[f].value = future[f].value
             \/ /\ future'[f].generation \in {0, generation}
                /\ future'[f].state = "built" => future'[f].value \in {0, index}
    PROVE  BuiltSinceClear'
  BY Numbers DEF TypeOK, BuiltSinceClear

\* Every step keeps what is cached and what is being built newer than the last clear.
LEMMA FreshStep ==
    TypeOK /\ CachedSinceClear /\ BuiltSinceClear /\ [Next]_vars
      => CachedSinceClear' /\ BuiltSinceClear'
<1> SUFFICES ASSUME TypeOK, CachedSinceClear, BuiltSinceClear, [Next]_vars
             PROVE  CachedSinceClear' /\ BuiltSinceClear'
  OBVIOUS
<1> USE Numbers, Records
<1>1. CASE Ingest \/ IngestFails
  BY <1>1
  DEF Ingest, IngestFails, TypeOK, CachedSinceClear, BuiltSinceClear,
      cacheVars, buildVars
<1>2. CASE Clear
  <2>1. \A f \in Futures : /\ future'[f].generation <= generation
                           /\ future'[f].generation \in Nat
    BY <1>2 DEF Clear, TypeOK, FutureType, BuiltSinceClear, buildVars
  <2>2. generation' = generation + 1 /\ generation \in Nat /\ cache' = <<>>
    BY <1>2 DEF Clear, TypeOK
  <2>3. swept' = index' /\ index' \in Nat
    BY <1>2 DEF Clear, TypeOK
  <2> QED
    BY <2>1, <2>2, <2>3 DEF CachedSinceClear, BuiltSinceClear
<1>3. ASSUME NEW t \in Turns, Caller(t) PROVE CachedSinceClear' /\ BuiltSinceClear'
  <2>1. CASE UNCHANGED <<syncVars, cacheVars, buildVars>>
    BY <2>1
    DEF CachedSinceClear, BuiltSinceClear, syncVars, cacheVars, buildVars
  <2>2. ASSUME NEW f \in Futures, Submit(t, f)
        PROVE  CachedSinceClear' /\ BuiltSinceClear'
    <3>1. UNCHANGED <<syncVars, cacheVars>>
      BY <2>2 DEF Submit
    <3>2. /\ future'[f].state = "queued" /\ future'[f].generation = generation
          /\ \A g \in Futures \ {f} : future'[g] = future[g]
      BY <2>2 DEF Submit, TypeOK
    <3>3. BuiltSinceClear'
      BY <3>1, <3>2, BuildsStayFresh DEF syncVars, cacheVars
    <3> QED
      BY <3>1, <3>3 DEF CachedSinceClear, syncVars, cacheVars
  <2>3. CASE Hook(t)
    <3>1. UNCHANGED <<syncVars, cacheVars>>
      BY <2>3 DEF Hook
    <3>2. \A f \in Futures :
            \/ future'[f] = Unused
            \/ /\ future'[f].state = future[f].state
               /\ future'[f].value = future[f].value
               /\ future'[f].generation = future[f].generation
      <4> DEFINE g == turn[t].future
                 r == [future[g] EXCEPT !.hooked = TRUE]
      <4>1. future' = [future EXCEPT ![g] = r] \/ future' = [future EXCEPT ![g] = Unused]
        BY <2>3 DEF Hook
      <4>2. g \in Futures =>
              /\ r.state = future[g].state /\ r.value = future[g].value
              /\ r.generation = future[g].generation
        BY DEF TypeOK, FutureType
      <4> HIDE DEF g, r
      <4> QED
        BY <4>1, <4>2 DEF TypeOK
    <3>3. BuiltSinceClear'
      BY <3>1, <3>2, BuildsStayFresh DEF syncVars, cacheVars
    <3> QED
      BY <3>1, <3>3 DEF CachedSinceClear, syncVars, cacheVars
  <2> QED
    BY <1>3, <2>1, <2>2, <2>3
    DEF Caller, Ask, Refused, Join, Answer, Timeout, syncVars, cacheVars, buildVars
<1>4. CASE Run
  <2>1. UNCHANGED <<syncVars, cacheVars>>
    BY <1>4 DEF Run
  <2>2. Head(pool) \in Futures
    BY <1>4, HeadTailProperties DEF Run, TypeOK
  <2>3. \A f \in Futures :
          /\ future'[f].generation = future[f].generation
          /\ future'[f].value = future[f].value
          /\ future'[f].state \in {future[f].state, "running"}
    BY <1>4, <2>2 DEF Run, TypeOK, FutureType
  <2>4. BuiltSinceClear'
    BY <2>1, <2>3, BuildsStayFresh DEF syncVars, cacheVars
  <2> QED
    BY <2>1, <2>4 DEF CachedSinceClear, syncVars, cacheVars
<1>5. ASSUME NEW f \in Futures, Worker(f) PROVE CachedSinceClear' /\ BuiltSinceClear'
  <2>1. ASSUME NEW v \in Versions, Build(f, v)
        PROVE  CachedSinceClear' /\ BuiltSinceClear'
    <3>1. UNCHANGED <<syncVars, cacheVars>>
      BY <2>1 DEF Build
    <3>2. /\ \A g \in Futures \ {f} : future'[g] = future[g]
          /\ future'[f].generation = future[f].generation
          /\ future'[f].value \in {0, index}
      BY <2>1 DEF Build, TypeOK, FutureType
    <3>3. UNCHANGED <<index, swept, generation>>
      BY <3>1 DEF syncVars, cacheVars
    <3>4. \A g \in Futures : future'[g].generation <= generation
      BY <3>2 DEF BuiltSinceClear
    <3>5. ASSUME NEW g \in Futures, future'[g].state = "built",
                 future'[g].value # 0, future'[g].generation = generation
          PROVE  future'[g].value >= swept
      <4>1. CASE g = f
        BY <3>2, <3>5, <4>1 DEF BuiltSinceClear, TypeOK
      <4>2. CASE g # f
        BY <3>2, <3>5, <4>2 DEF BuiltSinceClear
      <4> QED
        BY <4>1, <4>2
    <3>6. BuiltSinceClear'
      BY <3>3, <3>4, <3>5 DEF BuiltSinceClear
    <3> QED
      BY <3>1, <3>6 DEF CachedSinceClear, syncVars, cacheVars
  <2>2. CASE BuildFails(f) \/ Put(f) \/ Forget(f)
    <3>1. UNCHANGED syncVars /\ UNCHANGED generation
      BY <2>2 DEF BuildFails, Put, Forget, cacheVars
    <3>2. /\ \A g \in Futures \ {f} : future'[g] = future[g]
          /\ future'[f].generation = 0 /\ future'[f].state # "built"
      BY <2>2, FinishedType DEF BuildFails, Put, Forget, TypeOK
    <3>3. BuiltSinceClear'
      BY <3>1, <3>2, BuildsStayFresh DEF syncVars
    <3>4. CASE cache' = cache
      BY <3>1, <3>3, <3>4 DEF CachedSinceClear, syncVars
    <3>5. CASE cache' # cache
      <4>1. /\ future[f].state = "built" /\ future[f].value # 0
            /\ future[f].generation = generation
            /\ cache' = Stored(future[f].key, future[f].value)
        BY <2>2, <3>5 DEF BuildFails, Put, Forget, cacheVars
      <4>2. future[f].value >= swept
        BY <4>1 DEF BuiltSinceClear
      <4>3. future[f].value \in Versions /\ future[f].key \in Keys /\ swept \in Nat
        BY DEF TypeOK, FutureType
      <4>4. \A i \in 1..Len(cache') :
              \/ cache'[i].value = future[f].value
              \/ \E j \in 1..Len(cache) : cache'[i] = cache[j]
        <5> DEFINE new == Stored(future[f].key, future[f].value)
        <5>1. \A i \in 1..Len(new) :
                \/ new[i].value = future[f].value
                \/ \E j \in 1..Len(cache) : new[i] = cache[j]
          BY <4>3, StoredProperties DEF TypeOK
        <5> HIDE DEF new
        <5> QED
          BY <4>1, <5>1 DEF new
      <4>5. \A i \in 1..Len(cache') : cache'[i].value >= swept
        BY <4>2, <4>4 DEF CachedSinceClear
      <4> QED
        BY <3>1, <3>3, <4>5 DEF CachedSinceClear, syncVars
    <3> QED
      BY <3>4, <3>5
  <2> QED
    BY <1>5, <2>1, <2>2 DEF Worker
<1>6. CASE Shutdown
  <2>1. \A f \in Futures :
          \/ future'[f] = future[f]
          \/ future'[f].generation = 0 /\ future'[f].state = "done"
    BY <1>6, FinishedType DEF Shutdown, TypeOK
  <2>2. \A f \in Futures : future[f].generation \in Nat
    BY DEF TypeOK, FutureType
  <2>3. /\ cache' = <<>> /\ UNCHANGED syncVars
        /\ generation' = generation + 1 /\ generation \in Nat
    BY <1>6 DEF Shutdown, TypeOK
  <2> QED
    BY <2>1, <2>2, <2>3 DEF CachedSinceClear, BuiltSinceClear, syncVars
<1>7. CASE UNCHANGED vars
  BY <1>7 DEF vars, CachedSinceClear, BuiltSinceClear
<1> QED
  BY <1>1, <1>2, <1>3, <1>4, <1>5, <1>6, <1>7 DEF Next

\* Whatever is built, cleared, timed out or shut down while the index changes,
\* a cached text is never older than the index of the last clear() (_put).
THEOREM FreshCorrect == Spec => []CachedSinceClear
<1>1. Init => CachedSinceClear /\ BuiltSinceClear
  BY FreshInit
<1> QED
  BY <1>1, FreshStep, TypeCorrect, PTL DEF Spec

-----------------------------------------------------------------------------
(* Limits.                                                                 *)

LimitInv == Bounded /\ PoolHoldsQueued /\ LiveIsInflight

\* The futures that are queued, running or built, and nothing else, are live.
LEMMA LiveStates ==
    /\ Live \subseteq Futures
    /\ \A f \in Futures : f \in Live <=> future[f].state \in {"queued", "running", "built"}
    /\ IsFiniteSet(Live)
<1>1. /\ Live \subseteq Futures
      /\ \A f \in Futures : f \in Live <=> future[f].state \in {"queued", "running", "built"}
  BY DEF Live, Busy
<1> QED
  BY <1>1, FS_Subset, CacheAssumption

\* At first nothing is in flight.
LEMMA LimitInit == Init => LimitInv
<1> SUFFICES ASSUME Init PROVE LimitInv
  OBVIOUS
<1>1. Live = {}
  BY LiveStates, Records DEF Init
<1>2. Len(cache) = 0 /\ Len(pool) = 0
  BY DEF Init
<1> QED
  BY <1>1, <1>2, FS_EmptySet, Numbers
  DEF LimitInv, Bounded, PoolHoldsQueued, LiveIsInflight

\* Steps that begin no build keep the limits ...
LEMMA FewerBuilds ==
    ASSUME Bounded, LiveIsInflight,
           Live' \subseteq Live,
           \A f \in Live' : future'[f].key = future[f].key,
           \/ closed'
           \/ /\ ~closed
              /\ \A f \in Live' : inflight'[future[f].key] = inflight[future[f].key],
           Len(cache') <= MaxSize
    PROVE  Bounded' /\ LiveIsInflight'
<1>1. Cardinality(Live') <= Cardinality(Live)
  BY LiveStates, FS_Subset
<1>2. Cardinality(Live) \in Nat /\ Cardinality(Live') \in Nat
  BY LiveStates, FS_Subset, FS_CardinalityType
<1>3. Cardinality(Live') <= MaxPending
  BY <1>1, <1>2, Numbers DEF Bounded
<1>4. MaxPending' = MaxPending /\ MaxSize' = MaxSize
  BY DEF MaxPending
<1> QED
  BY <1>3, <1>4 DEF Bounded, LiveIsInflight

\* ... and those that leave the queued builds alone keep the pool's queue.
LEMMA SameQueue ==
    ASSUME TypeOK, PoolHoldsQueued, pool' = pool,
           \A f \in Futures : future[f].state = "queued" => future'[f].state = "queued"
    PROVE  PoolHoldsQueued'
<1>1. \A i \in 1..Len(pool) : pool[i] \in Futures
  BY ElementOfSeq DEF TypeOK
<1> QED
  BY <1>1 DEF PoolHoldsQueued

\* A build is only begun for a query that has none, while there is room.
LEMMA SubmitLimits ==
    ASSUME TypeOK, LimitInv, NEW t \in Turns, NEW f \in Futures, Submit(t, f)
    PROVE  LimitInv'
<1> DEFINE k == turn[t].key
<1> USE Numbers
<1>1. k \in Keys
  BY DEF TypeOK, TurnType
<1>2. /\ future'[f].state = "queued" /\ future'[f].key = k
      /\ \A g \in Futures \ {f} : future'[g] = future[g]
  BY <1>1 DEF Submit, TypeOK
<1>3. /\ inflight[k] = NoFuture /\ inflight'[k] = f
      /\ \A l \in Keys \ {k} : inflight'[l] = inflight[l]
      /\ ~closed /\ ~closed' /\ Len(cache') = Len(cache)
      /\ Cardinality(Pending) < MaxPending
  BY <1>1 DEF Submit, TypeOK, cacheVars
<1>4. f \notin Live /\ future[f].state = "gone"
  BY LiveStates DEF Submit, Free
<1>5. Live' = Live \cup {f}
  <2>1. \A g \in Futures : g \in Live' <=> future'[g].state \in {"queued", "running", "built"}
    BY DEF Live, Busy
  <2>2. Live' \subseteq Futures
    BY DEF Live, Busy
  <2> QED
    BY <1>2, <2>1, <2>2, LiveStates
<1>6. \A g \in Live : /\ inflight[future[g].key] = g
                      /\ future[g].key \in Keys /\ future[g].key # k
  BY <1>3, LiveStates DEF LimitInv, LiveIsInflight, TypeOK, FutureType
<1>7. Cardinality(Live) <= Cardinality(Pending)
  <2> DEFINE keyOf == [g \in Live |-> future[g].key]
  <2>1. keyOf \in [Live -> Pending]
    BY <1>6, LiveStates DEF Pending
  <2>2. \A g, h \in Live : keyOf[g] = keyOf[h] => g = h
    BY <1>6
  <2>3. keyOf \in Injection(Live, Pending)
    BY <2>1, <2>2 DEF Injection, IsInjective
  <2>4. IsFiniteSet(Pending)
    BY FS_Subset, CacheAssumption DEF Pending
  <2> HIDE DEF keyOf
  <2> QED
    BY <2>3, <2>4, FS_Injection
<1>8. /\ Cardinality(Live') = Cardinality(Live) + 1
      /\ Cardinality(Live) \in Nat /\ Cardinality(Pending) \in Nat
  <2>1. IsFiniteSet(Pending)
    BY FS_Subset, CacheAssumption DEF Pending
  <2> QED
    BY <1>4, <1>5, <2>1, LiveStates, FS_AddElement, FS_CardinalityType
<1>9. Cardinality(Live') <= MaxPending
  BY <1>3, <1>7, <1>8
<1>10. \A g, h \in Live' : future'[g].key = future'[h].key => g = h
  BY <1>2, <1>5, <1>6, LiveStates
<1>11. Bounded'
  BY <1>3, <1>9, <1>10 DEF LimitInv, Bounded, MaxPending
<1>12. LiveIsInflight'
  BY <1>2, <1>3, <1>5, <1>6, LiveStates DEF LiveIsInflight
<1>13. PoolHoldsQueued'
  <2>1. /\ pool' = Append(pool, f) /\ pool \in Seq(Futures) /\ Len(pool) \in Nat
        /\ Len(pool') = Len(pool) + 1 /\ pool'[Len(pool) + 1] = f
        /\ \A i \in 1..Len(pool) : pool'[i] = pool[i]
    BY AppendProperties, LenProperties DEF Submit, TypeOK
  <2>2. \A i \in 1..Len(pool) : pool[i] \in Futures /\ pool[i] # f
                              /\ future[pool[i]].state = "queued"
    BY <1>4, <2>1, ElementOfSeq DEF LimitInv, PoolHoldsQueued
  <2>3. \A i \in 1..Len(pool') : i \in 1..Len(pool) \/ i = Len(pool) + 1
    BY <2>1
  <2>4. \A i \in 1..Len(pool') : future'[pool'[i]].state = "queued"
    BY <1>2, <2>1, <2>2, <2>3
  <2>5. \A i, j \in 1..Len(pool') : pool'[i] = pool'[j] => i = j
    <3>1. ASSUME NEW i \in 1..Len(pool'), NEW j \in 1..Len(pool'), pool'[i] = pool'[j]
          PROVE  i = j
      <4>1. CASE i \in 1..Len(pool) /\ j \in 1..Len(pool)
        BY <2>1, <3>1, <4>1 DEF LimitInv, PoolHoldsQueued
      <4>2. CASE i = Len(pool) + 1 \/ j = Len(pool) + 1
        BY <2>1, <2>2, <2>3, <3>1, <4>2
      <4> QED
        BY <2>3, <4>1, <4>2
    <3> QED
      BY <3>1
  <2> QED
    BY <2>4, <2>5 DEF PoolHoldsQueued
<1> QED
  BY <1>11, <1>12, <1>13 DEF LimitInv

\* A step that leaves every build's key alone and begins none has fewer builds.
LEMMA StillLive ==
    ASSUME \A f \in Futures :
             future'[f].state \in {"queued", "running", "built"} =>
               /\ future[f].state \in {"queued", "running", "built"}
               /\ future'[f].key = future[f].key
    PROVE  /\ Live' \subseteq Live
           /\ \A f \in Live' : f \in Futures /\ future'[f].key = future[f].key
BY DEF Live, Busy

\* A finished build's entry can go without touching an unfinished one's.
LEMMA ForgottenKeeps ==
    ASSUME TypeOK, LiveIsInflight, ~closed,
           NEW f \in Futures, future[f].state = "done", NEW g \in Live
    PROVE  Forgotten(f)[future[g].key] = inflight[future[g].key]
<1>1. g # f /\ g \in Futures
  BY LiveStates
<1>2. inflight[future[g].key] = g
  BY DEF LiveIsInflight
<1>3. future[g].key \in Keys
  BY <1>1 DEF TypeOK, FutureType
<1> QED
  BY <1>1, <1>2, <1>3 DEF Forgotten

\* Every step keeps the bounds of the executor and of _inflight.
LEMMA LimitStep ==
    ASSUME TypeOK, LimitInv, [Next]_vars
    PROVE  LimitInv'
<1> USE Numbers
<1>0. /\ Bounded /\ PoolHoldsQueued /\ LiveIsInflight
      /\ Len(cache) \in Nat /\ Len(cache) <= MaxSize
  BY LenProperties DEF LimitInv, Bounded, TypeOK
<1>1. CASE UNCHANGED <<future, inflight, pool, closed>> /\ Len(cache') <= MaxSize
  <2>1. Live' \subseteq Live /\ \A f \in Live' : future'[f].key = future[f].key
    BY <1>1 DEF Live, Busy
  <2> QED
    BY <1>0, <1>1, <2>1, FewerBuilds, SameQueue DEF LimitInv
<1>2. CASE Ingest \/ IngestFails \/ Clear
  <2>1. Len(cache') <= MaxSize
    BY <1>0, <1>2 DEF Ingest, IngestFails, Clear, cacheVars
  <2> QED
    BY <1>1, <1>2, <2>1 DEF Ingest, IngestFails, Clear, cacheVars, buildVars
<1>3. ASSUME NEW t \in Turns, Caller(t) PROVE LimitInv'
  <2>1. ASSUME NEW f \in Futures, Submit(t, f) PROVE LimitInv'
    BY <2>1, SubmitLimits
  <2>2. CASE Hook(t)
    <3> DEFINE f == turn[t].future
    <3>1. f \in Futures
      BY <2>2 DEF Hook, TypeOK, TurnType
    <3>2. /\ \A g \in Futures : \/ /\ future'[g].state = future[g].state
                                  /\ future'[g].key = future[g].key
                               \/ /\ g = f /\ future'[g].state = "gone"
                                  /\ future[g].state = "done"
      <4>1. CASE future[f].state = "done"
        <5>1. future' = [future EXCEPT ![f] = Unused]
          BY <2>2, <4>1 DEF Hook
        <5> QED
          BY <3>1, <4>1, <5>1, Records DEF TypeOK
      <4>2. CASE future[f].state # "done"
        <5>1. future' = [future EXCEPT ![f].hooked = TRUE]
          BY <2>2, <4>2 DEF Hook
        <5> HIDE DEF f
        <5> QED
          BY <3>1, <5>1 DEF TypeOK, FutureType
      <4> QED
        BY <4>1, <4>2
    <3>3. Live' \subseteq Live /\ \A g \in Live' : g \in Futures /\ future'[g].key = future[g].key
      BY <3>2, StillLive
    <3>4. \/ inflight' = inflight
          \/ inflight' = Forgotten(f) /\ future[f].state = "done"
      BY <2>2 DEF Hook
    <3>5. ASSUME ~closed, NEW g \in Live'
          PROVE  inflight'[future[g].key] = inflight[future[g].key]
      BY <1>0, <3>1, <3>3, <3>4, <3>5, ForgottenKeeps
    <3>6. UNCHANGED <<cache, closed, pool>>
      BY <2>2 DEF Hook, cacheVars
    <3>7. Bounded' /\ LiveIsInflight'
      BY <1>0, <3>3, <3>5, <3>6, FewerBuilds
    <3>8. PoolHoldsQueued'
      BY <1>0, <3>2, <3>6, SameQueue
    <3> QED
      BY <3>7, <3>8 DEF LimitInv
  <2>3. CASE ~Hook(t) /\ ~\E f \in Futures : Submit(t, f)
    <3>1. UNCHANGED <<cacheVars, buildVars>>
      BY <1>3, <2>3
      DEF Caller, Ask, Refused, Join, Answer, Timeout
    <3> QED
      BY <1>0, <1>1, <3>1 DEF cacheVars, buildVars
  <2> QED
    BY <2>1, <2>2, <2>3
<1>4. CASE Run
  <2>1. /\ pool \in Seq(Futures) /\ pool # <<>> /\ Len(pool) \in Nat
        /\ pool' = Tail(pool) /\ Head(pool) = pool[1] /\ pool[1] \in Futures
        /\ Len(pool') = Len(pool) - 1 /\ Len(pool) > 0
        /\ \A i \in 1..Len(pool') : pool'[i] = pool[i + 1]
    BY <1>4, HeadTailProperties, LenProperties, ElementOfSeq DEF Run, TypeOK
  <2>2. /\ future'[pool[1]].state = "running"
        /\ future'[pool[1]].key = future[pool[1]].key
        /\ \A g \in Futures \ {pool[1]} : future'[g] = future[g]
    BY <1>4, <2>1 DEF Run, TypeOK, FutureType
  <2>3. 1 \in 1..Len(pool) /\ future[pool[1]].state = "queued"
    BY <1>0, <2>1 DEF PoolHoldsQueued
  <2>4. Live' \subseteq Live /\ \A g \in Live' : g \in Futures /\ future'[g].key = future[g].key
    BY <2>2, <2>3, StillLive
  <2>5. UNCHANGED <<cache, closed, inflight>>
    BY <1>4 DEF Run, cacheVars
  <2>6. Bounded' /\ LiveIsInflight'
    BY <1>0, <2>4, <2>5, FewerBuilds
  <2>7. \A i \in 1..Len(pool') :
          /\ i + 1 \in 1..Len(pool) /\ pool[i + 1] \in Futures
          /\ pool[i + 1] # pool[1]
    BY <1>0, <2>1, <2>3, ElementOfSeq DEF PoolHoldsQueued
  <2>8. PoolHoldsQueued'
    <3>1. \A i \in 1..Len(pool') : future'[pool'[i]].state = "queued"
      BY <1>0, <2>1, <2>2, <2>7 DEF PoolHoldsQueued
    <3>2. \A i, j \in 1..Len(pool') : pool'[i] = pool'[j] => i = j
      <4>1. ASSUME NEW i \in 1..Len(pool'), NEW j \in 1..Len(pool'), pool'[i] = pool'[j]
            PROVE  i + 1 = j + 1
        BY <1>0, <2>1, <2>7, <4>1 DEF PoolHoldsQueued
      <4> QED
        BY <4>1, <2>1
    <3> QED
      BY <3>1, <3>2 DEF PoolHoldsQueued
  <2> QED
    BY <2>6, <2>8 DEF LimitInv
<1>5. ASSUME NEW f \in Futures, Worker(f) PROVE LimitInv'
  <2>1. /\ \A g \in Futures \ {f} : future'[g] = future[g]
        /\ UNCHANGED <<closed, pool>>
        /\ future[f].state # "queued"
    BY <1>5 DEF Worker, Build, BuildFails, Put, Forget, cacheVars, TypeOK
  <2>2. future'[f].state \in {"queued", "running", "built"} =>
          /\ future[f].state \in {"queued", "running", "built"}
          /\ future'[f].key = future[f].key
    <3>1. ASSUME NEW v \in Versions, Build(f, v)
          PROVE  future'[f].key = future[f].key /\ future[f].state = "running"
      BY <3>1 DEF Build, TypeOK, FutureType
    <3>2. CASE BuildFails(f) \/ Put(f)
      <4>1. future'[f].state = "done"
        BY <3>2, FinishedType DEF BuildFails, Put, TypeOK
      <4> QED
        BY <4>1
    <3>3. CASE Forget(f)
      BY <3>3, Records DEF Forget, TypeOK
    <3> QED
      BY <1>5, <3>1, <3>2, <3>3 DEF Worker
  <2>3. Live' \subseteq Live /\ \A g \in Live' : g \in Futures /\ future'[g].key = future[g].key
    BY <2>1, <2>2, StillLive
  <2>4. \/ inflight' = inflight
        \/ inflight' = Forgotten(f) /\ future[f].state = "done"
    BY <1>5 DEF Worker, Build, BuildFails, Put, Forget
  <2>5. ASSUME ~closed, NEW g \in Live'
        PROVE  inflight'[future[g].key] = inflight[future[g].key]
    BY <1>0, <2>3, <2>4, <2>5, ForgottenKeeps
  <2>6. Len(cache') <= MaxSize
    <3>1. CASE cache' = cache
      BY <1>0, <3>1
    <3>2. CASE cache' # cache
      <4>1. cache' = Stored(future[f].key, future[f].value)
        BY <1>5, <3>2 DEF Worker, Build, BuildFails, Put, Forget, cacheVars
      <4>2. future[f].value \in Versions /\ future[f].key \in Keys
        BY DEF TypeOK, FutureType
      <4> DEFINE new == Stored(future[f].key, future[f].value)
      <4>3. Len(new) <= MaxSize
        BY <1>0, <4>2, StoredProperties DEF TypeOK
      <4> HIDE DEF new
      <4> QED
        BY <4>1, <4>3 DEF new
    <3> QED
      BY <3>1, <3>2
  <2>7. Bounded' /\ LiveIsInflight'
    BY <1>0, <2>1, <2>3, <2>5, <2>6, FewerBuilds
  <2>8. PoolHoldsQueued'
    BY <1>0, <2>1, SameQueue
  <2> QED
    BY <2>7, <2>8 DEF LimitInv
<1>6. CASE Shutdown
  <2>1. /\ \A f \in Futures :
             future'[f].state \in {"queued", "running", "built"} => future'[f] = future[f]
        /\ cache' = <<>> /\ closed' /\ pool' = <<>>
    BY <1>6, FinishedType DEF Shutdown, TypeOK
  <2>2. Live' \subseteq Live /\ \A g \in Live' : future'[g].key = future[g].key
    BY <2>1, StillLive
  <2>3. Len(cache') <= MaxSize /\ Len(pool') = 0
    BY <2>1
  <2>4. Bounded' /\ LiveIsInflight'
    BY <1>0, <2>1, <2>2, <2>3, FewerBuilds
  <2>5. PoolHoldsQueued'
    BY <2>3 DEF PoolHoldsQueued
  <2> QED
    BY <2>4, <2>5 DEF LimitInv
<1>7. CASE UNCHANGED vars
  BY <1>0, <1>1, <1>7 DEF vars
<1> QED
  BY <1>2, <1>3, <1>4, <1>5, <1>6, <1>7 DEF Next

\* The cache never outgrows its limit, the pool is never given more than
\* max_pending unfinished builds, and never two of one query: _submit admits a
\* build under the count of inflight entries alone, which outlives neither a
\* time-out nor a clear() (_submit, _forget, _put).
THEOREM LimitsCorrect == Spec => []Bounded
<1>1. Init => LimitInv
  BY LimitInit
<1>2. LimitInv => Bounded
  BY DEF LimitInv
<1> QED
  BY <1>1, <1>2, LimitStep, TypeCorrect, PTL DEF Spec

-----------------------------------------------------------------------------
(* Slots.                                                                  *)

\* Under the slots `slots' build f is entered; of the calls `calls', t is to add
\* the callback of f.
Held(slots, f) == \E k \in Keys : slots[k] = f

Adds(calls, t, f) == calls[t].pc = "hook" /\ calls[t].future = f

\* A step that enters no build keeps the slots, if a build that stays entered
\* keeps its key, its life and its callback or the turn that will add it.
LEMMA SlotsKept ==
    ASSUME TypeOK, TypeOK', SlotsHeld,
           \A k \in Keys : inflight'[k] \in {NoFuture, inflight[k]},
           \A f \in Futures :
             Held(inflight', f) =>
               /\ future'[f].key = future[f].key
               /\ future[f].state # "gone" => future'[f].state # "gone"
               /\ future[f].hooked => future'[f].hooked
               /\ \A t \in Turns : Adds(turn, t, f) => Adds(turn', t, f) \/ future'[f].hooked
    PROVE  SlotsHeld'
<1> SUFFICES ASSUME NEW k \in Keys, inflight'[k] # NoFuture
             PROVE  /\ future'[inflight'[k]].key = k
                    /\ future'[inflight'[k]].state # "gone"
                    /\ \/ future'[inflight'[k]].hooked
                       \/ \E t \in Turns : Adds(turn', t, inflight'[k])
  BY DEF SlotsHeld, Adds
<1> DEFINE f == inflight[k]
<1>1. inflight'[k] = f /\ f # NoFuture /\ f \in Futures
  BY DEF TypeOK
<1>2. Held(inflight', f)
  BY <1>1 DEF Held
<1>3. /\ future[f].key = k /\ future[f].state # "gone"
      /\ future[f].hooked \/ \E t \in Turns : Adds(turn, t, f)
  BY <1>1 DEF SlotsHeld, Adds
<1> HIDE DEF f
<1> QED
  BY <1>1, <1>2, <1>3

\* What _forget removes is no longer held.
LEMMA ForgottenFreed ==
    ASSUME TypeOK, SlotsHeld, NEW f \in Futures
    PROVE  \A k \in Keys : /\ Forgotten(f)[k] \in {NoFuture, inflight[k]}
                           /\ Forgotten(f)[k] # f
  BY CacheAssumption DEF Forgotten, SlotsHeld, TypeOK

\* Every step keeps the slots of _inflight.
LEMMA SlotsStep == TypeOK /\ TypeOK' /\ SlotsHeld /\ [Next]_vars => SlotsHeld'
<1> SUFFICES ASSUME TypeOK, TypeOK', SlotsHeld, [Next]_vars
             PROVE  SlotsHeld'
  OBVIOUS
<1> DEFINE Same(f) == /\ future'[f].key = future[f].key
                      /\ future[f].state # "gone" => future'[f].state # "gone"
                      /\ future[f].hooked => future'[f].hooked
<1>1. CASE Ingest \/ IngestFails \/ Clear
  BY <1>1 DEF Ingest, IngestFails, Clear, buildVars, SlotsHeld
<1>2. ASSUME NEW t \in Turns, Caller(t) PROVE SlotsHeld'
  <2>1. CASE Refused(t) \/ Join(t)
             \/ Answer(t) \/ Timeout(t) \/ \E k \in Keys, waits \in BOOLEAN : Ask(t, k, waits)
    <3>1. UNCHANGED buildVars /\ turn[t].pc # "hook"
      BY <2>1 DEF Ask, Refused, Join, Answer, Timeout
    <3>2. \A u \in Turns \ {t} : turn'[u] = turn[u]
      BY <2>1 DEF Ask, Refused, Join, Answer, Timeout, Return, TypeOK
    <3> QED
      BY <3>1, <3>2, SlotsKept DEF Adds, buildVars
  <2>2. ASSUME NEW f \in Futures, Submit(t, f)
        PROVE  SlotsHeld'
    <3>1. /\ turn'[t].pc = "hook" /\ turn'[t].future = f
          /\ \A u \in Turns \ {t} : turn'[u] = turn[u]
      BY <2>2 DEF Submit, TypeOK, Quiet
    <3>2. /\ future'[f].key = turn[t].key /\ future'[f].state = "queued"
          /\ \A g \in Futures \ {f} : future'[g] = future[g]
      BY <2>2 DEF Submit, TypeOK
    <3>3. /\ turn[t].pc = "submit" /\ turn[t].key \in Keys /\ future[f].state = "gone"
          /\ inflight' = [inflight EXCEPT ![turn[t].key] = f]
      BY <2>2 DEF Submit, TypeOK, TurnType, Free
    <3>4. SUFFICES ASSUME NEW k \in Keys, inflight'[k] # NoFuture
                   PROVE  /\ future'[inflight'[k]].key = k
                          /\ future'[inflight'[k]].state # "gone"
                          /\ \/ future'[inflight'[k]].hooked
                             \/ \E u \in Turns : Adds(turn', u, inflight'[k])
      BY <3>4 DEF SlotsHeld, Adds
    <3>5. CASE k = turn[t].key
      <4>1. inflight'[k] = f
        BY <3>3, <3>5 DEF TypeOK
      <4> QED
        BY <3>1, <3>2, <3>5, <4>1 DEF Adds
    <3>6. CASE k # turn[t].key
      <4> DEFINE g == inflight[k]
      <4>1. inflight'[k] = g /\ g # NoFuture /\ g \in Futures
        BY <3>3, <3>4, <3>6 DEF TypeOK
      <4>2. /\ future[g].key = k /\ future[g].state # "gone"
            /\ future[g].hooked \/ \E u \in Turns : Adds(turn, u, g)
        BY <4>1 DEF SlotsHeld, Adds
      <4> HIDE DEF g
      <4>3. future'[g] = future[g]
        BY <3>2, <3>3, <4>1, <4>2
      <4>4. \A u \in Turns : Adds(turn, u, g) => Adds(turn', u, g)
        BY <3>1, <3>3, <4>1 DEF Adds
      <4> QED
        BY <4>1, <4>2, <4>3, <4>4
    <3> QED
      BY <3>5, <3>6
  <2>3. CASE Hook(t)
    <3> DEFINE g == turn[t].future
    <3>0. g \in Futures
      BY <2>3 DEF Hook, TypeOK, TurnType
    <3>1. \A u \in Turns \ {t} : turn'[u] = turn[u]
      BY <2>3 DEF Hook, AfterHook, Return, TypeOK
    <3>2. \A u \in Turns, f \in Futures \ {g} : Adds(turn, u, f) => Adds(turn', u, f)
      BY <3>1 DEF Adds
    <3>3. CASE future[g].state = "done"
      <4>1. inflight' = Forgotten(g) /\ \A f \in Futures \ {g} : future'[f] = future[f]
        BY <2>3, <3>0, <3>3 DEF Hook, TypeOK
      <4>2. \A k \in Keys : inflight'[k] \in {NoFuture, inflight[k]} /\ inflight'[k] # g
        BY <3>0, <4>1, ForgottenFreed
      <4> HIDE DEF g
      <4> QED
        BY <3>2, <4>1, <4>2, SlotsKept DEF Held
    <3>4. CASE future[g].state # "done"
      <4>1. /\ inflight' = inflight /\ future'[g].hooked
            /\ future'[g].key = future[g].key /\ future'[g].state = future[g].state
            /\ \A f \in Futures \ {g} : future'[f] = future[f]
        <5> DEFINE r == [future[g] EXCEPT !.hooked = TRUE]
        <5>1. r.hooked /\ r.key = future[g].key /\ r.state = future[g].state
          BY <3>0 DEF TypeOK, FutureType
        <5>2. future' = [future EXCEPT ![g] = r] /\ inflight' = inflight
          BY <2>3, <3>4 DEF Hook
        <5> HIDE DEF g, r
        <5> QED
          BY <3>0, <5>1, <5>2 DEF TypeOK
      <4> HIDE DEF g
      <4> QED
        BY <3>2, <4>1, SlotsKept
    <3> QED
      BY <3>3, <3>4
  <2> QED
    BY <1>2, <2>1, <2>2, <2>3 DEF Caller
<1>3. CASE Run
  <2>1. Head(pool) \in Futures
    BY <1>3, HeadTailProperties DEF Run, TypeOK
  <2>2. \A f \in Futures : Same(f)
    BY <1>3, <2>1 DEF Run, TypeOK, FutureType
  <2>3. inflight' = inflight /\ turn' = turn
    BY <1>3 DEF Run
  <2> QED
    BY <2>2, <2>3, SlotsKept DEF Adds
<1>4. ASSUME NEW f \in Futures, Worker(f) PROVE SlotsHeld'
  <2>1. turn' = turn /\ \A g \in Futures \ {f} : future'[g] = future[g]
    BY <1>4 DEF Worker, Build, BuildFails, Put, Forget, TypeOK
  <2>2. CASE Forget(f)
    <3>1. \A k \in Keys : inflight'[k] \in {NoFuture, inflight[k]} /\ inflight'[k] # f
      BY <2>2, ForgottenFreed DEF Forget
    <3> QED
      BY <2>1, <3>1, SlotsKept DEF Held, Adds
  <2>3. CASE (\E v \in Versions : Build(f, v)) \/ BuildFails(f) \/ Put(f)
    <3>1. inflight' = inflight
      BY <2>3 DEF Build, BuildFails, Put
    <3>2. /\ future'[f].key = future[f].key /\ future'[f].hooked = future[f].hooked
          /\ future'[f].state # "gone"
      <4> DEFINE r(v) == [future[f] EXCEPT !.state = "built", !.value = v]
      <4>1. \A v \in Versions : /\ r(v).key = future[f].key /\ r(v).hooked = future[f].hooked
                                /\ r(v).state = "built"
        BY DEF TypeOK, FutureType
      <4>2. /\ Finished(f).key = future[f].key /\ Finished(f).hooked = future[f].hooked
            /\ Finished(f).state = "done"
        BY DEF Finished, TypeOK, FutureType
      <4>3. \/ \E v \in Versions : future' = [future EXCEPT ![f] = r(v)]
            \/ future' = [future EXCEPT ![f] = Finished(f)]
        BY <2>3 DEF Build, BuildFails, Put
      <4> HIDE DEF r
      <4> QED
        BY <4>1, <4>2, <4>3 DEF TypeOK
    <3> QED
      BY <2>1, <3>1, <3>2, SlotsKept DEF Adds
  <2> QED
    BY <1>4, <2>2, <2>3 DEF Worker
<1>5. CASE Shutdown
  BY <1>5 DEF Shutdown, SlotsHeld
<1>6. CASE UNCHANGED vars
  BY <1>6 DEF vars, SlotsHeld
<1> QED
  BY <1>1, <1>2, <1>3, <1>4, <1>5, <1>6 DEF Next

\* No query is locked out: a slot of _inflight is always of a build of that
\* query whose callback is to run, or is about to be added by the turn that
\* submitted the build (_submit, add_done_callback, _forget).
THEOREM SlotsCorrect == Spec => []SlotsHeld
<1>1. Init => SlotsHeld
  BY DEF Init, SlotsHeld
<1> QED
  BY <1>1, SlotsStep, TypeCorrect, PTL DEF Spec

-----------------------------------------------------------------------------
(* What the cache says while no sync has failed.                           *)

\* While no sync has failed the index of the last clear() is the present one,
\* but for a clear() that is owed.
SweptIsIndex ==
    /\ failures <= MaxFailures
    /\ failures = MaxFailures /\ sync = "idle" => swept = index

\* Nothing that is cached or built is of an index to come.
NothingAhead ==
    /\ \A i \in 1..Len(cache) : cache[i].value <= index
    /\ \A f \in Futures : future[f].state = "built" => future[f].value <= index

\* Every step keeps the index swept with the entries.
LEMMA SweptStep == TypeOK /\ SweptIsIndex /\ [Next]_vars => SweptIsIndex'
<1> SUFFICES ASSUME TypeOK, SweptIsIndex, [Next]_vars
             PROVE  SweptIsIndex'
  OBVIOUS
<1>1. CASE Ingest \/ IngestFails \/ Clear
  BY <1>1, CacheAssumption DEF Ingest, IngestFails, Clear, SweptIsIndex, TypeOK
<1>2. CASE UNCHANGED syncVars
  BY <1>2 DEF syncVars, SweptIsIndex
<1> QED
  BY <1>1, <1>2
  DEF Next, Caller, Ask, Refused, Join, Submit, Hook, Answer, Timeout, Run, Worker,
      Build, BuildFails, Put, Forget, Shutdown, vars, syncVars

\* No step stamps an entry ahead of the generation.
LEMMA AheadStep == TypeOK /\ NothingAhead /\ [Next]_vars => NothingAhead'
<1> SUFFICES ASSUME TypeOK, NothingAhead, [Next]_vars
             PROVE  NothingAhead'
  OBVIOUS
<1> USE Numbers, Records
<1>1. CASE Ingest \/ IngestFails \/ Clear
  <2>1. index' >= index /\ index \in Nat /\ index' \in Nat /\ future' = future
    BY <1>1 DEF Ingest, IngestFails, Clear, TypeOK, buildVars
  <2>2. cache' = cache \/ cache' = <<>>
    BY <1>1 DEF Ingest, IngestFails, Clear, cacheVars
  <2>3. \A i \in 1..Len(cache) : cache[i].value \in Nat
    <3>1. \A i \in 1..Len(cache) : cache[i] \in Entry
      BY ElementOfSeq DEF TypeOK
    <3> QED
      BY <3>1 DEF Entry, Versions
  <2>4. \A f \in Futures : future[f].value \in Nat
    BY DEF TypeOK, FutureType, Versions
  <2> QED
    BY <2>1, <2>2, <2>3, <2>4 DEF NothingAhead
<1>2. CASE /\ UNCHANGED index /\ cache' \in {cache, <<>>}
           /\ \A f \in Futures : future'[f].state = "built" =>
                /\ future'[f].value = future[f].value
                /\ future[f].state = "built"
  BY <1>2 DEF NothingAhead
<1>3. ASSUME NEW t \in Turns, Caller(t) PROVE NothingAhead'
  <2>1. UNCHANGED <<index, cache>>
    BY <1>3
    DEF Caller, Ask, Refused, Join, Submit, Hook, Answer, Timeout, syncVars, cacheVars
  <2>2. CASE UNCHANGED buildVars
    BY <1>2, <2>1, <2>2 DEF buildVars
  <2>3. ASSUME NEW f \in Futures, Submit(t, f) PROVE NothingAhead'
    <3>1. future'[f].state = "queued" /\ \A g \in Futures \ {f} : future'[g] = future[g]
      BY <2>3 DEF Submit, TypeOK
    <3> QED
      BY <1>2, <2>1, <3>1
  <2>4. CASE Hook(t)
    <3> DEFINE g == turn[t].future
               r == [future[g] EXCEPT !.hooked = TRUE]
    <3>1. future' = [future EXCEPT ![g] = r] \/ future' = [future EXCEPT ![g] = Unused]
      BY <2>4 DEF Hook
    <3>2. g \in Futures => r.state = future[g].state /\ r.value = future[g].value
      BY DEF TypeOK, FutureType
    <3> HIDE DEF g, r
    <3> QED
      BY <1>2, <2>1, <3>1, <3>2 DEF TypeOK
  <2> QED
    BY <1>3, <2>2, <2>3, <2>4 DEF Caller, Ask, Refused, Join, Answer, Timeout
<1>4. CASE Run
  <2>1. Head(pool) \in Futures
    BY <1>4, HeadTailProperties DEF Run, TypeOK
  <2>2. \A f \in Futures : /\ future'[f].value = future[f].value
                           /\ future'[f].state \in {future[f].state, "running"}
    BY <1>4, <2>1 DEF Run, TypeOK, FutureType
  <2> QED
    BY <1>2, <1>4, <2>2 DEF Run, syncVars, cacheVars
<1>5. ASSUME NEW f \in Futures, Worker(f) PROVE NothingAhead'
  <2>1. UNCHANGED index /\ \A g \in Futures \ {f} : future'[g] = future[g]
    BY <1>5 DEF Worker, Build, BuildFails, Put, Forget, TypeOK, syncVars
  <2>2. index \in Nat /\ future[f].key \in Keys /\ future[f].value \in Versions
    BY DEF TypeOK, FutureType, Versions
  <2>3. CASE \E v \in Versions : Build(f, v)
    <3>1. future'[f].value \in {0, index} /\ cache' = cache
      BY <2>3 DEF Build, TypeOK, FutureType, cacheVars
    <3> QED
      BY <2>1, <2>2, <3>1 DEF NothingAhead
  <2>4. CASE BuildFails(f) \/ Forget(f) \/ Put(f)
    <3>1. future'[f].state # "built"
      BY <2>4, FinishedType DEF BuildFails, Forget, Put, TypeOK
    <3>2. CASE cache' = cache
      BY <1>2, <2>1, <3>1, <3>2
    <3>3. CASE cache' # cache
      <4>1. future[f].state = "built" /\ cache' = Stored(future[f].key, future[f].value)
        BY <2>4, <3>3 DEF BuildFails, Forget, Put, cacheVars
      <4> DEFINE new == Stored(future[f].key, future[f].value)
      <4>2. \A i \in 1..Len(new) :
              \/ new[i].value = future[f].value
              \/ \E j \in 1..Len(cache) : new[i] = cache[j]
        BY <2>2, StoredProperties DEF TypeOK
      <4>3. \A i \in 1..Len(new) : new[i].value <= index
        <5> HIDE DEF new
        <5> QED BY <4>1, <4>2 DEF NothingAhead
      <4> HIDE DEF new
      <4> QED
        BY <2>1, <3>1, <4>1, <4>3 DEF NothingAhead, new
    <3> QED
      BY <3>2, <3>3
  <2> QED
    BY <1>5, <2>3, <2>4 DEF Worker
<1>6. CASE Shutdown
  <2>1. \A f \in Futures : future'[f] = future[f] \/ future'[f].state = "done"
    BY <1>6, FinishedType DEF Shutdown, TypeOK
  <2> QED
    BY <1>2, <1>6, <2>1 DEF Shutdown, syncVars
<1>7. CASE UNCHANGED vars
  BY <1>2, <1>7 DEF vars
<1> QED
  BY <1>1, <1>3, <1>4, <1>5, <1>6, <1>7 DEF Next

\* As long as every sync that stored something has got to its clear(), and
\* none is about to, a turn is answered from the cache with what the present
\* index says (_sync_once, _put).
THEOREM FollowsCorrect == Spec => []CacheFollowsSyncs
<1>1. Init => SweptIsIndex /\ NothingAhead
  BY CacheAssumption, Records DEF Init, SweptIsIndex, NothingAhead
<1>2. TypeOK /\ CachedSinceClear /\ SweptIsIndex /\ NothingAhead => CacheFollowsSyncs
  <2> SUFFICES ASSUME TypeOK, CachedSinceClear, SweptIsIndex, NothingAhead,
                      failures = MaxFailures, sync = "idle",
                      NEW i \in 1..Len(cache)
               PROVE  cache[i].value = index
    BY DEF CacheFollowsSyncs, CacheFollowsIndex
  <2>1. cache[i] \in Entry
    BY ElementOfSeq DEF TypeOK
  <2>2. cache[i].value \in Nat /\ index \in Nat
    BY <2>1, Numbers DEF Entry, TypeOK, Versions
  <2> QED
    BY <2>2 DEF CachedSinceClear, SweptIsIndex, NothingAhead
<1> QED
  BY <1>1, <1>2, SweptStep, AheadStep, TypeCorrect, FreshCorrect, PTL DEF Spec

=============================================================================
