----------------------- MODULE IncidentServiceProofs -----------------------
(***************************************************************************)
(* What is proved of IncidentService for every value of its constants: the *)
(* types, who holds the lifecycle lock, and that sessions, turns and tools *)
(* leave a sync its store and the service of one piece.                    *)
(***************************************************************************)
EXTENDS IncidentService, TLAPS

-----------------------------------------------------------------------------
(* The calls.                                                              *)

\* Call t stands at pc, with the rest of its record as it was; so do the others.
WentTo(t, pc) ==
    /\ call' \in [Callers -> CallType]
    /\ call'[t].pc = pc /\ call'[t].old = call[t].old /\ call'[t].sched = call[t].sched
    /\ \A u \in Callers \ {t} : call'[u] = call[u]

\* Goto moves one call.
LEMMA GotoFields ==
    ASSUME TypeOK, NEW t \in Callers, NEW pc \in CallPcs, Goto(t, pc)
    PROVE  WentTo(t, pc)
<1>1. call \in [Callers -> CallType] /\ call[t] \in CallType
  BY DEF TypeOK
<1>2. [call[t] EXCEPT !.pc = pc] \in CallType
  BY <1>1 DEF CallType
<1>3. call' = [call EXCEPT ![t] = [call[t] EXCEPT !.pc = pc]]
  BY <1>1 DEF Goto
<1>4. call' \in [Callers -> CallType]
  BY <1>1, <1>2, <1>3
<1>5. call'[t] = [call[t] EXCEPT !.pc = pc] /\ \A u \in Callers \ {t} : call'[u] = call[u]
  BY <1>1, <1>3
<1> QED
  BY <1>1, <1>4, <1>5 DEF WentTo, CallType

\* A call that has returned is idle.
LEMMA IdleType == Idle \in CallType /\ Idle.pc = "idle"
  BY DEF Idle, CallType, CallPcs

\* Return ends one call.
LEMMA ReturnFields ==
    ASSUME TypeOK, NEW t \in Callers, Return(t)
    PROVE  /\ call' \in [Callers -> CallType] /\ call'[t].pc = "idle"
           /\ \A u \in Callers \ {t} : call'[u] = call[u]
  BY IdleType DEF TypeOK, Return

\* Done, the end of ensure_initialized, gives the lock up and leaves the call of
\* a tool at its trigger, every other one idle.
LEMMA DoneFields ==
    ASSUME TypeOK, NEW t \in Callers, Done(t)
    PROVE  /\ lock' = None /\ call' \in [Callers -> CallType]
           /\ call'[t].pc \in {"pick", "idle"}
           /\ \A u \in Callers \ {t} : call'[u] = call[u]
<1>1. CASE Goto(t, "pick")
  BY <1>1, GotoFields DEF Done, WentTo, CallPcs
<1>2. CASE Return(t)
  BY <1>2, ReturnFields DEF Done
<1> QED
  BY <1>1, <1>2 DEF Done

\* One call moves and keeps, takes or gives up the lock as its place says.
LEMMA LockKept ==
    ASSUME TypeOK, NEW t \in Callers,
           call' \in [Callers -> CallType],
           \A u \in Callers \ {t} : call'[u] = call[u],
           \/ /\ lock' = lock
              /\ call'[t].pc \in Locked <=> call[t].pc \in Locked
           \/ lock = None /\ lock' = t /\ call'[t].pc \in Locked
           \/ lock = t /\ lock' = None /\ call'[t].pc \notin Locked
    PROVE  lock' \in Callers \cup {None} /\ \A u \in Callers : call'[u].pc \in Locked <=> lock' = u
<1>1. \A u \in Callers : call[u].pc \in Locked <=> lock = u
  BY DEF TypeOK
<1>2. lock \in Callers \cup {None} /\ None \notin Callers
  BY ServiceAssumption DEF TypeOK
<1> QED
  BY <1>1, <1>2

-----------------------------------------------------------------------------
(* The syncs.                                                              *)

\* The sync of scheduler d is x now; the others are what they were.
LEMMA SyncPlaced ==
    ASSUME TypeOK, NEW d \in Scheds, NEW x \in SyncType, sync' = [sync EXCEPT ![d] = x]
    PROVE  sync' \in [Scheds -> SyncType]
  BY DEF TypeOK

\* Moving the thread of a scheduler on keeps its type.
LEMMA SyncMoved ==
    ASSUME TypeOK, NEW d \in Scheds, NEW pc \in SyncPcs
    PROVE  /\ [sync EXCEPT ![d].pc = pc] \in [Scheds -> SyncType]
           /\ [sync EXCEPT ![d].pc = pc][d].pc = pc
           /\ [sync EXCEPT ![d].pc = pc][d].store = sync[d].store
           /\ \A e \in Scheds \ {d} : [sync EXCEPT ![d].pc = pc][e] = sync[e]
<1>1. sync \in [Scheds -> SyncType] /\ sync[d] \in SyncType
  BY DEF TypeOK
<1>2. [sync[d] EXCEPT !.pc = pc] \in SyncType
  BY <1>1 DEF SyncType
<1>3. [sync EXCEPT ![d].pc = pc] = [sync EXCEPT ![d] = [sync[d] EXCEPT !.pc = pc]]
  BY <1>1
<1> QED
  BY <1>1, <1>2, <1>3 DEF SyncType

\* A thread that has ended is idle and holds nothing.
LEMMA NoSyncType == NoSync \in SyncType /\ NoSync.pc = "idle" /\ NoSync.store = None
  BY DEF NoSync, SyncType, SyncPcs

\* A trigger starts the thread of a scheduler or changes nothing.
LEMMA TriggeredFields ==
    ASSUME TypeOK, NEW d \in Scheds, Triggered(d)
    PROVE  /\ recent' \in [Scheds -> BOOLEAN] /\ sync' \in [Scheds -> SyncType]
           /\ \/ sync' = sync
              \/ ~Running(d) /\ sync'[d].pc = "check" /\ \A e \in Scheds \ {d} : sync'[e] = sync[e]
<1>1. CASE Running(d) \/ recent[d]
  BY <1>1 DEF Triggered, TypeOK
<1>2. CASE ~(Running(d) \/ recent[d])
  <2>1. recent' = [recent EXCEPT ![d] = TRUE] /\ sync' = [sync EXCEPT ![d].pc = "check"]
    BY <1>2 DEF Triggered
  <2>2. recent' \in [Scheds -> BOOLEAN]
    BY <2>1 DEF TypeOK
  <2>3. "check" \in SyncPcs
    BY DEF SyncPcs
  <2> QED
    BY <1>2, <2>1, <2>2, <2>3, SyncMoved
<1> QED
  BY <1>1, <1>2

-----------------------------------------------------------------------------
(* Types.                                                                  *)

\* Init establishes the types.
LEMMA TypeInit == Init => TypeOK
<1> SUFFICES ASSUME Init PROVE TypeOK
  OBVIOUS
<1>1. \A t \in Callers : call[t].pc \notin Locked /\ lock # t
  BY ServiceAssumption DEF Init, Idle, Locked
<1>2. call \in [Callers -> CallType] /\ sync \in [Scheds -> SyncType]
  BY IdleType, NoSyncType DEF Init
<1>3. /\ opened \in [Stores -> Configs \cup {None}] /\ made \in [Scheds -> Configs \cup {None}]
      /\ recent \in [Scheds -> BOOLEAN] /\ budget \in 0..MaxEvents
  BY ServiceAssumption DEF Init
<1>4. \A t \in Callers : call[t].pc \in Locked <=> lock = t
  BY <1>1
<1> QED
  BY <1>2, <1>3, <1>4 DEF Init, TypeOK

\* The type invariant from what a step does to the calls, the lock, the syncs
\* and the rest.
LEMMA TypeFrom ==
    ASSUME TypeOK, NEW t \in Callers,
           disk' \in Configs /\ budget' \in 0..MaxEvents,
           config' \in Configs \cup {None} /\ store' \in Stores \cup {None},
           client' \in BOOLEAN /\ sched' \in Scheds \cup {None} /\ initialized' \in BOOLEAN,
           opened' \in [Stores -> Configs \cup {None}],
           made' \in [Scheds -> Configs \cup {None}],
           recent' \in [Scheds -> BOOLEAN] /\ sync' \in [Scheds -> SyncType],
           raced' \in BOOLEAN,
           call' \in [Callers -> CallType],
           \A u \in Callers \ {t} : call'[u] = call[u],
           \/ /\ lock' = lock
              /\ call'[t].pc \in Locked <=> call[t].pc \in Locked
           \/ lock = None /\ lock' = t /\ call'[t].pc \in Locked
           \/ lock = t /\ lock' = None /\ call'[t].pc \notin Locked
    PROVE  TypeOK'
<1>1. lock' \in Callers \cup {None} /\ \A u \in Callers : call'[u].pc \in Locked <=> lock' = u
  BY LockKept
<1> QED
  BY <1>1 DEF TypeOK

\* The steps of a caller up to the replacement of the store keep the types.
LEMMA EntryType ==
    ASSUME TypeOK, LifecycleInv, NEW t \in Callers,
           \/ Acquire(t) \/ Load(t) \/ Reuse(t) \/ Settled(t) \/ Deferred(t)
    PROVE  TypeOK'
<1> USE DEF fields, objects
<1>1. CASE Acquire(t)
  <2>1. \/ lock' = t /\ Goto(t, "load")
        \/ lock' = lock /\ (Goto(t, "pick") \/ Return(t))
    BY <1>1 DEF Acquire
  <2>2. CASE lock' = t /\ Goto(t, "load")
    <3>1. WentTo(t, "load")
      BY <2>2, GotoFields DEF CallPcs, Locked
    <3> QED
      BY <1>1, <2>2, <3>1, TypeFrom DEF Acquire, WentTo, TypeOK, Locked
  <2>3. CASE lock' = lock /\ (Goto(t, "pick") \/ Return(t))
    <3>1. /\ call' \in [Callers -> CallType] /\ call'[t].pc \in {"pick", "idle"}
          /\ \A u \in Callers \ {t} : call'[u] = call[u]
      BY <2>3, GotoFields, ReturnFields DEF CallPcs, WentTo
    <3> QED
      BY <1>1, <2>3, <3>1, TypeFrom DEF Acquire, TypeOK, Locked
  <2> QED
    BY <2>1, <2>2, <2>3
<1>2. CASE Load(t)
  <2> DEFINE pc == IF initialized /\ store # None /\ disk = config THEN "reuse"
                   ELSE IF sched = None THEN "close" ELSE "join"
  <2>1. pc \in CallPcs /\ pc \in Locked
    BY DEF CallPcs, Locked
  <2>2. call' = [call EXCEPT ![t].pc = pc, ![t].old = config]
    BY <1>2 DEF Load
  <2> HIDE DEF pc
  <2>3. call \in [Callers -> CallType] /\ call[t] \in CallType /\ config \in Configs \cup {None}
    BY DEF TypeOK
  <2>4. [call[t] EXCEPT !.pc = pc, !.old = config] \in CallType
    BY <2>1, <2>3 DEF CallType
  <2>5. call' = [call EXCEPT ![t] = [call[t] EXCEPT !.pc = pc, !.old = config]]
    BY <2>2, <2>3
  <2>6. call' \in [Callers -> CallType] /\ call'[t].pc = pc
        /\ \A u \in Callers \ {t} : call'[u] = call[u]
    BY <2>3, <2>4, <2>5 DEF CallType
  <2>7. call[t].pc \in Locked
    BY <1>2 DEF Load, Locked
  <2> QED
    BY <1>2, <2>1, <2>6, <2>7, TypeFrom DEF Load, TypeOK
<1>3. CASE Reuse(t)
  <2>1. lock = t /\ call[t].pc = "reuse"
    BY <1>3 DEF Reuse, TypeOK, Locked
  <2>4. sched \in Scheds
    BY <2>1 DEF LifecycleInv, CallInv, WholeFor, TypeOK
  <2>2. recent' \in [Scheds -> BOOLEAN] /\ sync' \in [Scheds -> SyncType]
    <3>1. CASE client' /\ call[t].writes
      BY <1>3, <2>4, <3>1, TriggeredFields DEF Reuse
    <3>2. CASE ~(client' /\ call[t].writes)
      BY <1>3, <3>2 DEF Reuse, TypeOK
    <3> QED
      BY <3>1, <3>2
  <2>3. Done(t)
    BY <1>3 DEF Reuse
  <2> QED
    BY <1>3, <2>1, <2>2, <2>3, DoneFields, TypeFrom DEF Reuse, TypeOK, Locked
<1>4. CASE Settled(t)
  <2>1. WentTo(t, "close")
    BY <1>4, GotoFields DEF Settled, CallPcs, Locked
  <2> QED
    BY <1>4, <2>1, TypeFrom DEF Settled, WentTo, TypeOK, Locked
<1>5. CASE Deferred(t)
  <2>1. lock = t /\ call[t].pc = "join"
    BY <1>5 DEF Deferred, TypeOK, Locked
  <2>2. Done(t) /\ config' \in Configs \cup {None}
    BY <1>5 DEF Deferred, TypeOK, CallType
  <2> QED
    BY <1>5, <2>1, <2>2, DoneFields, TypeFrom DEF Deferred, TypeOK, Locked
<1> QED
  BY <1>1, <1>2, <1>3, <1>4, <1>5

\* Those that replace the store and the scheduler, and the trigger of a tool.
LEMMA ReplaceType ==
    ASSUME TypeOK, LifecycleInv, NEW t \in Callers,
           \/ CloseOld(t) \/ (\E s \in Stores : OpenNew(t, s)) \/ OpenFails(t)
           \/ (\E d \in Scheds : Install(t, d)) \/ Pick(t) \/ Trigger(t)
    PROVE  TypeOK'
<1> USE DEF fields, objects
<1>1. CASE CloseOld(t)
  <2>1. WentTo(t, "open")
    BY <1>1, GotoFields DEF CloseOld, CallPcs, Locked
  <2>2. opened' \in [Stores -> Configs \cup {None}]
    BY <1>1 DEF CloseOld, TypeOK
  <2> QED
    BY <1>1, <2>1, <2>2, TypeFrom DEF CloseOld, WentTo, TypeOK, Locked
<1>2. ASSUME NEW s \in Stores, OpenNew(t, s) PROVE TypeOK'
  <2>1. WentTo(t, "install")
    BY <1>2, GotoFields DEF OpenNew, CallPcs, Locked
  <2>2. opened' \in [Stores -> Configs \cup {None}]
    BY <1>2 DEF OpenNew, TypeOK
  <2> QED
    BY <1>2, <2>1, <2>2, TypeFrom DEF OpenNew, WentTo, TypeOK, Locked
<1>3. CASE OpenFails(t)
  <2>1. WentTo(t, "install")
    BY <1>3, GotoFields DEF OpenFails, CallPcs, Locked
  <2>2. budget' \in 0..MaxEvents
    BY <1>3, ServiceAssumption DEF OpenFails, TypeOK
  <2> QED
    BY <1>3, <2>1, <2>2, TypeFrom DEF OpenFails, WentTo, TypeOK, Locked
<1>4. ASSUME NEW d \in Scheds, Install(t, d) PROVE TypeOK'
  <2>1. lock = t /\ call[t].pc = "install"
    BY <1>4 DEF Install, TypeOK, Locked
  <2>2. Done(t)
    BY <1>4 DEF Install
  <2>3. made' \in [Scheds -> Configs \cup {None}]
    BY <1>4 DEF Install, TypeOK
  <2>4. recent' \in [Scheds -> BOOLEAN]
    BY <1>4 DEF Install, TypeOK
  <2>5. sync' = [sync EXCEPT ![d].pc = "check"] \/ sync' = sync
    BY <1>4 DEF Install
  <2>6. sync' \in [Scheds -> SyncType]
    <3>1. "check" \in SyncPcs /\ sync \in [Scheds -> SyncType]
      BY DEF TypeOK, SyncPcs
    <3> QED
      BY <2>5, <3>1, SyncMoved
  <2> QED
    BY <1>4, <2>1, <2>2, <2>3, <2>4, <2>6, DoneFields, TypeFrom DEF Install, TypeOK, Locked
<1>5. CASE Pick(t)
  <2>1. call \in [Callers -> CallType] /\ call[t] \in CallType /\ sched \in Scheds \cup {None}
    BY DEF TypeOK
  <2>2. [call[t] EXCEPT !.pc = "trigger", !.sched = sched] \in CallType
    BY <2>1 DEF CallType, CallPcs
  <2>3. call' = [call EXCEPT ![t] = [call[t] EXCEPT !.pc = "trigger", !.sched = sched]]
    BY <1>5, <2>1 DEF Pick
  <2>4. call' \in [Callers -> CallType] /\ call'[t].pc = "trigger"
        /\ \A u \in Callers \ {t} : call'[u] = call[u]
    BY <2>1, <2>2, <2>3 DEF CallType
  <2> QED
    BY <1>5, <2>4, TypeFrom DEF Pick, TypeOK, Locked
<1>6. CASE Trigger(t)
  <2>1. call[t].sched \in Scheds
    BY <1>6 DEF Trigger, LifecycleInv, CallInv, TypeOK, CallType
  <2>2. recent' \in [Scheds -> BOOLEAN] /\ sync' \in [Scheds -> SyncType]
    BY <1>6, <2>1, TriggeredFields DEF Trigger
  <2>3. Return(t) /\ raced' \in BOOLEAN
    BY <1>6 DEF Trigger, TypeOK
  <2> QED
    BY <1>6, <2>2, <2>3, ReturnFields, TypeFrom DEF Trigger, TypeOK, Locked
<1> QED
  BY <1>1, <1>2, <1>3, <1>4, <1>5, <1>6

\* The steps of a sync change its own record only.
LEMMA SyncingFields ==
    ASSUME TypeOK, NEW d \in Scheds, Syncing(d)
    PROVE  /\ SyncOnly /\ sync' \in [Scheds -> SyncType]
           /\ \A e \in Scheds \ {d} : sync'[e] = sync[e]
           /\ \/ ~Running(d)' /\ sync'[d].store = None
              \/ /\ sync[d].pc = "check" /\ store # None
                 /\ sync'[d].pc = "store"
              \/ /\ sync[d].pc = "store" /\ sync'[d].pc = "query" /\ sync'[d].store = store
              \/ /\ sync[d].pc = "query" /\ sync'[d].pc = "ingest"
                 /\ sync'[d].store = sync[d].store
              \/ /\ sync[d].pc \in {"ingest", "retain"} /\ sync'[d].pc \in {"retain", "clear"}
<1>1. /\ sync \in [Scheds -> SyncType] /\ sync[d] \in SyncType
      /\ store \in Stores \cup {None} /\ config \in Configs \cup {None}
  BY DEF TypeOK
<1>2. CASE Ends(d)
  BY <1>1, <1>2, NoSyncType DEF Ends, Syncing, Check, TakeStore, TakeQuery, Ingest,
     IngestFails, Retain, Clear, Running
<1>3. CASE sync[d].pc = "check" /\ store # None /\ sync' = [sync EXCEPT ![d].pc = "store"]
  BY <1>1, <1>3, SyncMoved DEF Syncing, Check, TakeStore, TakeQuery, Ingest, IngestFails,
     Retain, Clear, SyncPcs
<1>4. CASE TakeStore(d)
  <2>1. [sync[d] EXCEPT !.pc = "query", !.store = store] \in SyncType
    BY <1>1 DEF SyncType, SyncPcs
  <2>2. sync' = [sync EXCEPT ![d] = [sync[d] EXCEPT !.pc = "query", !.store = store]]
    BY <1>1, <1>4 DEF TakeStore
  <2> QED
    BY <1>1, <1>4, <2>1, <2>2 DEF TakeStore, SyncType
<1>5. CASE TakeQuery(d)
  <2> DEFINE used == sync[d].used \cup {config}
  <2>1. used \in SUBSET (Configs \cup {None})
    BY <1>1 DEF SyncType
  <2>2. sync' = [sync EXCEPT ![d] = [sync[d] EXCEPT !.pc = "ingest", !.used = used]]
    BY <1>1, <1>5 DEF TakeQuery
  <2> HIDE DEF used
  <2>3. [sync[d] EXCEPT !.pc = "ingest", !.used = used] \in SyncType
    BY <1>1, <2>1 DEF SyncType, SyncPcs
  <2> QED
    BY <1>1, <1>5, <2>2, <2>3 DEF TakeQuery, SyncType
<1>6. CASE sync[d].pc = "ingest"
           /\ sync' = [sync EXCEPT ![d].pc = "retain", ![d].store = None]
  <2>1. [sync[d] EXCEPT !.pc = "retain", !.store = None] \in SyncType
    BY <1>1 DEF SyncType, SyncPcs
  <2>2. sync' = [sync EXCEPT ![d] = [sync[d] EXCEPT !.pc = "retain", !.store = None]]
    BY <1>1, <1>6
  <2>3. SyncOnly
    BY DEF Syncing, Check, TakeStore, TakeQuery, Ingest, IngestFails, Retain, Clear
  <2> QED
    BY <1>1, <1>6, <2>1, <2>2, <2>3 DEF SyncType
<1>7. CASE Retain(d)
  <2> DEFINE used == IF store = None THEN sync[d].used ELSE sync[d].used \cup {config}
  <2>1. used \in SUBSET (Configs \cup {None})
    BY <1>1 DEF SyncType
  <2>2. sync' = [sync EXCEPT ![d] = [sync[d] EXCEPT !.pc = "clear", !.used = used]]
    BY <1>1, <1>7 DEF Retain
  <2> HIDE DEF used
  <2>3. [sync[d] EXCEPT !.pc = "clear", !.used = used] \in SyncType
    BY <1>1, <2>1 DEF SyncType, SyncPcs
  <2> QED
    BY <1>1, <1>7, <2>2, <2>3 DEF Retain, SyncType
<1> QED
  BY <1>2, <1>3, <1>4, <1>5, <1>6, <1>7 DEF Syncing, Check, Ingest, IngestFails, Clear

\* The configuration file, the clock and new calls keep the types.
LEMMA WorldType ==
    ASSUME TypeOK,
           \/ EditDisk \/ (\E d \in Scheds : TimePasses(d))
           \/ (\E t \in Callers, kind \in Kinds, writes \in BOOLEAN : Begin(t, kind, writes))
    PROVE  TypeOK'
<1> USE DEF fields, objects
<1>1. CASE EditDisk
  BY <1>1, ServiceAssumption DEF EditDisk, TypeOK
<1>2. CASE \E d \in Scheds : TimePasses(d)
  BY <1>2 DEF TimePasses, TypeOK
<1>3. ASSUME NEW t \in Callers, NEW kind \in Kinds, NEW writes \in BOOLEAN,
             Begin(t, kind, writes)
      PROVE  TypeOK'
  <2> DEFINE x == [Idle EXCEPT !.pc = "lock", !.kind = kind, !.writes = writes]
  <2>1. x \in CallType /\ x.pc = "lock"
    BY ServiceAssumption DEF CallType, CallPcs, Idle
  <2>2. call' = [call EXCEPT ![t] = x]
    BY <1>3 DEF Begin
  <2> HIDE DEF x
  <2>3. call' \in [Callers -> CallType] /\ call'[t].pc = "lock"
        /\ \A u \in Callers \ {t} : call'[u] = call[u]
    BY <2>1, <2>2 DEF TypeOK
  <2>4. /\ budget' = budget \/ (budget > 0 /\ budget' = budget - 1)
        /\ call[t].pc = "idle" /\ UNCHANGED <<raced, disk, fields, lock, objects>>
    BY <1>3 DEF Begin
  <2>5. budget' \in 0..MaxEvents
    BY <2>4, ServiceAssumption DEF TypeOK
  <2>6. call'[t].pc \notin Locked /\ call[t].pc \notin Locked
    BY <2>3, <2>4 DEF Locked
  <2> QED
    BY <2>3, <2>4, <2>5, <2>6, TypeFrom DEF TypeOK
<1> QED
  BY <1>1, <1>2, <1>3

\* Every step keeps the types where the lifecycle is right.
LEMMA TypeStep == TypeOK /\ LifecycleInv /\ [Next]_vars => TypeOK'
<1> SUFFICES ASSUME TypeOK, LifecycleInv, [Next]_vars PROVE TypeOK'
  OBVIOUS
<1>1. CASE UNCHANGED vars
  BY <1>1 DEF vars, fields, objects, TypeOK
<1>2. ASSUME NEW d \in Scheds, Syncing(d) PROVE TypeOK'
  BY <1>2, SyncingFields DEF SyncOnly, fields, TypeOK
<1>3. ASSUME NEW t \in Callers, Caller(t) PROVE TypeOK'
  BY <1>3, EntryType, ReplaceType DEF Caller
<1> QED
  BY <1>1, <1>2, <1>3, WorldType DEF Next

-----------------------------------------------------------------------------
(* The lifecycle.                                                          *)

\* What the lifecycle invariant speaks of, but the calls.
piece == <<config, store, sched, initialized, opened, made>>

\* A service that did not change in its configuration, store and scheduler is
\* as whole as it was, and a call that stands where it stood is as right.
LEMMA WholeKept ==
    ASSUME UNCHANGED piece
    PROVE  /\ \A c : WholeFor(c)' = WholeFor(c)
           /\ \A t \in Callers : call'[t] = call[t] => CallInv(t)' = CallInv(t)
  BY DEF piece, WholeFor, CallInv

\* A step of one call keeps the lifecycle right if it leaves that call and the
\* service right: either nothing but the calls changes, or that call has the
\* lock and the others are not inside an initialization.
LEMMA LifecycleFrom ==
    ASSUME TypeOK, LifecycleInv, NEW t \in Callers,
           \A u \in Callers \ {t} : call'[u] = call[u],
           lock = t \/ UNCHANGED piece,
           initialized => initialized',
           CallInv(t)',
           initialized' <=> sched' # None,
           lock' = None /\ initialized' => WholeFor(config)',
           \A s \in Stores : opened'[s] # None => s = store'
    PROVE  LifecycleInv'
<1>1. ASSUME NEW u \in Callers \ {t} PROVE CallInv(u)'
  <2>1. CallInv(u) /\ call'[u] = call[u]
    BY DEF LifecycleInv
  <2>2. CASE UNCHANGED piece
    BY <2>1, <2>2, WholeKept
  <2>3. CASE lock = t
    <3>1. call[u].pc \notin Locked
      BY <2>3 DEF TypeOK
    <3> QED
      BY <2>1, <3>1 DEF CallInv, Locked
  <2> QED
    BY <2>2, <2>3
<1> QED
  BY <1>1 DEF LifecycleInv

\* Nothing is open and nothing was initialized before the first call.
LEMMA LifecycleInit == Init => LifecycleInv
  BY DEF Init, LifecycleInv, CallInv, Idle

\* Configurations are not None, and neither is an id.
LEMMA NotNone == None \notin Configs /\ None \notin Stores /\ None \notin Scheds
  BY ServiceAssumption

\* The steps of a caller up to the replacement of the store.
LEMMA EntryLifecycle ==
    ASSUME TypeOK, TypeOK', LifecycleInv, NEW t \in Callers,
           \/ Acquire(t) \/ Load(t) \/ Reuse(t) \/ Settled(t) \/ Deferred(t)
    PROVE  LifecycleInv'
<1> USE DEF fields, objects, piece
<1>0. CallInv(t)
  BY DEF LifecycleInv
<1>1. CASE Acquire(t)
  <2>1. UNCHANGED piece
    BY <1>1 DEF Acquire
  <2>2. CASE lock' = t /\ Goto(t, "load")
    <3>1. WentTo(t, "load")
      BY <2>2, GotoFields DEF CallPcs, Locked
    <3>2. lock = None /\ lock' # None
      BY <1>1, <2>2, ServiceAssumption DEF Acquire
    <3>3. CallInv(t)'
      BY <2>1, <3>1, <3>2 DEF CallInv, WentTo, LifecycleInv, WholeFor
    <3> QED
      BY <2>1, <3>1, <3>2, <3>3, LifecycleFrom DEF LifecycleInv, WentTo
  <2>3. CASE lock' = lock /\ (Goto(t, "pick") \/ Return(t))
    <3>1. /\ call'[t].pc \in {"pick", "idle"}
          /\ \A u \in Callers \ {t} : call'[u] = call[u]
      BY <2>3, GotoFields, ReturnFields DEF CallPcs, WentTo
    <3>2. call'[t].pc = "pick" => initialized
      BY <1>1, <2>3, ReturnFields, ServiceAssumption DEF Acquire
    <3>3. CallInv(t)'
      BY <2>1, <3>1, <3>2 DEF CallInv
    <3> QED
      BY <2>1, <2>3, <3>1, <3>3, LifecycleFrom, WholeKept DEF LifecycleInv
  <2> QED
    BY <1>1, <2>2, <2>3 DEF Acquire
<1>2. CASE Load(t)
  <2> DEFINE pc == IF initialized /\ store # None /\ disk = config THEN "reuse"
                   ELSE IF sched = None THEN "close" ELSE "join"
  <2>1. lock = t /\ lock' = t /\ t # None
    BY <1>2, ServiceAssumption DEF Load, TypeOK, Locked
  <2>2. call[t] \in CallType /\ call \in [Callers -> CallType]
    BY DEF TypeOK
  <2>3. call'[t].pc = pc /\ call'[t].old = config /\ \A u \in Callers \ {t} : call'[u] = call[u]
    BY <1>2, <2>2 DEF Load, CallType
  <2>4. /\ call[t].pc = "load" /\ config' = disk /\ disk # None
        /\ UNCHANGED <<store, sched, initialized, opened, made>>
    BY <1>2, NotNone DEF Load, TypeOK
  <2>5. \/ call'[t].pc = "reuse" /\ initialized /\ store # None /\ disk = config
        \/ call'[t].pc = "close"
        \/ call'[t].pc = "join" /\ sched # None
    BY <2>3
  <2>6. CallInv(t)'
    BY <1>0, <2>3, <2>4, <2>5 DEF CallInv, WholeFor, LifecycleInv
  <2> QED
    BY <2>1, <2>3, <2>4, <2>6, LifecycleFrom DEF LifecycleInv
<1>3. CASE Reuse(t)
  <2>1. Done(t) /\ UNCHANGED piece /\ call[t].pc = "reuse"
    BY <1>3 DEF Reuse
  <2>2. WholeFor(config) /\ initialized
    BY <1>0, <2>1 DEF CallInv, WholeFor
  <2>3. CallInv(t)' /\ \A u \in Callers \ {t} : call'[u] = call[u]
    BY <2>1, <2>2, DoneFields DEF CallInv
  <2> QED
    BY <2>1, <2>2, <2>3, LifecycleFrom, WholeKept DEF LifecycleInv
<1>4. CASE Settled(t)
  <2>1. WentTo(t, "close") /\ UNCHANGED piece /\ UNCHANGED lock /\ call[t].pc = "join"
    BY <1>4, GotoFields DEF Settled, CallPcs, Locked
  <2>2. lock = t /\ t # None
    BY <2>1, ServiceAssumption DEF TypeOK, Locked
  <2>3. config # None
    BY <1>0, <2>1 DEF CallInv
  <2>4. CallInv(t)'
    BY <2>1, <2>3 DEF CallInv, WentTo
  <2> QED
    BY <2>1, <2>2, <2>4, LifecycleFrom DEF LifecycleInv, WentTo
<1>5. CASE Deferred(t)
  <2>1. /\ Done(t) /\ call[t].pc = "join" /\ config' = call[t].old
        /\ UNCHANGED <<store, sched, initialized, opened, made>>
    BY <1>5 DEF Deferred
  <2>2. lock = t
    BY <2>1 DEF TypeOK, Locked
  <2>3. WholeFor(call[t].old)
    BY <1>0, <2>1 DEF CallInv
  <2>4. WholeFor(config)' /\ initialized'
    BY <2>1, <2>3 DEF WholeFor
  <2>5. CallInv(t)' /\ \A u \in Callers \ {t} : call'[u] = call[u]
    BY <2>1, <2>4, DoneFields DEF CallInv
  <2> QED
    BY <2>1, <2>2, <2>4, <2>5, LifecycleFrom DEF LifecycleInv
<1> QED
  BY <1>1, <1>2, <1>3, <1>4, <1>5

\* Those that replace the store and the scheduler, and the trigger of a tool.
LEMMA ReplaceLifecycle ==
    ASSUME TypeOK, TypeOK', LifecycleInv, NEW t \in Callers,
           \/ CloseOld(t) \/ (\E s \in Stores : OpenNew(t, s)) \/ OpenFails(t)
           \/ (\E d \in Scheds : Install(t, d)) \/ Pick(t) \/ Trigger(t)
    PROVE  LifecycleInv'
<1> USE DEF fields, objects, piece
<1>0. CallInv(t)
  BY DEF LifecycleInv
<1>1. CASE CloseOld(t)
  <2>1. /\ WentTo(t, "open") /\ lock' = lock /\ call[t].pc = "close"
        /\ UNCHANGED <<config, store, sched, initialized, made>>
        /\ opened' = IF store = None THEN opened ELSE [opened EXCEPT ![store] = None]
    BY <1>1, GotoFields DEF CloseOld, CallPcs, Locked
  <2>2. lock = t /\ t # None /\ config # None
    BY <1>0, <2>1, ServiceAssumption DEF TypeOK, Locked, CallInv
  <2>3. \A s \in Stores : opened'[s] = None
    BY <2>1, NotNone DEF LifecycleInv, TypeOK
  <2>4. CallInv(t)'
    BY <2>1, <2>2, <2>3 DEF CallInv, WentTo
  <2> QED
    BY <2>1, <2>2, <2>3, <2>4, LifecycleFrom DEF LifecycleInv, WentTo
<1>2. ASSUME NEW s \in Stores, OpenNew(t, s) PROVE LifecycleInv'
  <2>1. /\ WentTo(t, "install") /\ lock' = lock /\ call[t].pc = "open"
        /\ UNCHANGED <<config, sched, initialized, made>>
        /\ opened' = [opened EXCEPT ![s] = config] /\ store' = s
    BY <1>2, GotoFields DEF OpenNew, CallPcs, Locked
  <2>2. lock = t /\ t # None /\ config # None /\ \A e \in Stores : opened[e] = None
    BY <1>0, <2>1, ServiceAssumption DEF TypeOK, Locked, CallInv
  <2>3. opened'[s] = config /\ \A e \in Stores \ {s} : opened'[e] = None
    BY <2>1, <2>2 DEF TypeOK
  <2>4. CallInv(t)'
    BY <2>1, <2>2, <2>3 DEF CallInv, WentTo
  <2> QED
    BY <2>1, <2>2, <2>3, <2>4, LifecycleFrom DEF LifecycleInv, WentTo
<1>3. CASE OpenFails(t)
  <2>1. /\ WentTo(t, "install") /\ lock' = lock /\ call[t].pc = "open"
        /\ UNCHANGED <<config, sched, initialized, made, opened>> /\ store' = None
    BY <1>3, GotoFields DEF OpenFails, CallPcs, Locked
  <2>2. lock = t /\ t # None /\ config # None /\ \A e \in Stores : opened[e] = None
    BY <1>0, <2>1, ServiceAssumption DEF TypeOK, Locked, CallInv
  <2>3. CallInv(t)'
    BY <2>1, <2>2 DEF CallInv, WentTo
  <2> QED
    BY <2>1, <2>2, <2>3, LifecycleFrom DEF LifecycleInv, WentTo
<1>4. ASSUME NEW d \in Scheds, Install(t, d) PROVE LifecycleInv'
  <2>1. /\ Done(t) /\ call[t].pc = "install" /\ UNCHANGED <<config, store, opened>>
        /\ sched' = d /\ made' = [made EXCEPT ![d] = config] /\ initialized' = TRUE
    BY <1>4 DEF Install
  <2>2. lock = t /\ d # None /\ config # None /\ (store # None => opened[store] = config)
    BY <1>0, <2>1, NotNone DEF TypeOK, Locked, CallInv
  <2>3. made'[d] = config
    BY <2>1 DEF TypeOK
  <2>4. WholeFor(config)'
    BY <2>1, <2>2, <2>3 DEF WholeFor
  <2>5. CallInv(t)' /\ \A u \in Callers \ {t} : call'[u] = call[u]
    BY <2>1, <2>4, DoneFields DEF CallInv
  <2> QED
    BY <2>1, <2>2, <2>4, <2>5, LifecycleFrom DEF LifecycleInv
<1>5. CASE Pick(t)
  <2>1. /\ call[t].pc = "pick" /\ UNCHANGED piece /\ UNCHANGED lock
        /\ call' = [call EXCEPT ![t].pc = "trigger", ![t].sched = sched]
    BY <1>5 DEF Pick
  <2>2. call \in [Callers -> CallType] /\ call[t] \in CallType
    BY DEF TypeOK
  <2>3. /\ call'[t].pc = "trigger" /\ call'[t].sched = sched
        /\ \A u \in Callers \ {t} : call'[u] = call[u]
    BY <2>1, <2>2 DEF CallType
  <2>4. sched # None
    BY <1>0, <2>1 DEF CallInv, LifecycleInv
  <2>5. CallInv(t)'
    BY <2>1, <2>3, <2>4 DEF CallInv
  <2> QED
    BY <2>1, <2>3, <2>5, LifecycleFrom, WholeKept DEF LifecycleInv
<1>6. CASE Trigger(t)
  <2>1. UNCHANGED piece /\ UNCHANGED lock /\ Return(t)
    BY <1>6 DEF Trigger
  <2>2. CallInv(t)' /\ \A u \in Callers \ {t} : call'[u] = call[u]
    BY <2>1, ReturnFields DEF CallInv
  <2> QED
    BY <2>1, <2>2, LifecycleFrom, WholeKept DEF LifecycleInv
<1> QED
  BY <1>1, <1>2, <1>3, <1>4, <1>5, <1>6

\* A step that changes neither the service nor where a call stands in it.
LEMMA LifecycleKept ==
    ASSUME LifecycleInv, UNCHANGED <<piece, lock, call>>
    PROVE  LifecycleInv'
  BY WholeKept DEF LifecycleInv, piece

\* Every step keeps the lifecycle right.
LEMMA LifecycleStep == TypeOK /\ TypeOK' /\ LifecycleInv /\ [Next]_vars => LifecycleInv'
<1> SUFFICES ASSUME TypeOK, TypeOK', LifecycleInv, [Next]_vars PROVE LifecycleInv'
  OBVIOUS
<1>1. CASE UNCHANGED vars
  BY <1>1, LifecycleKept DEF vars, fields, objects, piece
<1>2. ASSUME NEW d \in Scheds, Syncing(d) PROVE LifecycleInv'
  BY <1>2, SyncingFields, LifecycleKept DEF SyncOnly, fields, piece
<1>3. ASSUME NEW t \in Callers, Caller(t) PROVE LifecycleInv'
  BY <1>3, EntryLifecycle, ReplaceLifecycle DEF Caller
<1>4. CASE EditDisk \/ \E d \in Scheds : TimePasses(d)
  BY <1>4, LifecycleKept DEF EditDisk, TimePasses, fields, objects, piece
<1>5. ASSUME NEW t \in Callers, NEW kind \in Kinds, NEW writes \in BOOLEAN,
             Begin(t, kind, writes)
      PROVE  LifecycleInv'
  <2>1. call' = [call EXCEPT ![t] = [Idle EXCEPT !.pc = "lock", !.kind = kind,
                                                  !.writes = writes]]
        /\ UNCHANGED <<piece, lock>>
    BY <1>5 DEF Begin, fields, objects, piece
  <2>2. call'[t].pc = "lock" /\ \A u \in Callers \ {t} : call'[u] = call[u]
    BY <2>1 DEF TypeOK, Idle
  <2>3. CallInv(t)'
    BY <2>2 DEF CallInv
  <2> QED
    BY <2>1, <2>2, <2>3, LifecycleFrom, WholeKept DEF LifecycleInv, piece
<1> QED
  BY <1>1, <1>2, <1>3, <1>4, <1>5 DEF Next

-----------------------------------------------------------------------------
(* The syncs and the lifecycle.                                            *)

Replacing == {"close", "open", "install"}

SyncsInv == raced \/ \A d \in Scheds : SyncInv(d)

\* A sync is as undisturbed as before where it, the store and the scheduler are
\* the same and no call begins to replace them.
LEMMA SyncKept ==
    ASSUME NEW d \in Scheds, SyncInv(d), sync'[d] = sync[d], UNCHANGED <<store, sched>>,
           \A t \in Callers : call'[t].pc \in Replacing => call[t].pc \in Replacing
    PROVE  SyncInv(d)'
  BY DEF SyncInv, Running, Replacing

\* A scheduler that does not run is undisturbed.
LEMMA QuietInv == ASSUME NEW d \in Scheds, ~Running(d)' PROVE SyncInv(d)'
  BY DEF SyncInv

\* The steps of a caller up to the replacement of the store: a session start
\* goes on to replace it only when no sync runs.
LEMMA EntrySyncs ==
    ASSUME TypeOK, TypeOK', LifecycleInv, \A d \in Scheds : SyncInv(d), NEW t \in Callers,
           \/ Acquire(t) \/ Load(t) \/ Reuse(t) \/ Settled(t) \/ Deferred(t)
    PROVE  \A d \in Scheds : SyncInv(d)'
<1> USE DEF fields, objects
<1>1. CASE Acquire(t)
  <2>1. \/ Goto(t, "load") \/ Goto(t, "pick") \/ Return(t)
    BY <1>1 DEF Acquire
  <2>2. /\ call'[t].pc \in {"load", "pick", "idle"}
        /\ \A u \in Callers \ {t} : call'[u] = call[u]
    BY <2>1, GotoFields, ReturnFields DEF WentTo, CallPcs, Locked
  <2> QED
    BY <1>1, <2>2, SyncKept DEF Acquire, Replacing
<1>2. CASE Load(t)
  <2>1. call \in [Callers -> CallType] /\ call[t] \in CallType
    BY DEF TypeOK
  <2>2. /\ call'[t].pc = IF initialized /\ store # None /\ disk = config THEN "reuse"
                         ELSE IF sched = None THEN "close" ELSE "join"
        /\ \A u \in Callers \ {t} : call'[u] = call[u]
        /\ UNCHANGED <<store, sched, sync>>
    BY <1>2, <2>1 DEF Load, CallType
  <2>3. CASE sched = None
    <3>1. \A d \in Scheds : ~Running(d)'
      BY <2>2, <2>3, NotNone DEF SyncInv, Running
    <3> QED
      BY <3>1, QuietInv
  <2>4. CASE sched # None
    BY <2>2, <2>4, SyncKept DEF Replacing
  <2> QED
    BY <2>3, <2>4
<1>3. CASE Reuse(t)
  <2>1. lock = t /\ call[t].pc = "reuse" /\ Done(t) /\ UNCHANGED <<store, sched>>
    BY <1>3 DEF Reuse, TypeOK, Locked
  <2>2. sched \in Scheds
    BY <2>1 DEF LifecycleInv, CallInv, WholeFor, TypeOK
  <2>3. \A u \in Callers : call'[u].pc \notin Replacing
    BY <2>1, DoneFields DEF TypeOK, Locked, Replacing
  <2>4. \/ sync' = sync
        \/ sync'[sched].pc = "check" /\ \A e \in Scheds \ {sched} : sync'[e] = sync[e]
    BY <1>3, <2>2, TriggeredFields DEF Reuse
  <2>5. CASE sync' = sync
    BY <2>1, <2>3, <2>5, SyncKept
  <2>6. CASE sync'[sched].pc = "check" /\ \A e \in Scheds \ {sched} : sync'[e] = sync[e]
    <3>1. SyncInv(sched)'
      BY <2>1, <2>3, <2>6 DEF SyncInv, Replacing
    <3>2. \A d \in Scheds \ {sched} : SyncInv(d)'
      BY <2>1, <2>3, <2>6, SyncKept
    <3> QED
      BY <2>1, <3>1, <3>2
  <2> QED
    BY <2>4, <2>5, <2>6
<1>4. CASE Settled(t)
  <2>1. \A d \in Scheds : ~Running(d)'
    BY <1>4 DEF Settled, SyncInv, Running
  <2> QED
    BY <2>1, QuietInv
<1>5. CASE Deferred(t)
  <2>1. Done(t) /\ UNCHANGED <<store, sched, sync>>
    BY <1>5 DEF Deferred
  <2> QED
    BY <2>1, DoneFields, SyncKept DEF Replacing
<1> QED
  BY <1>1, <1>2, <1>3, <1>4, <1>5

\* While a call replaces the store nothing runs, and the scheduler it installs
\* is the one whose sync it starts.
LEMMA ReplaceSyncs ==
    ASSUME TypeOK, TypeOK', LifecycleInv, \A d \in Scheds : SyncInv(d), NEW t \in Callers,
           \/ CloseOld(t) \/ (\E s \in Stores : OpenNew(t, s)) \/ OpenFails(t)
           \/ (\E d \in Scheds : Install(t, d))
    PROVE  \A d \in Scheds : SyncInv(d)'
<1> USE DEF fields, objects
<1>1. \A d \in Scheds : ~Running(d)
  BY DEF SyncInv, CloseOld, OpenNew, OpenFails, Install
<1>2. CASE CloseOld(t) \/ (\E s \in Stores : OpenNew(t, s)) \/ OpenFails(t)
  <2>1. sync' = sync
    BY <1>2 DEF CloseOld, OpenNew, OpenFails
  <2> QED
    BY <1>1, <2>1, QuietInv DEF Running
<1>3. ASSUME NEW d \in Scheds, Install(t, d) PROVE \A e \in Scheds : SyncInv(e)'
  <2>1. lock = t /\ call[t].pc = "install" /\ Done(t) /\ sched' = d /\ store' = store
    BY <1>3 DEF Install, TypeOK, Locked
  <2>2. \A u \in Callers : call'[u].pc \notin Replacing
    BY <2>1, DoneFields DEF TypeOK, Locked, Replacing
  <2>3. \/ sync' = sync
        \/ store # None /\ sync' = [sync EXCEPT ![d].pc = "check"]
    BY <1>3 DEF Install
  <2>4. CASE sync' = sync
    BY <1>1, <2>4, QuietInv DEF Running
  <2>5. CASE store # None /\ sync' = [sync EXCEPT ![d].pc = "check"]
    <3>1. sync'[d].pc = "check" /\ \A e \in Scheds \ {d} : sync'[e] = sync[e]
      BY <2>5, SyncMoved DEF SyncPcs
    <3>2. SyncInv(d)'
      BY <2>1, <2>2, <3>1 DEF SyncInv, Replacing
    <3>3. \A e \in Scheds \ {d} : SyncInv(e)'
      BY <1>1, <3>1, QuietInv DEF Running
    <3> QED
      BY <3>2, <3>3
  <2> QED
    BY <2>3, <2>4, <2>5
<1> QED
  BY <1>2, <1>3

\* A tool that triggers a sync between initializations, on the service's own
\* scheduler, disturbs none; otherwise it is counted as a race.
LEMMA TriggerSyncs ==
    ASSUME TypeOK, TypeOK', LifecycleInv, \A d \in Scheds : SyncInv(d), NEW t \in Callers,
           Trigger(t), ~raced'
    PROVE  \A d \in Scheds : SyncInv(d)'
<1>1. call[t].sched \in Scheds
  BY DEF Trigger, LifecycleInv, CallInv, TypeOK, CallType
<1>2. /\ UNCHANGED <<store, sched>> /\ call'[t].pc = "idle"
      /\ \A u \in Callers \ {t} : call'[u] = call[u]
  BY ReturnFields DEF Trigger, fields
<1>3. CASE sync' = sync
  BY <1>2, <1>3, SyncKept DEF Replacing
<1>4. CASE sync' # sync
  <2>1. lock = None /\ call[t].sched = sched
    BY <1>4 DEF Trigger
  <2>2. \A u \in Callers : call'[u].pc \notin Replacing
    BY <1>2, <2>1, ServiceAssumption DEF TypeOK, Locked, Replacing
  <2>3. sync'[sched].pc = "check" /\ \A e \in Scheds \ {sched} : sync'[e] = sync[e]
    BY <1>1, <1>4, <2>1, TriggeredFields DEF Trigger
  <2>4. SyncInv(sched)'
    BY <1>2, <2>2, <2>3 DEF SyncInv, Replacing
  <2>5. \A d \in Scheds \ {sched} : SyncInv(d)'
    BY <1>2, <2>2, <2>3, SyncKept
  <2> QED
    BY <1>2, <2>4, <2>5
<1> QED
  BY <1>3, <1>4

\* A sync that goes on works on the store it found.
LEMMA SyncingSyncs ==
    ASSUME TypeOK, \A d \in Scheds : SyncInv(d), NEW e \in Scheds, Syncing(e)
    PROVE  \A d \in Scheds : SyncInv(d)'
<1>1. UNCHANGED <<store, sched, call>> /\ \A d \in Scheds \ {e} : sync'[d] = sync[d]
  BY SyncingFields DEF SyncOnly, fields
<1>2. \A d \in Scheds \ {e} : SyncInv(d)'
  BY <1>1, SyncKept
<1>3. Running(e)
  BY DEF Syncing, Check, TakeStore, TakeQuery, Ingest, IngestFails, Retain, Clear, Running
<1>4. SyncInv(e)'
  BY <1>1, <1>3, SyncingFields DEF SyncInv, Running
<1> QED
  BY <1>2, <1>4

\* Every step keeps the syncs undisturbed, or is a race.
LEMMA SyncsStep == TypeOK /\ TypeOK' /\ LifecycleInv /\ SyncsInv /\ [Next]_vars => SyncsInv'
<1> SUFFICES ASSUME TypeOK, TypeOK', LifecycleInv, SyncsInv, [Next]_vars, ~raced'
             PROVE  \A d \in Scheds : SyncInv(d)'
  BY DEF SyncsInv
<1>1. CASE UNCHANGED vars \/ EditDisk \/ \E d \in Scheds : TimePasses(d)
  <2>1. UNCHANGED <<raced, store, sched, sync, call>>
    BY <1>1 DEF vars, EditDisk, TimePasses, fields, objects
  <2> QED
    BY <2>1, SyncKept DEF SyncsInv
<1>2. ASSUME NEW d \in Scheds, Syncing(d) PROVE \A e \in Scheds : SyncInv(e)'
  BY <1>2, SyncingFields, SyncingSyncs DEF SyncOnly, SyncsInv
<1>3. ASSUME NEW t \in Callers, Caller(t) PROVE \A d \in Scheds : SyncInv(d)'
  <2>1. ~raced
    BY <1>3 DEF Caller, Acquire, Load, Reuse, Settled, Deferred, CloseOld, OpenNew,
       OpenFails, Install, Pick, Trigger
  <2>2. CASE Pick(t)
    <3>1. call' = [call EXCEPT ![t].pc = "trigger", ![t].sched = sched]
          /\ UNCHANGED <<store, sched, sync>>
      BY <2>2 DEF Pick, fields, objects
    <3>2. \A u \in Callers : call'[u].pc \in Replacing => call[u].pc \in Replacing
      BY <3>1 DEF TypeOK, CallType, Replacing
    <3> QED
      BY <2>1, <3>1, <3>2, SyncKept DEF SyncsInv
  <2> QED
    BY <1>3, <2>1, <2>2, EntrySyncs, ReplaceSyncs, TriggerSyncs DEF Caller, SyncsInv
<1>4. ASSUME NEW t \in Callers, NEW kind \in Kinds, NEW writes \in BOOLEAN,
             Begin(t, kind, writes)
      PROVE  \A d \in Scheds : SyncInv(d)'
  <2>1. call' = [call EXCEPT ![t] = [Idle EXCEPT !.pc = "lock", !.kind = kind,
                                                  !.writes = writes]]
        /\ UNCHANGED <<raced, store, sched, sync>>
    BY <1>4 DEF Begin, fields, objects
  <2>2. \A u \in Callers : call'[u].pc \in Replacing => call[u].pc \in Replacing
    BY <2>1 DEF TypeOK, Idle, Replacing
  <2> QED
    BY <2>1, <2>2, SyncKept DEF SyncsInv
<1> QED
  BY <1>1, <1>2, <1>3, <1>4 DEF Next

-----------------------------------------------------------------------------
(* The theorems.                                                           *)

\* Whoever calls and whatever is edited, every variable keeps its type and the
\* lifecycle lock is held by the one call inside _initialize_locked; the fields
\* are whole but where that call replaces them; a sync runs on the service's
\* store outside of that stretch unless a tool raced (incidents/__init__.py).
THEOREM ServiceCorrect == Spec => [](TypeOK /\ ServiceInv)
<1>1. Init => TypeOK /\ LifecycleInv /\ SyncsInv
  BY TypeInit, LifecycleInit DEF Init, SyncsInv, SyncInv, Running, NoSync
<1>2. TypeOK /\ LifecycleInv /\ SyncsInv /\ [Next]_vars
        => TypeOK' /\ LifecycleInv' /\ SyncsInv'
  BY TypeStep, LifecycleStep, SyncsStep
<1>3. LifecycleInv /\ SyncsInv => ServiceInv
  BY DEF ServiceInv, SyncsInv
<1> QED
  BY <1>1, <1>2, <1>3, PTL DEF Spec

\* The types and the holder of the lifecycle lock.
THEOREM TypeCorrect == Spec => []TypeOK
  BY ServiceCorrect, PTL

\* "A re-init never closes the store underneath a sync" and never starts a second
\* sync beside one, but for the trigger of a tool (docstring of initialize).
THEOREM SyncsUndisturbedCorrect == Spec => []SyncsUndisturbed
<1>1. TypeOK /\ ServiceInv => SyncsUndisturbed
  <2> SUFFICES ASSUME TypeOK, LifecycleInv, \A d \in Scheds : SyncInv(d)
               PROVE  SyncKeepsItsStore /\ OneSync
    BY DEF ServiceInv, SyncsUndisturbed
  <2>1. OneSync
    BY DEF OneSync, SyncInv
  <2>2. ASSUME NEW d \in Scheds, sync[d].pc \in {"query", "ingest"}
        PROVE  sync[d].store # None /\ opened[sync[d].store] # None
    <3>1. /\ d = sched /\ sync[d].store = store /\ store # None
          /\ \A t \in Callers : call[t].pc \notin Replacing
      BY <2>2 DEF SyncInv, Running, Replacing
    <3>2. initialized
      BY <3>1, NotNone DEF LifecycleInv
    <3>3. \E c : WholeFor(c)
      <4>1. CASE lock = None
        BY <3>2, <4>1 DEF LifecycleInv
      <4>2. CASE lock # None
        <5>1. lock \in Callers /\ call[lock].pc \in {"load", "reuse", "join"}
          BY <3>1, <4>2 DEF TypeOK, Locked, Replacing
        <5>2. CallInv(lock)
          BY <5>1 DEF LifecycleInv
        <5> QED
          BY <3>2, <5>1, <5>2 DEF CallInv
      <4> QED
        BY <4>1, <4>2
    <3> QED
      BY <3>1, <3>3 DEF WholeFor
  <2> QED
    BY <2>1, <2>2 DEF SyncKeepsItsStore
<1> QED
  BY <1>1, ServiceCorrect, PTL

\* Between two initializations no store is open but the service's, and it and
\* the scheduler are those of its configuration (_initialize_locked).
THEOREM OfOnePieceCorrect == Spec => []OfOnePiece
<1>1. TypeOK /\ ServiceInv => OfOnePiece
  BY DEF ServiceInv, LifecycleInv, WholeFor, OfOnePiece
<1> QED
  BY <1>1, ServiceCorrect, PTL
=============================================================================
