-------------------------- MODULE IncidentService --------------------------
(***************************************************************************)
(* The lifecycle of the incidents stage (incidents/__init__.py, sync.py):  *)
(* session starts, turns and tools, which reload the configuration, reopen *)
(* the store and trigger the background sync, and the syncs themselves,    *)
(* which read the service's fields without its lock.                       *)
(*                                                                         *)
(* A configuration stands for the settings and the home together: it names *)
(* the database.  A store is known by the configuration it was opened for. *)
(* A thread of a scheduler is known by its scheduler.  Ids of stores and   *)
(* schedulers nobody refers to any more are used again.                    *)
(*                                                                         *)
(* A definition named ...Slip is the next one with a plausible mistake.    *)
(***************************************************************************)
EXTENDS Naturals, FiniteSets

CONSTANTS
    Configs,     \* what the configuration file may say
    Callers,     \* threads of the host
    Kinds,       \* the calls they make: "session", "turn", "tool"
    Stores,      \* ids of IncidentStore objects
    Scheds,      \* ids of SyncScheduler objects
    None,
    MaxEvents    \* bound: edits of the configuration file, calls of tools and
                 \* stores that cannot be opened, together

ASSUME ServiceAssumption ==
    /\ Configs # {} /\ Kinds \subseteq {"session", "turn", "tool"}
    /\ None \notin Configs \cup Stores \cup Scheds \cup Callers
    /\ MaxEvents \in Nat

VARIABLES
    disk,        \* what the configuration file says
    budget,      \* the events left
    config, store, client, sched, initialized,  \* the service's fields
    lock,        \* holder of the lifecycle lock
    opened,      \* opened[s]: what store s was opened for; None: closed
    made,        \* made[d]: the configuration scheduler d was made under
    recent,      \* recent[d]: d ran within min_interval
    sync,        \* sync[d]: the thread of scheduler d
    call,        \* the callers
    raced        \* ghost: a tool triggered a sync while the service was being
                 \* initialized, or on a scheduler that was replaced

fields == <<config, store, client, sched, initialized>>
objects == <<opened, made, recent, sync>>
vars == <<disk, budget, fields, lock, objects, call, raced>>

Idle == [pc |-> "idle", kind |-> "turn", writes |-> FALSE, old |-> None, sched |-> None]

\* `used': the configurations this sync has read.
NoSync == [pc |-> "idle", store |-> None, used |-> {}]

Init ==
    /\ disk \in Configs
    /\ budget = MaxEvents
    /\ config = None /\ store = None /\ client = FALSE
    /\ sched = None /\ initialized = FALSE
    /\ lock = None
    /\ opened = [s \in Stores |-> None]
    /\ made = [d \in Scheds |-> None]
    /\ recent = [d \in Scheds |-> FALSE]
    /\ sync = [d \in Scheds |-> NoSync]
    /\ call = [t \in Callers |-> Idle]
    /\ raced = FALSE

Running(d) == sync[d].pc # "idle"

FreeStores ==
    {s \in Stores : s # store /\ opened[s] = None /\ \A d \in Scheds : sync[d].store # s}

FreeScheds ==
    {d \in Scheds : d # sched /\ ~Running(d) /\ \A t \in Callers : call[t].sched # d}

-----------------------------------------------------------------------------
(* The environment.                                                        *)

EditDisk ==
    /\ budget > 0
    /\ disk' \in Configs \ {disk}
    /\ budget' = budget - 1
    /\ UNCHANGED <<raced, fields, lock, objects, call>>

\* min_interval seconds have passed.
TimePasses(d) ==
    /\ recent[d]
    /\ recent' = [recent EXCEPT ![d] = FALSE]
    /\ UNCHANGED <<raced, disk, budget, fields, lock, opened, made, sync, call>>

-----------------------------------------------------------------------------
(* The scheduler.                                                          *)

\* SyncScheduler.trigger: coalesced while it runs, debounced afterwards.
Triggered(d) ==
    IF Running(d) \/ recent[d]
      THEN UNCHANGED <<recent, sync>>
      ELSE /\ recent' = [recent EXCEPT ![d] = TRUE]
           /\ sync' = [sync EXCEPT ![d].pc = "check"]

-----------------------------------------------------------------------------
(* initialize and ensure_initialized.                                      *)

Goto(t, pc) == call' = [call EXCEPT ![t].pc = pc]
Return(t) == call' = [call EXCEPT ![t] = Idle]

\* A session starts, a turn asks for context or a tool is called, in a context
\* that may write or not.
Begin(t, kind, writes) ==
    /\ call[t].pc = "idle" /\ kind \in Kinds
    /\ kind = "tool" => budget > 0
    /\ budget' = IF kind = "tool" THEN budget - 1 ELSE budget
    /\ call' = [call EXCEPT ![t] = [Idle EXCEPT !.pc = "lock", !.kind = kind,
                                                 !.writes = writes]]
    /\ UNCHANGED <<raced, disk, fields, lock, objects>>

\* A session start takes the lock to initialize; a turn or a tool only when
\* nothing is initialized yet.
Acquire(t) ==
    /\ call[t].pc = "lock" /\ lock = None
    /\ IF call[t].kind = "session" \/ ~initialized
         THEN lock' = t /\ Goto(t, "load")
         ELSE /\ UNCHANGED lock
              /\ IF call[t].kind = "tool" /\ call[t].writes
                   THEN Goto(t, "pick")
                   ELSE Return(t)
    /\ UNCHANGED <<raced, disk, budget, fields, objects>>

\* A service whose store could not be opened is taken as it is.
LoadSlip(t) ==
    /\ call[t].pc = "load"
    /\ config' = disk
    /\ call' = [call EXCEPT
         ![t].pc = IF initialized /\ disk = config THEN "reuse"
                   ELSE IF sched = None THEN "close" ELSE "join",
         ![t].old = config]
    /\ UNCHANGED <<raced, disk, budget, store, client, sched, initialized, lock, objects>>

\* _reload_config: the new configuration is in the field from here on.
Load(t) ==
    /\ call[t].pc = "load"
    /\ config' = disk
    /\ call' = [call EXCEPT
         ![t].pc = IF initialized /\ store # None /\ disk = config THEN "reuse"
                   ELSE IF sched = None THEN "close" ELSE "join",
         ![t].old = config]
    /\ UNCHANGED <<raced, disk, budget, store, client, sched, initialized, lock, objects>>

\* ensure_initialized returns, and a tool goes on to trigger a sync.
Done(t) ==
    /\ lock' = None
    /\ IF call[t].kind = "tool" /\ call[t].writes THEN Goto(t, "pick") ELSE Return(t)

\* The client is built again (the token may have come or gone), nothing else.
Reuse(t) ==
    /\ call[t].pc = "reuse"
    /\ client' \in BOOLEAN
    /\ IF client' /\ call[t].writes
         THEN Triggered(sched) ELSE UNCHANGED <<recent, sync>>
    /\ Done(t)
    /\ UNCHANGED <<raced, disk, budget, config, store, sched, initialized, opened, made>>

\* The store is closed when the wait is over, whether the sync is or not.
SettledSlip(t) ==
    /\ call[t].pc = "join"
    /\ Goto(t, "close")
    /\ UNCHANGED <<raced, disk, budget, fields, lock, objects>>

\* The prior sync has ended within SYNC_JOIN_TIMEOUT ...
Settled(t) ==
    /\ call[t].pc = "join" /\ ~Running(sched)
    /\ Goto(t, "close")
    /\ UNCHANGED <<raced, disk, budget, fields, lock, objects>>

\* The new configuration stays.
DeferredSlip(t) ==
    /\ call[t].pc = "join" /\ Running(sched)
    /\ Done(t)
    /\ UNCHANGED <<raced, disk, budget, fields, objects>>

\* ... or has not: the old configuration is put back and everything else stays.
Deferred(t) ==
    /\ call[t].pc = "join" /\ Running(sched)
    /\ config' = call[t].old
    /\ Done(t)
    /\ UNCHANGED <<raced, disk, budget, store, client, sched, initialized, objects>>

\* _reopen_store: the old store is closed; the field still has it.
CloseOld(t) ==
    /\ call[t].pc = "close"
    /\ opened' = IF store = None THEN opened ELSE [opened EXCEPT ![store] = None]
    /\ Goto(t, "open")
    /\ UNCHANGED <<raced, disk, budget, fields, lock, made, recent, sync>>

OpenNew(t, s) ==
    /\ call[t].pc = "open" /\ s \in FreeStores
    /\ opened' = [opened EXCEPT ![s] = config]
    /\ store' = s
    /\ Goto(t, "install")
    /\ UNCHANGED <<raced, disk, budget, config, client, sched, initialized, lock,
                   made, recent, sync>>

OpenFails(t) ==
    /\ call[t].pc = "open" /\ budget > 0
    /\ budget' = budget - 1
    /\ store' = None
    /\ Goto(t, "install")
    /\ UNCHANGED <<raced, disk, config, client, sched, initialized, lock, objects>>

\* A client, a scheduler that never ran, and the initial sync.
Install(t, d) ==
    /\ call[t].pc = "install" /\ d \in FreeScheds
    /\ client' \in BOOLEAN
    /\ sched' = d
    /\ made' = [made EXCEPT ![d] = config]
    /\ initialized' = TRUE
    /\ LET starts == client' /\ store # None /\ call[t].writes IN
       /\ recent' = [recent EXCEPT ![d] = starts]
       /\ sync' = IF starts THEN [sync EXCEPT ![d].pc = "check"] ELSE sync
    /\ Done(t)
    /\ UNCHANGED <<raced, disk, budget, config, store, opened>>

\* trigger_sync reads the service's scheduler, without the lifecycle lock ...
Pick(t) ==
    /\ call[t].pc = "pick"
    /\ call' = [call EXCEPT ![t].pc = "trigger", ![t].sched = sched]
    /\ UNCHANGED <<raced, disk, budget, fields, lock, objects>>

\* ... and triggers the one it read.
Trigger(t) ==
    /\ call[t].pc = "trigger"
    /\ Triggered(call[t].sched)
    /\ raced' = IF sync' # sync /\ (lock # None \/ call[t].sched # sched) THEN TRUE ELSE raced
    /\ Return(t)
    /\ UNCHANGED <<disk, budget, fields, lock, opened, made>>

-----------------------------------------------------------------------------
(* A sync: _sync_once on the thread of scheduler d.                        *)

Ends(d) == sync' = [sync EXCEPT ![d] = NoSync]

SyncOnly == UNCHANGED <<raced, disk, budget, fields, lock, opened, made, recent, call>>

\* if not (self._store and self._client): return
Check(d) ==
    /\ sync[d].pc = "check"
    /\ IF store # None /\ client
         THEN sync' = [sync EXCEPT ![d].pc = "store"]
         ELSE Ends(d)
    /\ SyncOnly

\* The arguments of run_sync are read one after the other.
TakeStore(d) ==
    /\ sync[d].pc = "store"
    /\ sync' = [sync EXCEPT ![d].pc = "query", ![d].store = store]
    /\ SyncOnly

TakeQuery(d) ==
    /\ sync[d].pc = "query"
    /\ sync' = [sync EXCEPT ![d].pc = "ingest", ![d].used = @ \cup {config}]
    /\ SyncOnly

\* run_sync ends; it raises when it has no store, or a closed one.
Ingest(d) ==
    /\ sync[d].pc = "ingest"
    /\ IF sync[d].store # None /\ opened[sync[d].store] # None
         THEN sync' = [sync EXCEPT ![d].pc = "retain", ![d].store = None]
         ELSE Ends(d)
    /\ SyncOnly

IngestFails(d) ==
    /\ sync[d].pc = "ingest"
    /\ Ends(d)
    /\ SyncOnly

\* _apply_retention reads the service's store and configuration again.
Retain(d) ==
    /\ sync[d].pc = "retain"
    /\ sync' = [sync EXCEPT ![d].pc = "clear",
                            ![d].used = IF store = None THEN @ ELSE @ \cup {config}]
    /\ SyncOnly

\* The cache is cleared and the thread ends.
Clear(d) ==
    /\ sync[d].pc = "clear"
    /\ Ends(d)
    /\ SyncOnly

-----------------------------------------------------------------------------
Caller(t) ==
    \/ Acquire(t) \/ Load(t) \/ Reuse(t) \/ Settled(t) \/ Deferred(t)
    \/ CloseOld(t) \/ (\E s \in Stores : OpenNew(t, s)) \/ OpenFails(t)
    \/ (\E d \in Scheds : Install(t, d))
    \/ Pick(t) \/ Trigger(t)

Syncing(d) ==
    \/ Check(d) \/ TakeStore(d) \/ TakeQuery(d) \/ Ingest(d) \/ IngestFails(d)
    \/ Retain(d) \/ Clear(d)

Next ==
    \/ EditDisk
    \/ \E d \in Scheds : TimePasses(d)
    \/ \E t \in Callers :
         \/ \E kind \in Kinds, writes \in BOOLEAN : Begin(t, kind, writes)
         \/ Caller(t)
    \/ \E d \in Scheds : Syncing(d)

Spec == Init /\ [][Next]_vars

\* Each thread's calls go on and are a session start again and again, and every
\* sync ends: its requests have time-outs.
FairSpec ==
    /\ Spec
    /\ \A t \in Callers :
         /\ SF_vars(\E writes \in BOOLEAN : Begin(t, "session", writes))
         /\ WF_vars(Caller(t))
    /\ \A d \in Scheds : WF_vars(Syncing(d))

-----------------------------------------------------------------------------
(* Properties.                                                             *)

Locked == {"load", "reuse", "join", "close", "open", "install"}
CallPcs == {"idle", "lock", "pick", "trigger"} \cup Locked
SyncPcs == {"idle", "check", "store", "query", "ingest", "retain", "clear"}
CallType == [pc : CallPcs, kind : {"session", "turn", "tool"}, writes : BOOLEAN,
             old : Configs \cup {None}, sched : Scheds \cup {None}]
SyncType == [pc : SyncPcs, store : Stores \cup {None},
             used : SUBSET (Configs \cup {None})]

\* Every variable keeps its type, and the lifecycle lock is held by the one
\* call that is inside _initialize_locked.
TypeOK ==
    /\ disk \in Configs
    /\ budget \in 0..MaxEvents
    /\ config \in Configs \cup {None} /\ store \in Stores \cup {None}
    /\ client \in BOOLEAN /\ sched \in Scheds \cup {None} /\ initialized \in BOOLEAN
    /\ lock \in Callers \cup {None}
    /\ opened \in [Stores -> Configs \cup {None}]
    /\ made \in [Scheds -> Configs \cup {None}]
    /\ recent \in [Scheds -> BOOLEAN]
    /\ sync \in [Scheds -> SyncType]
    /\ call \in [Callers -> CallType]
    /\ \A t \in Callers : call[t].pc \in Locked <=> lock = t
    /\ raced \in BOOLEAN

\* A re-init never closes the store underneath a sync (docstring of initialize).
SyncKeepsItsStore ==
    \A d \in Scheds : sync[d].pc \in {"query", "ingest"} =>
        sync[d].store # None /\ opened[sync[d].store] # None

\* ... and never lets a second sync run beside the first.
OneSync ==
    \A d, e \in Scheds : Running(d) /\ Running(e) => d = e

\* Neither of the two breaks but by the trigger of a tool, which takes no part
\* in the lifecycle lock, during an initialization or on a scheduler that was
\* replaced: whatever sessions, turns and the other tools do, a sync that runs
\* is the only one and has its store until it ends.
SyncsUndisturbed == raced \/ (SyncKeepsItsStore /\ OneSync)

\* Between two initializations the service is of one piece, whatever was
\* deferred or could not be opened: no store is open but its own, which is that
\* of its configuration, as is the scheduler.
OfOnePiece ==
    lock = None /\ initialized =>
        /\ sched # None /\ made[sched] = config
        /\ store # None => opened[store] = config
        /\ \A s \in Stores : opened[s] # None => s = store

\* "configuration change deferred": until the sync has ended it runs under the
\* configuration it was started under.
SyncUsesOneConfig ==
    \A d \in Scheds : Running(d) => sync[d].used \subseteq {made[d]}

\* A changed configuration is taken up and a store that could not be opened is
\* opened again, as long as sessions start.
ConfigTakenUp ==
    <>[](lock = None => initialized /\ config = disk /\ store # None)

-----------------------------------------------------------------------------
(* The inductive invariant of SyncsUndisturbed and OfOnePiece.             *)

\* What is open, if anything, and the scheduler are those of configuration c.
WholeFor(c) ==
    /\ initialized /\ c # None /\ made[sched] = c
    /\ store # None => opened[store] = c

\* Where a call stands in _initialize_locked tells what the fields are: they are
\* whole but from the close of the old store to the new scheduler.
CallInv(t) ==
    /\ call[t].pc = "load" /\ initialized => WholeFor(config)
    /\ call[t].pc = "reuse" => store # None /\ WholeFor(config)
    /\ call[t].pc = "join" => WholeFor(call[t].old)
    /\ call[t].pc \in {"join", "close", "open", "install"} => config # None
    /\ call[t].pc = "open" => \A s \in Stores : opened[s] = None
    /\ call[t].pc = "install" => (store # None => opened[store] = config)
    /\ call[t].pc = "pick" => initialized
    /\ call[t].pc = "trigger" => call[t].sched # None

\* The service at every moment of an initialization.
LifecycleInv ==
    /\ initialized <=> sched # None
    /\ lock = None /\ initialized => WholeFor(config)
    /\ \A s \in Stores : opened[s] # None => s = store
    /\ \A t \in Callers : CallInv(t)

\* A sync that runs is on the service's scheduler, outside the stretch of an
\* initialization that replaces the store, and works on the service's store.
SyncInv(d) ==
    Running(d) =>
        /\ d = sched
        /\ \A t \in Callers : call[t].pc \notin {"close", "open", "install"}
        /\ sync[d].pc \in {"store", "query", "ingest"} => store # None
        /\ sync[d].pc \in {"query", "ingest"} => sync[d].store = store

ServiceInv ==
    /\ LifecycleInv
    /\ raced \/ \A d \in Scheds : SyncInv(d)
=============================================================================
