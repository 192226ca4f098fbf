--------------------------- MODULE StationRefresh ---------------------------
(***************************************************************************)
(* The station catalogue of radio-service-rs: how the processes of the     *)
(* service (server replicas and the `refresh` command) share one catalogue *)
(* in Postgres, keep a copy of it in memory, and replace it from upstream. *)
(*                                                                         *)
(* A task is one future running AppState::load_stations, update_stations   *)
(* or a spawned refresh_and_cache.  It is interrupted at every await, so   *)
(* each action below is what one task does between two awaits.             *)
(***************************************************************************)
EXTENDS Integers

CONSTANTS
    Procs,          \* processes of the service
    Tasks,          \* task slots of the processes' runtimes
    ProcOf,         \* the process a slot belongs to
    None,           \* no task, no process
    Listings,       \* the listings upstream may return: non-empty sets of stations
    RetryAttempts,  \* refresh_lock_retry_attempts
    MaxRequests,    \* bound: client requests started in a behaviour
    MaxCrashes,     \* bound: process crashes
    MaxLeaks        \* bound: leaked grants of one session at a time

ASSUME ProcOfAssumption == ProcOf \in [Tasks -> Procs]
ASSUME NoneAssumption == None \notin Procs \cup Tasks
ASSUME ListingsAssumption == {} \notin Listings
ASSUME BoundsAssumption ==
    /\ RetryAttempts \in Nat
    /\ MaxRequests \in Nat
    /\ MaxCrashes \in Nat
    /\ MaxLeaks \in Nat

VARIABLES
    \* Postgres
    updated,    \* station_state.updated_at, as a counter of its updates
    current,    \* station_state.payload_id, 0 for NULL
    payloads,   \* the rows of station_payloads
    owner,      \* the payload_id of each station's row, 0 for no row
    inFlight,   \* the payload whose COMMIT outlives the task that sent it
    \* the session that holds the advisory lock
    lockProc,   \* the process whose pool the session belongs to
    lockTask,   \* the task whose guard owns that connection
    unlocking,  \* the session is being unlocked or closed
    depth,      \* how many times the session holds the lock
    leaks,      \* how many of these grants no guard was made for
    \* the AppState of each process
    marker,     \* cache_state_updated_at, 0 for None
    mem,        \* memory_cache
    processed,  \* processed_cache: the payload it was built from
    mutex,      \* refresh_mutex
    spawned,    \* spawned background refreshes that have not started
    \* each task
    pc, loc,
    \* how much of each bound is spent
    requests, crashes

tables  == <<updated, current, payloads, owner>>
db      == <<tables, inFlight>>
lock    == <<lockProc, lockTask, unlocking, depth, leaks>>
caches  == <<marker, mem, processed>>
budget  == <<requests, crashes>>
vars    == <<db, lock, caches, mutex, spawned, pc, loc, budget>>

-----------------------------------------------------------------------------

Stations == UNION Listings

\* A payload: the listing its fingerprint was computed from, and its stations.
Payload   == [fp : Listings \cup {{}}, rows : SUBSET Stations]
NoPayload == [fp |-> {}, rows |-> {}]

Kinds == {"load", "force", "update", "background"}

\* The local variables of a task.  want, readAt and failedAt are not in the
\* code: they record the catalogue and the version a load was begun at, and
\* the version at which the task found the lock taken.
Local == [kind : Kinds, seen : Nat, base : Nat, id : Nat, got : Payload,
          tries : Nat, want : SUBSET Stations, readAt : Nat, failedAt : Nat]
Fresh == [kind |-> "load", seen |-> 0, base |-> 0, id |-> 0, got |-> NoPayload,
          tries |-> 0, want |-> {}, readAt |-> 0, failedAt |-> 0]

\* The steps in which the task's guard holds the advisory lock, those after
\* its payload was persisted apart.
Stored == {"readOwn", "setMarker", "cacheFresh", "processFresh"}
Locked == {"fetch", "validate", "persist"} \cup Stored

\* The steps that await the database or upstream, and may fail.
Fallible == {"readMarker", "loadRow", "loadRows", "tryLock", "fetch",
             "validate", "persist", "readOwn", "waitInit", "poll"}

Labels == Locked \cup Fallible \cup
          {"idle", "mark", "clearMem", "clearProcessed", "checkMem",
           "cacheMem", "cacheProcessed", "lockMutex"}

\* The stations stored for payload i.
RowsOf(i) == {s \in Stations : owner[s] = i}

\* A task that found the lock taken waits for its holder's refresh.
Waiting(t) == loc[t].base # 0

Goto(t, label) == pc' = [pc EXCEPT ![t] = label]

Finish(t) ==
    /\ Goto(t, "idle")
    /\ loc' = [loc EXCEPT ![t] = Fresh]

\* Mutant: the guard gives its connection back without unlocking.
DropGuardLocked(t) ==
    IF lockTask = t
    THEN lockTask' = None /\ UNCHANGED <<lockProc, unlocking, depth, leaks>>
    ELSE UNCHANGED lock

\* Dropping the guard spawns the unlock; it does nothing in a task without one.
DropGuard(t) ==
    IF lockTask = t
    THEN /\ lockTask' = None
         /\ unlocking' = TRUE
         /\ UNCHANGED <<lockProc, depth, leaks>>
    ELSE UNCHANGED lock

\* The database as the migrations leave it, with a state row without payload,
\* or as an earlier refresh left it.
InitDb ==
    /\ updated = 1
    /\ \/ /\ current = 0
          /\ payloads = {}
          /\ owner = [s \in Stations |-> 0]
       \/ \E listing \in Listings : \E kept \in SUBSET listing :
             /\ current = 1
             /\ payloads = {[id |-> 1, fp |-> listing]}
             /\ owner = [s \in Stations |-> IF s \in kept THEN 1 ELSE 0]

Init ==
    /\ InitDb
    /\ inFlight = NoPayload
    /\ lockProc = None
    /\ lockTask = None
    /\ unlocking = FALSE
    /\ depth = 0
    /\ leaks = 0
    /\ marker = [p \in Procs |-> 0]
    /\ mem = [p \in Procs |-> NoPayload]
    /\ processed = [p \in Procs |-> NoPayload]
    /\ mutex = [p \in Procs |-> None]
    /\ spawned = [p \in Procs |-> 0]
    /\ pc = [t \in Tasks |-> "idle"]
    /\ loc = [t \in Tasks |-> Fresh]
    /\ requests = 0
    /\ crashes = 0

-----------------------------------------------------------------------------
(* Starting a task *)

\* A request for the stations, with or without forceRefresh, or an update.
Begin(t) ==
    /\ pc[t] = "idle"
    /\ requests < MaxRequests
    /\ requests' = requests + 1
    /\ \E k \in Kinds \ {"background"} :
          /\ loc' = [loc EXCEPT ![t].kind = k]
          /\ Goto(t, IF k = "update" THEN "lockMutex" ELSE "readMarker")
    /\ UNCHANGED <<db, lock, caches, mutex, spawned, crashes>>

\* The runtime starts a refresh spawned by schedule_background_refresh.
BeginBackground(t) ==
    /\ pc[t] = "idle"
    /\ spawned[ProcOf[t]] > 0
    /\ spawned' = [spawned EXCEPT ![ProcOf[t]] = @ - 1]
    /\ loc' = [loc EXCEPT ![t].kind = "background"]
    /\ Goto(t, "lockMutex")
    /\ UNCHANGED <<db, lock, caches, mutex, budget>>

-----------------------------------------------------------------------------
(* ensure_cache_state_sync *)

ReadMarker(t) ==
    /\ pc[t] = "readMarker"
    /\ loc' = [loc EXCEPT ![t].seen = updated]
    /\ Goto(t, "mark")
    /\ UNCHANGED <<db, lock, caches, mutex, spawned, budget>>

\* What a task does once its process is in sync with the database.
AfterSync(t) ==
    IF Waiting(t) THEN "loadRow"
    ELSE IF loc[t].kind = "load" THEN "checkMem" ELSE "lockMutex"

Mark(t) ==
    /\ pc[t] = "mark"
    /\ marker' = [marker EXCEPT ![ProcOf[t]] = loc[t].seen]
    /\ Goto(t, IF marker[ProcOf[t]] # loc[t].seen THEN "clearMem" ELSE AfterSync(t))
    /\ UNCHANGED <<db, lock, mem, processed, mutex, spawned, loc, budget>>

ClearMem(t) ==
    /\ pc[t] = "clearMem"
    /\ mem' = [mem EXCEPT ![ProcOf[t]] = NoPayload]
    /\ Goto(t, "clearProcessed")
    /\ UNCHANGED <<db, lock, marker, processed, mutex, spawned, loc, budget>>

ClearProcessed(t) ==
    /\ pc[t] = "clearProcessed"
    /\ processed' = [processed EXCEPT ![ProcOf[t]] = NoPayload]
    /\ Goto(t, AfterSync(t))
    /\ UNCHANGED <<db, lock, marker, mem, mutex, spawned, loc, budget>>

-----------------------------------------------------------------------------
(* load_stations and StationStorage::load_latest_payload *)

CheckMem(t) ==
    /\ pc[t] = "checkMem"
    /\ IF mem[ProcOf[t]] # NoPayload
       THEN Finish(t)
       ELSE Goto(t, "loadRow") /\ UNCHANGED loc
    /\ UNCHANGED <<db, lock, caches, mutex, spawned, budget>>

\* There is no usable payload in the database.
NothingStored(t) ==
    /\ Goto(t, IF Waiting(t) THEN "poll" ELSE "lockMutex")
    /\ loc' = [loc EXCEPT ![t].id = 0, ![t].got = NoPayload,
                          ![t].want = {}, ![t].readAt = 0]

\* The first query: station_state joined with its payload.
LoadRow(t) ==
    /\ pc[t] = "loadRow"
    /\ \/ /\ \A row \in payloads : row.id # current
          /\ NothingStored(t)
       \/ \E row \in payloads :
             /\ row.id = current
             /\ loc' = [loc EXCEPT ![t].id = row.id,
                                   ![t].got = [fp |-> row.fp, rows |-> {}],
                                   ![t].want = RowsOf(row.id), ![t].readAt = updated]
             /\ Goto(t, "loadRows")
    /\ UNCHANGED <<db, lock, caches, mutex, spawned, budget>>

\* Mutant: the second query reads every station.
LoadRowsOfAny(t) ==
    /\ pc[t] = "loadRows"
    /\ LET rows == {s \in Stations : owner[s] # 0} IN
          IF rows = {}
          THEN NothingStored(t)
          ELSE /\ loc' = [loc EXCEPT ![t].got.rows = rows]
               /\ Goto(t, "cacheMem")
    /\ UNCHANGED <<db, lock, caches, mutex, spawned, budget>>

\* The second query, in no transaction with the first: the stations of the
\* payload read there.  A payload without stations does not sanitize.
LoadRows(t) ==
    /\ pc[t] = "loadRows"
    /\ LET rows == RowsOf(loc[t].id) IN
          IF rows = {}
          THEN NothingStored(t)
          ELSE /\ loc' = [loc EXCEPT ![t].got.rows = rows]
               /\ Goto(t, "cacheMem")
    /\ UNCHANGED <<db, lock, caches, mutex, spawned, budget>>

CacheMem(t) ==
    /\ pc[t] = "cacheMem"
    /\ mem' = [mem EXCEPT ![ProcOf[t]] = loc[t].got]
    /\ Goto(t, "cacheProcessed")
    /\ UNCHANGED <<db, lock, marker, processed, mutex, spawned, loc, budget>>

\* ensure_processed, then the answer.  A load, but not a waiter, also spawns a
\* background refresh.
CacheProcessed(t) ==
    /\ pc[t] = "cacheProcessed"
    /\ processed' = [processed EXCEPT ![ProcOf[t]] = loc[t].got]
    /\ spawned' = [spawned EXCEPT ![ProcOf[t]] = @ + (IF Waiting(t) THEN 0 ELSE 1)]
    /\ Finish(t)
    /\ UNCHANGED <<db, lock, marker, mem, mutex, budget>>

-----------------------------------------------------------------------------
(* refresh_and_cache *)

LockMutex(t) ==
    /\ pc[t] = "lockMutex"
    /\ mutex[ProcOf[t]] = None
    /\ mutex' = [mutex EXCEPT ![ProcOf[t]] = t]
    /\ Goto(t, "tryLock")
    /\ UNCHANGED <<db, lock, caches, spawned, loc, budget>>

\* Mutant: the lock is tried on one connection all the tasks of a process share.
GrantableShared(t) == lockProc \in {None, ProcOf[t]}

\* pg_try_advisory_lock on a connection of t's pool grants the lock if no
\* session has it, or if the pool hands out the session that has it.
Grantable(t) ==
    \/ lockProc = None
    \/ lockProc = ProcOf[t] /\ lockTask = None /\ ~unlocking

\* Mutant: the guard is bound to `_` and dropped at once.
TryLockUnbound(t) ==
    /\ pc[t] = "tryLock"
    /\ mutex' = [mutex EXCEPT ![ProcOf[t]] = None]
    /\ \/ /\ Grantable(t)
          /\ lockProc' = ProcOf[t]
          /\ unlocking' = TRUE
          /\ depth' = depth + 1
          /\ Goto(t, "fetch")
          /\ UNCHANGED <<lockTask, leaks, loc>>
       \/ /\ lockProc # None
          /\ loc' = [loc EXCEPT ![t].failedAt = updated]
          /\ Goto(t, "waitInit")
          /\ UNCHANGED lock
    /\ UNCHANGED <<db, caches, spawned, budget>>

\* Mutant: process_guard lives as long as the refresh.
TryLockKeepsMutex(t) ==
    /\ pc[t] = "tryLock"
    /\ \/ /\ Grantable(t)
          /\ lockProc' = ProcOf[t]
          /\ lockTask' = t
          /\ depth' = depth + 1
          /\ Goto(t, "fetch")
          /\ UNCHANGED <<unlocking, leaks, mutex, loc>>
       \/ /\ lockProc # None
          /\ mutex' = [mutex EXCEPT ![ProcOf[t]] = None]
          /\ loc' = [loc EXCEPT ![t].failedAt = updated]
          /\ Goto(t, "waitInit")
          /\ UNCHANGED lock
    /\ UNCHANGED <<db, caches, spawned, budget>>

TryLock(t) ==
    /\ pc[t] = "tryLock"
    /\ mutex' = [mutex EXCEPT ![ProcOf[t]] = None]
    /\ \/ /\ Grantable(t)
          /\ lockProc' = ProcOf[t]
          /\ lockTask' = t
          /\ depth' = depth + 1
          /\ Goto(t, "fetch")
          /\ UNCHANGED <<unlocking, leaks, loc>>
       \/ /\ lockProc # None
          /\ loc' = [loc EXCEPT ![t].failedAt = updated]
          /\ Goto(t, "waitInit")
          /\ UNCHANGED lock
    /\ UNCHANGED <<db, caches, spawned, budget>>

\* radio_browser.fetch_payload: the listing, with its fingerprint.
Fetch(t) ==
    /\ pc[t] = "fetch"
    /\ \E listing \in Listings :
          loc' = [loc EXCEPT ![t].got = [fp |-> listing, rows |-> listing]]
    /\ Goto(t, "validate")
    /\ UNCHANGED <<db, lock, caches, mutex, spawned, budget>>

\* stream_validator.validate drops the stations whose stream does not answer;
\* the fingerprint stays the one of the listing.
Validate(t) ==
    /\ pc[t] = "validate"
    /\ \E kept \in SUBSET loc[t].got.rows :
          loc' = [loc EXCEPT ![t].got.rows = kept]
    /\ Goto(t, "persist")
    /\ UNCHANGED <<db, lock, caches, mutex, spawned, budget>>

\* An unchanged fingerprint only touches updated_at.
TouchState ==
    /\ updated' = updated + 1
    /\ UNCHANGED <<current, payloads, owner>>

\* Mutant: the payloads replaced earlier are not deleted.
ReplaceKeepsOld(new) ==
    LET id == current + 1 IN
        /\ payloads' = payloads \cup {[id |-> id, fp |-> new.fp]}
        /\ owner' = [s \in Stations |-> IF s \in new.rows THEN id ELSE owner[s]]
        /\ current' = id
        /\ updated' = updated + 1

\* Mutant: the upsert of the state sets payload_id only.
ReplaceKeepsVersion(new) ==
    /\ payloads' = {[id |-> current + 1, fp |-> new.fp]}
    /\ owner' = [s \in Stations |-> IF s \in new.rows THEN current + 1 ELSE 0]
    /\ current' = current + 1
    /\ UNCHANGED updated

\* Insert the payload, move or insert its stations, point the state at it and
\* delete every other payload, and by cascade the stations left with one.
ReplacePayload(new) ==
    LET id    == current + 1
        moved == [s \in Stations |-> IF s \in new.rows THEN id ELSE owner[s]]
    IN  /\ payloads' = {row \in payloads \cup {[id |-> id, fp |-> new.fp]} : row.id = id}
        /\ owner' = [s \in Stations |->
                        IF \E row \in payloads' : row.id = moved[s] THEN moved[s] ELSE 0]
        /\ current' = id
        /\ updated' = updated + 1

Store(new) ==
    IF \E row \in payloads : row.id = current /\ row.fp = new.fp
    THEN TouchState
    ELSE ReplacePayload(new)

\* Mutant: the state row is read without FOR UPDATE.
PersistUnlocked(t) ==
    /\ pc[t] = "persist"
    /\ Store(loc[t].got)
    /\ Goto(t, "readOwn")
    /\ UNCHANGED <<inFlight, lock, caches, mutex, spawned, loc, budget>>

\* StationStorage::persist_payload, one transaction.  It takes the state row
\* FOR UPDATE, so it waits for a COMMIT in flight.
Persist(t) ==
    /\ pc[t] = "persist"
    /\ inFlight = NoPayload
    /\ Store(loc[t].got)
    /\ Goto(t, "readOwn")
    /\ UNCHANGED <<inFlight, lock, caches, mutex, spawned, loc, budget>>

\* update_cache_state_marker: read, then store.
ReadOwn(t) ==
    /\ pc[t] = "readOwn"
    /\ loc' = [loc EXCEPT ![t].seen = updated]
    /\ Goto(t, "setMarker")
    /\ UNCHANGED <<db, lock, caches, mutex, spawned, budget>>

SetMarker(t) ==
    /\ pc[t] = "setMarker"
    /\ marker' = [marker EXCEPT ![ProcOf[t]] = loc[t].seen]
    /\ Goto(t, "cacheFresh")
    /\ UNCHANGED <<db, lock, mem, processed, mutex, spawned, loc, budget>>

CacheFresh(t) ==
    /\ pc[t] = "cacheFresh"
    /\ mem' = [mem EXCEPT ![ProcOf[t]] = loc[t].got]
    /\ Goto(t, "processFresh")
    /\ UNCHANGED <<db, lock, marker, processed, mutex, spawned, loc, budget>>

\* ensure_processed; the guard is dropped when perform_refresh_with_lock returns.
ProcessFresh(t) ==
    /\ pc[t] = "processFresh"
    /\ processed' = [processed EXCEPT ![ProcOf[t]] = loc[t].got]
    /\ DropGuard(t)
    /\ Finish(t)
    /\ UNCHANGED <<db, marker, mem, mutex, spawned, budget>>

\* The task spawned by the guard's drop, or the server closing a dead session.
Unlock ==
    /\ unlocking
    /\ unlocking' = FALSE
    /\ depth' = depth - 1
    /\ lockProc' = IF depth = 1 THEN None ELSE lockProc
    /\ UNCHANGED <<db, lockTask, leaks, caches, mutex, spawned, pc, loc, budget>>

-----------------------------------------------------------------------------
(* wait_for_external_refresh *)

WaitInit(t) ==
    /\ pc[t] = "waitInit"
    /\ loc' = [loc EXCEPT ![t].base = updated]
    /\ Goto(t, "poll")
    /\ UNCHANGED <<db, lock, caches, mutex, spawned, budget>>

\* Mutant: a turn does not compare what it reads with the initial version.
PollAnyVersion(t) ==
    /\ pc[t] = "poll"
    /\ loc[t].tries < RetryAttempts
    /\ loc' = [loc EXCEPT ![t].tries = @ + 1]
    /\ Goto(t, "readMarker")
    /\ UNCHANGED <<db, lock, caches, mutex, spawned, budget>>

\* One turn of the loop, after its sleep.
Poll(t) ==
    /\ pc[t] = "poll"
    /\ loc[t].tries < RetryAttempts
    /\ loc' = [loc EXCEPT ![t].tries = @ + 1]
    /\ Goto(t, IF updated # loc[t].base THEN "readMarker" ELSE "poll")
    /\ UNCHANGED <<db, lock, caches, mutex, spawned, budget>>

TimeOut(t) ==
    /\ pc[t] = "poll"
    /\ loc[t].tries = RetryAttempts
    /\ Finish(t)
    /\ UNCHANGED <<db, lock, caches, mutex, spawned, budget>>

-----------------------------------------------------------------------------
(* Failures *)

\* What tasks dropped in persist_payload leave: a rollback, or a COMMIT that
\* the server already has and whose transaction keeps the state row until then.
LeaveCommit(dropped) ==
    \/ UNCHANGED inFlight
    \/ /\ inFlight = NoPayload
       /\ \E t \in dropped : pc[t] = "persist" /\ inFlight' = loc[t].got

CommitLands ==
    /\ inFlight # NoPayload
    /\ Store(inFlight)
    /\ inFlight' = NoPayload
    /\ UNCHANGED <<lock, caches, mutex, spawned, pc, loc, budget>>

\* A query or a fetch fails, or the client leaves and the server drops the
\* request's future: whatever the task holds is dropped with it.
Abort(t) ==
    /\ \/ pc[t] \in Fallible
       \/ pc[t] # "idle" /\ loc[t].kind # "background"
    /\ mutex' = [mutex EXCEPT ![ProcOf[t]] = IF @ = t THEN None ELSE @]
    /\ DropGuard(t)
    /\ LeaveCommit({t})
    /\ Finish(t)
    /\ UNCHANGED <<tables, caches, spawned, budget>>

\* The future is dropped after the server granted the lock and before the
\* guard exists: the connection goes back to the pool with the lock.
LeakLock(t) ==
    /\ pc[t] = "tryLock"
    /\ loc[t].kind # "background"
    /\ leaks < MaxLeaks
    /\ Grantable(t)
    /\ leaks' = leaks + 1
    /\ lockProc' = ProcOf[t]
    /\ depth' = depth + 1
    /\ mutex' = [mutex EXCEPT ![ProcOf[t]] = None]
    /\ Finish(t)
    /\ UNCHANGED <<db, lockTask, unlocking, caches, spawned, budget>>

\* The pool closes the idle session that kept the lock.  Nothing says when.
Reap ==
    /\ lockProc # None
    /\ lockTask = None
    /\ ~unlocking
    /\ lockProc' = None
    /\ depth' = 0
    /\ leaks' = 0
    /\ UNCHANGED <<db, lockTask, unlocking, caches, mutex, spawned, pc, loc, budget>>

\* The memory entry is past its expires_at: no read returns it any more.
Expire(p) ==
    /\ mem[p] # NoPayload
    /\ mem' = [mem EXCEPT ![p] = NoPayload]
    /\ UNCHANGED <<db, lock, marker, processed, mutex, spawned, pc, loc, budget>>

\* The process dies and starts again.  Postgres ends the session that holds
\* the lock when it notices (Unlock).
Crash(p) ==
    /\ crashes < MaxCrashes
    /\ crashes' = crashes + 1
    /\ pc' = [t \in Tasks |-> IF ProcOf[t] = p THEN "idle" ELSE pc[t]]
    /\ loc' = [t \in Tasks |-> IF ProcOf[t] = p THEN Fresh ELSE loc[t]]
    /\ marker' = [marker EXCEPT ![p] = 0]
    /\ mem' = [mem EXCEPT ![p] = NoPayload]
    /\ processed' = [processed EXCEPT ![p] = NoPayload]
    /\ mutex' = [mutex EXCEPT ![p] = None]
    /\ spawned' = [spawned EXCEPT ![p] = 0]
    /\ IF lockProc = p
       THEN /\ lockTask' = None
            /\ unlocking' = TRUE
            /\ depth' = 1
            /\ leaks' = 0
            /\ UNCHANGED lockProc
       ELSE UNCHANGED lock
    /\ LeaveCommit({t \in Tasks : ProcOf[t] = p})
    /\ UNCHANGED <<tables, requests>>

-----------------------------------------------------------------------------

\* The steps of a task that the runtime schedules, the network aside.
Step(t) ==
    \/ BeginBackground(t)
    \/ ReadMarker(t) \/ Mark(t) \/ ClearMem(t) \/ ClearProcessed(t)
    \/ CheckMem(t) \/ LoadRow(t) \/ LoadRows(t) \/ CacheMem(t) \/ CacheProcessed(t)
    \/ LockMutex(t) \/ TryLock(t)
    \/ Persist(t) \/ ReadOwn(t) \/ SetMarker(t) \/ CacheFresh(t) \/ ProcessFresh(t)
    \/ WaitInit(t) \/ Poll(t) \/ TimeOut(t)

Upstream(t) == Fetch(t) \/ Validate(t)

Next ==
    \/ \E t \in Tasks : Begin(t) \/ Step(t) \/ Upstream(t) \/ Abort(t) \/ LeakLock(t)
    \/ \E p \in Procs : Expire(p) \/ Crash(p)
    \/ Unlock
    \/ Reap
    \/ CommitLands

Spec == Init /\ [][Next]_vars

\* The runtime polls every task that can go on, tokio's Mutex is first come
\* first served, the spawned unlock runs, and Postgres ends what it was sent.
\* Nothing makes upstream answer: neither HTTP client has a timeout for a body.
Fairness ==
    /\ \A t \in Tasks : WF_vars(Step(t)) /\ SF_vars(LockMutex(t))
    /\ WF_vars(Unlock)
    /\ WF_vars(CommitLands)

-----------------------------------------------------------------------------
(* Properties *)

TypeOK ==
    /\ updated \in Nat \ {0}
    /\ current \in Nat
    /\ payloads \subseteq [id : Nat \ {0}, fp : Listings \cup {{}}]
    /\ owner \in [Stations -> Nat]
    /\ inFlight \in Payload
    /\ lockProc \in Procs \cup {None}
    /\ lockTask \in Tasks \cup {None}
    /\ unlocking \in BOOLEAN
    /\ depth \in Nat
    /\ leaks \in Nat
    /\ marker \in [Procs -> Nat]
    /\ mem \in [Procs -> Payload]
    /\ processed \in [Procs -> Payload]
    /\ mutex \in [Procs -> Tasks \cup {None}]
    /\ spawned \in [Procs -> Nat]
    /\ pc \in [Tasks -> Labels]
    /\ loc \in [Tasks -> Local]
    /\ requests \in Nat
    /\ crashes \in Nat

\* pg_try_advisory_lock and the guard let one task at a time, over all the
\* processes, be between the grant and the drop of its guard: crashes, leaked
\* grants and a lock granted again to the session that has it included.
RefreshExclusive ==
    \A t, u \in Tasks : pc[t] \in Locked /\ pc[u] \in Locked => t = u

\* The database holds one payload, the state's, and only its stations: what
\* load_latest_payload and the UNIQUE fingerprint column rely on.
DbIntegrity ==
    /\ \A row \in payloads : row.id = current
    /\ \A row1, row2 \in payloads : row1 = row2
    /\ \A s \in Stations : owner[s] # 0 => \E row \in payloads : row.id = owner[s]

\* Until the guard is dropped nobody replaces what its task has persisted, so
\* the marker and the memory entry the task sets belong to its own refresh.
StoredIsMine ==
    \A t \in Tasks :
        /\ pc[t] \in Stored =>
              \E row \in payloads : row.id = current /\ row.fp = loc[t].got.fp
        /\ pc[t] = "setMarker" => loc[t].seen = updated

\* The two queries of load_latest_payload are not one transaction, yet what
\* they return together is the whole of one persisted payload.
NoTornPayload ==
    \A t \in Tasks :
        pc[t] \in {"cacheMem", "cacheProcessed"} => loc[t].got.rows = loc[t].want

\* A waiter answers with a catalogue read after a refresh that was persisted
\* since it began to wait, never with the one it already had.
WaiterSeesNewer ==
    \A t \in Tasks :
        Waiting(t) /\ pc[t] \in {"loadRows", "cacheMem", "cacheProcessed"} =>
            loc[t].readAt > loc[t].base

\* The processes notice a new catalogue by updated_at alone: no step changes
\* the stored payload or its stations and leaves updated_at as it was.
ChangeMovesVersion ==
    [][<<current, payloads, owner>>' # <<current, payloads, owner>> =>
          updated' > updated]_vars

\* However long upstream hangs, with the lock held by the task that asked it,
\* every other task ends: a waiter gives up after its attempts, nobody queues
\* for the lock, and the mutex is not held across a refresh.
OnlyUpstreamBlocks ==
    \A t \in Tasks :
        pc[t] \notin {"idle", "fetch", "validate"} ~>
            pc[t] \in {"idle", "fetch", "validate"}

\* Every grant of the advisory lock that a guard was made for is given back
\* unless its holder waits for upstream: a refresh that succeeds, fails, is
\* dropped with its request or dies with its process reaches the unlock.  Not so
\* a request dropped before it has a guard (LeakLock, app_state.rs:530-537): its
\* grant stays, below those of later guards, until the pool closes the session.
LockReleased ==
    depth > leaks ~>
        \/ depth = leaks
        \/ \E t \in Tasks : lockTask = t /\ pc[t] \in {"fetch", "validate"}

\* The listing the stored catalogue was made from.
CurrentFp == UNION {row.fp : row \in {r \in payloads : r.id = current}}

Catalogue == INSTANCE StationCatalogue WITH
    Refreshers <- Tasks,
    version    <- updated,
    fp         <- CurrentFp,
    rows       <- IF current = 0 THEN {} ELSE RowsOf(current),
    late       <- inFlight # NoPayload,
    refresher  <- lockTask,
    done       <- \E t \in Tasks : t = lockTask /\ pc[t] \in Stored

\* The stored catalogue behaves as StationCatalogue says: refreshes exclude one
\* another, each replaces it at most once and whole, a dropped one no later than
\* the next, and nothing else changes it.
ImplementsCatalogue == Catalogue!Spec

\* "timed out waiting for another refresh task to complete": a waiter that is
\* about to say so has seen no refresh complete since it found the lock taken.
TimeoutMeansNoRefresh ==
    \A t \in Tasks :
        pc[t] = "poll" /\ loc[t].tries = RetryAttempts /\ updated = loc[t].base =>
            loc[t].base = loc[t].failedAt
=============================================================================
