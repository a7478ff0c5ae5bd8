----------------------------- MODULE ResultCache -----------------------------
(***************************************************************************)
(* The result cache of dbt-graphql: execute_with_cache, the function every *)
(* GraphQL resolver calls instead of talking to the warehouse.  One action *)
(* per stretch of code between two awaits of _execute_with                 *)
(* (src/src/dbt_graphql/cache/result.py), for any number of requests that  *)
(* run concurrently in one process or in several processes that share a    *)
(* Redis backend.                                                          *)
(*                                                                         *)
(* The cache backend (cashews) is external: a keyed store whose entries    *)
(* and whose locks expire.  The warehouse is external too: all this module *)
(* needs to know of it is which version of the data a query saw, so a      *)
(* result is the statement it answers with the version it was read at.     *)
(*                                                                         *)
(* Time is counted in seconds by Tick.  Entries and locks carry the        *)
(* seconds they have left, so that no absolute clock has to be bounded.    *)
(***************************************************************************)
EXTENDS Naturals

CONSTANTS
  Requests,      \* identities of the calls of execute_with_cache
  Sqls,          \* SQL texts with bind placeholders
  Params,        \* bound parameter values (JWT claims of row filters included)
  Dialects,      \* dialect names
  Ttl,           \* CacheConfig.ttl, in seconds
  LockTimeout,   \* CacheConfig.lock_safety_timeout, in seconds
  MaxVersion,    \* bound: how often the warehouse data changes
  Faults,        \* what the environment may do, a subset of FaultKinds
  OwnedUnlock,   \* whether the backend checks the owner when it unlocks
  Hung,          \* requests whose warehouse query may never come back
  None           \* no request, no statement, no result

(***************************************************************************)
(* "crash": a process is killed and runs no cleanup code;                  *)
(* "evict_entry", "evict_lock": the size-bounded store drops an entry or a *)
(* lock (docs/caching.md section 8: both live on one backend);             *)
(* "overrun": a lock may expire while its holder is still at work, that is *)
(* lock_safety_timeout is not above the slowest query.                     *)
(***************************************************************************)
FaultKinds == {"crash", "evict_entry", "evict_lock", "overrun"}

Statements == [sql : Sqls, params : Params, dialect : Dialects]

Results == [stmt : Statements, version : 0 .. MaxVersion]

ASSUME ParametersAssumption ==
  /\ Ttl \in Nat
  /\ LockTimeout \in Nat \ {0}
  /\ MaxVersion \in Nat
  /\ Faults \subseteq FaultKinds
  /\ OwnedUnlock \in BOOLEAN
  /\ Hung \subseteq Requests
  /\ None \notin Requests
  /\ None \notin Statements
  /\ None \notin Results

(***************************************************************************)
(* hash_sql: the key is a digest of the SQL text, the bound parameters and *)
(* the dialect.  The digest is taken to be free of collisions.             *)
(***************************************************************************)
KeyWithoutParams(s) == <<s.sql, s.dialect>>   \* mutant

Key(s) == <<s.sql, s.params, s.dialect>>

Keys == {Key(s) : s \in Statements}

TtlAsConfigured == Ttl   \* mutant: no coalescing window for "ttl: 0"

(* "ttl: 0" still keeps a result for one second. *)
EffectiveTtl == IF Ttl = 0 THEN 1 ELSE Ttl

VARIABLES
  pc,        \* where each request is in _execute_with
  stmt,      \* the statement it was called with
  response,  \* its local variable `cached` or `result`
  outcome,   \* which counter of stats.result it has incremented
  store,     \* backend: the cached results
  lock,      \* backend: the singleflight locks
  version,   \* warehouse: the current version of the data
  floor,     \* history: newest version returned for its statement before it began
  quiet      \* history: seconds since a key was last stored, if it was not evicted

vars == <<pc, stmt, response, outcome, store, lock, version, floor, quiet>>

-----------------------------------------------------------------------------

NoEntry == [result |-> None, left |-> 0]

FreeLock == [owner |-> None, left |-> 0]

Present(e) == e.left > 0

(* The request is between entering and leaving the `async with` block. *)
Critical == {"recheck", "run", "store", "unlock"}

Active == {"lookup", "lock"} \cup Critical

Ended == {"done", "failed", "crashed"}

KeyOf(r) == Key(stmt[r])

Init ==
  /\ pc = [r \in Requests |-> "idle"]
  /\ stmt = [r \in Requests |-> None]
  /\ response = [r \in Requests |-> None]
  /\ outcome = [r \in Requests |-> "none"]
  /\ store = [k \in Keys |-> NoEntry]
  /\ lock = [k \in Keys |-> FreeLock]
  /\ version = 0
  /\ floor = [r \in Requests |-> 0]
  /\ quiet = [k \in Keys |-> Ttl + 1]

(* The versions already returned to callers that asked for statement s. *)
Returned(s) ==
  {0} \cup {response[r].version : r \in {q \in Requests : pc[q] = "done" /\ stmt[q] = s}}

-----------------------------------------------------------------------------
(* The steps of a request. *)

Call(r, s) ==
  /\ pc[r] = "idle"
  /\ pc' = [pc EXCEPT ![r] = "lookup"]
  /\ stmt' = [stmt EXCEPT ![r] = s]
  /\ \E v \in Returned(s) :
       /\ \A w \in Returned(s) : w <= v
       /\ floor' = [floor EXCEPT ![r] = v]
  /\ UNCHANGED <<response, outcome, store, lock, version, quiet>>

(* Fast path: the first cache.get finds a live entry. *)
FastHit(r) ==
  /\ pc[r] = "lookup"
  /\ Present(store[KeyOf(r)])
  /\ response' = [response EXCEPT ![r] = store[KeyOf(r)].result]
  /\ outcome' = [outcome EXCEPT ![r] = "hit"]
  /\ pc' = [pc EXCEPT ![r] = "done"]
  /\ UNCHANGED <<stmt, store, lock, version, floor, quiet>>

FastMiss(r) ==
  /\ pc[r] = "lookup"
  /\ ~Present(store[KeyOf(r)])
  /\ pc' = [pc EXCEPT ![r] = "lock"]
  /\ UNCHANGED <<stmt, response, outcome, store, lock, version, floor, quiet>>

(* Mutant: enters the block without waiting for the lock. *)
AcquireLockAnyway(r) ==
  /\ pc[r] = "lock"
  /\ lock' = [lock EXCEPT ![KeyOf(r)] = [owner |-> r, left |-> LockTimeout]]
  /\ pc' = [pc EXCEPT ![r] = "recheck"]
  /\ UNCHANGED <<stmt, response, outcome, store, version, floor, quiet>>

(* Waiters poll: whoever tries when the lock is free or expired gets it. *)
AcquireLock(r) ==
  /\ pc[r] = "lock"
  /\ lock[KeyOf(r)].left = 0
  /\ lock' = [lock EXCEPT ![KeyOf(r)] = [owner |-> r, left |-> LockTimeout]]
  /\ pc' = [pc EXCEPT ![r] = "recheck"]
  /\ UNCHANGED <<stmt, response, outcome, store, version, floor, quiet>>

(* The second cache.get, under the lock. *)
RecheckHit(r) ==
  /\ pc[r] = "recheck"
  /\ Present(store[KeyOf(r)])
  /\ response' = [response EXCEPT ![r] = store[KeyOf(r)].result]
  /\ outcome' = [outcome EXCEPT ![r] = "coalesced"]
  /\ pc' = [pc EXCEPT ![r] = "unlock"]
  /\ UNCHANGED <<stmt, store, lock, version, floor, quiet>>

(* Mutant: goes to the warehouse without looking again. *)
RunUnchecked(r) ==
  /\ pc[r] = "recheck"
  /\ outcome' = [outcome EXCEPT ![r] = "miss"]
  /\ pc' = [pc EXCEPT ![r] = "run"]
  /\ UNCHANGED <<stmt, response, store, lock, version, floor, quiet>>

RecheckMiss(r) ==
  /\ pc[r] = "recheck"
  /\ ~Present(store[KeyOf(r)])
  /\ outcome' = [outcome EXCEPT ![r] = "miss"]
  /\ pc' = [pc EXCEPT ![r] = "run"]
  /\ UNCHANGED <<stmt, response, store, lock, version, floor, quiet>>

(* Mutant: leaves the block before cache.set. *)
RunnerReadsAndUnlocks(r) ==
  /\ pc[r] = "run"
  /\ response' = [response EXCEPT ![r] = [stmt |-> stmt[r], version |-> version]]
  /\ lock' = [lock EXCEPT ![KeyOf(r)] = FreeLock]
  /\ pc' = [pc EXCEPT ![r] = "store"]
  /\ UNCHANGED <<stmt, outcome, store, version, floor, quiet>>

(***************************************************************************)
(* The warehouse reads the data.  The request stays in "store" while the   *)
(* rows travel back and until cache.set has taken them, however long that  *)
(* is, so the result may be out of date when it is stored.                 *)
(***************************************************************************)
RunnerReads(r) ==
  /\ pc[r] = "run"
  /\ response' = [response EXCEPT ![r] = [stmt |-> stmt[r], version |-> version]]
  /\ pc' = [pc EXCEPT ![r] = "store"]
  /\ UNCHANGED <<stmt, outcome, store, lock, version, floor, quiet>>

(* Mutant: the exception is swallowed and None is stored. *)
RunnerRaisesAndStores(r) ==
  /\ pc[r] = "run"
  /\ pc' = [pc EXCEPT ![r] = "store"]
  /\ UNCHANGED <<stmt, response, outcome, store, lock, version, floor, quiet>>

(* The runner raises (pool timeout, warehouse error, cancellation). *)
RunnerRaises(r) ==
  /\ pc[r] = "run"
  /\ pc' = [pc EXCEPT ![r] = "unlock"]
  /\ UNCHANGED <<stmt, response, outcome, store, lock, version, floor, quiet>>

StoreResult(r) ==
  /\ pc[r] = "store"
  /\ store' = [store EXCEPT ![KeyOf(r)] = [result |-> response[r], left |-> EffectiveTtl]]
  /\ quiet' = [quiet EXCEPT ![KeyOf(r)] = 0]
  /\ pc' = [pc EXCEPT ![r] = "unlock"]
  /\ UNCHANGED <<stmt, response, outcome, lock, version, floor>>

(* Mutant: releases the lock only when there are rows to return. *)
UnlockOnSuccess(r) ==
  /\ pc[r] = "unlock"
  /\ lock' = IF response[r] = None \/ lock[KeyOf(r)].owner # r
               THEN lock
               ELSE [lock EXCEPT ![KeyOf(r)] = FreeLock]
  /\ pc' = [pc EXCEPT ![r] = IF response[r] = None THEN "failed" ELSE "done"]
  /\ UNCHANGED <<stmt, response, outcome, store, version, floor, quiet>>

(* Leaving the `async with` block, normally or by an exception. *)
Unlock(r) ==
  /\ pc[r] = "unlock"
  /\ lock' = IF OwnedUnlock /\ lock[KeyOf(r)].owner # r
               THEN lock
               ELSE [lock EXCEPT ![KeyOf(r)] = FreeLock]
  /\ pc' = [pc EXCEPT ![r] = IF response[r] = None THEN "failed" ELSE "done"]
  /\ UNCHANGED <<stmt, response, outcome, store, version, floor, quiet>>

-----------------------------------------------------------------------------
(* The environment: clock, warehouse, crashes, bounded store. *)

Aged(e, none) == IF e.left <= 1 THEN none ELSE [e EXCEPT !.left = @ - 1]

(* A lock about to expire although its holder is still in the block. *)
Overrunning(k) == lock[k].left = 1 /\ pc[lock[k].owner] \in Critical

Tick ==
  /\ "overrun" \in Faults \/ \A k \in Keys : ~Overrunning(k)
  /\ store' = [k \in Keys |-> Aged(store[k], NoEntry)]
  /\ lock' = [k \in Keys |-> Aged(lock[k], FreeLock)]
  /\ quiet' = [k \in Keys |-> IF quiet[k] > Ttl THEN quiet[k] ELSE quiet[k] + 1]
  /\ UNCHANGED <<pc, stmt, response, outcome, version, floor>>

(* dbt jobs change the data out of band. *)
WarehouseWrite ==
  /\ version < MaxVersion
  /\ version' = version + 1
  /\ UNCHANGED <<pc, stmt, response, outcome, store, lock, floor, quiet>>

(* The process that serves the requests rs is killed: no cleanup code runs. *)
Crash(rs) ==
  /\ "crash" \in Faults
  /\ \E r \in rs : pc[r] \in Active
  /\ pc' = [r \in Requests |->
              IF r \in rs /\ pc[r] \in Active THEN "crashed" ELSE pc[r]]
  /\ response' = [r \in Requests |->
                    IF r \in rs /\ pc[r] \in Active THEN None ELSE response[r]]
  /\ UNCHANGED <<stmt, outcome, store, lock, version, floor, quiet>>

EvictEntry(k) ==
  /\ "evict_entry" \in Faults
  /\ Present(store[k])
  /\ store' = [store EXCEPT ![k] = NoEntry]
  /\ quiet' = [quiet EXCEPT ![k] = Ttl + 1]
  /\ UNCHANGED lock

EvictLock(k) ==
  /\ "evict_lock" \in Faults
  /\ Present(lock[k])
  /\ lock' = [lock EXCEPT ![k] = FreeLock]
  /\ UNCHANGED <<store, quiet>>

(* A backend that is full drops a key, be it of a result or of a lock. *)
Evict(k) ==
  /\ EvictEntry(k) \/ EvictLock(k)
  /\ UNCHANGED <<pc, stmt, response, outcome, version, floor>>

-----------------------------------------------------------------------------

Step(r) ==
  \/ FastHit(r)
  \/ FastMiss(r)
  \/ AcquireLock(r)
  \/ RecheckHit(r)
  \/ RecheckMiss(r)
  \/ RunnerReads(r)
  \/ RunnerRaises(r)
  \/ StoreResult(r)
  \/ Unlock(r)

Environment ==
  \/ Tick
  \/ WarehouseWrite
  \/ \E rs \in SUBSET Requests : Crash(rs)
  \/ \E k \in Keys : Evict(k)

Next ==
  \/ \E r \in Requests, s \in Statements : Call(r, s)
  \/ \E r \in Requests : Step(r)
  \/ Environment

Spec == Init /\ [][Next]_vars

(***************************************************************************)
(* The event loop runs every coroutine that is ready and time passes.  A   *)
(* request takes its own steps, except that nothing makes the warehouse    *)
(* answer the requests of Hung: DatabaseManager.execute sets no statement  *)
(* timeout.                                                                *)
(***************************************************************************)
Answers(r) == RunnerReads(r) \/ RunnerRaises(r)

OwnStep(r) == Step(r) /\ pc[r] # "run"

FairSpec ==
  /\ Spec
  /\ WF_vars(Tick)
  /\ \A r \in Requests : WF_vars(OwnStep(r))
  /\ \A r \in Requests \ Hung : WF_vars(Answers(r))

-----------------------------------------------------------------------------
(* Properties. *)

Entries == [result : Results, left : 1 .. Ttl + 1] \cup {NoEntry}

Locks == [owner : Requests, left : 1 .. LockTimeout] \cup {FreeLock}

(* Every variable keeps its type; a stored result always has time to live. *)
TypeOK ==
  /\ pc \in [Requests -> {"idle"} \cup Active \cup Ended]
  /\ stmt \in [Requests -> Statements \cup {None}]
  /\ response \in [Requests -> Results \cup {None}]
  /\ outcome \in [Requests -> {"none", "hit", "coalesced", "miss"}]
  /\ store \in [Keys -> Entries]
  /\ lock \in [Keys -> Locks]
  /\ version \in 0 .. MaxVersion
  /\ floor \in [Requests -> 0 .. MaxVersion]
  /\ quiet \in [Keys -> 0 .. Ttl + 1]
  /\ \A r \in Requests : pc[r] # "idle" => stmt[r] \in Statements

(***************************************************************************)
(* Multi-tenant correctness (docs/caching.md section 4): whatever path a   *)
(* request took, and whoever ran the query, the rows it returns answer its *)
(* own SQL, with its own bound values, in its own dialect.                 *)
(***************************************************************************)
OwnStatement ==
  \A r \in Requests : response[r] # None => response[r].stmt = stmt[r]

Fetching(r) == pc[r] \in {"run", "store"}

(***************************************************************************)
(* Singleflight: two live requests are never at the warehouse for the same *)
(* key at once.  It needs locks that outlive their holders (no overrun, no *)
(* eviction of locks); crashes, failures and evicted entries do not hurt.  *)
(***************************************************************************)
SingleFlight ==
  \A r, q \in Requests :
    Fetching(r) /\ Fetching(q) /\ KeyOf(r) = KeyOf(q) => r = q

(***************************************************************************)
(* A request only stays at the warehouse while no live entry exists for    *)
(* its key: no roundtrip is spent on something the cache could answer.     *)
(***************************************************************************)
NoWastedFetch ==
  \A r \in Requests : Fetching(r) => ~Present(store[KeyOf(r)])

(***************************************************************************)
(* A caller never sees older rows than a caller that had finished before   *)
(* it began, although results are stored some time after they are read.    *)
(***************************************************************************)
MonotonicReads ==
  \A r \in Requests : pc[r] = "done" => response[r].version >= floor[r]

(***************************************************************************)
(* The TTL window, "ttl: 0" included (result.py:8-12): the warehouse is    *)
(* asked again for a key only when the last stored result is at least ttl  *)
(* seconds old, and at least one second, or was evicted.                   *)
(***************************************************************************)
OneFetchPerWindow ==
  [][\A r \in Requests :
       pc[r] = "recheck" /\ pc'[r] = "run"
         => quiet[KeyOf(r)] >= Ttl /\ quiet[KeyOf(r)] >= 1]_vars

(***************************************************************************)
(* A lock that has time left belongs to a request that is in the block, or *)
(* whose process died there: whatever ended the block (rows, an exception, *)
(* a refusal by the pool), no lock is left behind to time out.             *)
(***************************************************************************)
LocksHaveHolders ==
  \A k \in Keys :
    Present(lock[k]) => pc[lock[k].owner] \in Critical \cup {"crashed"}

(***************************************************************************)
(* A request that was made gets its rows or an exception (or dies with its *)
(* process), whatever happened to those it waited for: they may have       *)
(* crashed with the lock or hang in the warehouse for ever.                *)
(***************************************************************************)
EveryCallEnds ==
  \A r \in Requests \ Hung : pc[r] \in Active ~> pc[r] \in Ended

=============================================================================
