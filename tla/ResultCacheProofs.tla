-------------------------- MODULE ResultCacheProofs --------------------------
(***************************************************************************)
(* Proofs about ResultCache, for any requests, statements, timeouts and    *)
(* numbers of data versions.                                               *)
(*                                                                         *)
(* Six inductive invariants, each resting on WellFormed:                   *)
(*   WellFormed  types, and what a request holds at each point of the code *)
(*   Filed       every stored result is filed under its own statement's key *)
(*   Guarded     a request inside the block owns a lock that has time left *)
(*   Ordered     no result in the store or on its way there is older than  *)
(*               one already returned for the same key                     *)
(*   Owned       a lock with time left is its owner's, for its owner's key *)
(*   Windowed    an entry's time left and its age make up the ttl          *)
(* Guarded and Ordered need locks that are not lost (LocksHold).  With      *)
(* Guarded the cache implements SharedFetch (last section).                *)
(***************************************************************************)
EXTENDS ResultCacheRefinement, TLAPS

(* No fault takes a lock from a request that is inside the block. *)
LocksHold == "overrun" \notin Faults /\ "evict_lock" \notin Faults

Waiting == {"idle", "lookup", "lock", "recheck", "run", "failed", "crashed"}

WellFormed ==
  /\ TypeOK
  /\ \A r \in Requests : pc[r] \in Waiting => response[r] = None
  /\ \A r \in Requests : pc[r] \in {"store", "done"} => response[r] # None

Filed == \A k \in Keys : Present(store[k]) => Key(store[k].result.stmt) = k

Guarded ==
  \A r \in Requests :
    pc[r] \in Critical => lock[KeyOf(r)].owner = r /\ lock[KeyOf(r)].left > 0

-----------------------------------------------------------------------------
(* Facts about the operators. *)

(* The key determines the statement: SQL text, parameters and dialect are all in it. *)
LEMMA KeyInjective ==
  ASSUME NEW s \in Statements, NEW t \in Statements, Key(s) = Key(t)
  PROVE  s = t
  BY DEF Statements, Key

(* A result is stored for at least a second, "ttl: 0" included. *)
LEMMA EffectiveTtlPositive == EffectiveTtl \in 1 .. Ttl + 1
  BY ParametersAssumption DEF EffectiveTtl

(* Ageing keeps entries well formed, and never changes what an entry holds. *)
LEMMA AgedEntry ==
  ASSUME NEW e \in Entries
  PROVE  /\ Aged(e, NoEntry) \in Entries
         /\ Present(Aged(e, NoEntry)) => Present(e) /\ Aged(e, NoEntry).result = e.result
  BY ParametersAssumption DEF Aged, Entries, NoEntry, Present

(* Ageing keeps locks well formed; a lock with two seconds or more keeps its owner. *)
LEMMA AgedLock ==
  ASSUME NEW l \in Locks
  PROVE  /\ Aged(l, FreeLock) \in Locks
         /\ l.left > 1 => Aged(l, FreeLock).owner = l.owner /\ Aged(l, FreeLock).left > 0
  BY ParametersAssumption DEF Aged, Locks, FreeLock

-----------------------------------------------------------------------------
(* Type correctness, with what each program point has in hand. *)

LEMMA WellFormedInit == Init => WellFormed
  BY ParametersAssumption
     DEF Init, WellFormed, TypeOK, Entries, Locks, Active, Ended, Critical, Waiting

LEMMA WellFormedNext == WellFormed /\ [Next]_vars => WellFormed'
  <1> SUFFICES ASSUME WellFormed, [Next]_vars PROVE WellFormed'
    OBVIOUS
  <1> USE ParametersAssumption
      DEF WellFormed, TypeOK, Active, Ended, Critical, Waiting
  <1>k. ASSUME NEW r \in Requests, pc[r] # "idle"
        PROVE  KeyOf(r) \in Keys
    BY <1>k DEF KeyOf, Keys
  <1>e. ASSUME NEW k \in Keys, Present(store[k])
        PROVE  store[k].result \in Results /\ store[k].result # None
    BY <1>e DEF Entries, NoEntry, Present
  <1>1. ASSUME NEW r \in Requests, NEW s \in Statements, Call(r, s)
        PROVE  WellFormed'
    <2>1. Returned(s) \subseteq 0 .. MaxVersion
      BY DEF Returned, Results
    <2> QED BY <1>1, <2>1 DEF Call
  <1>2. ASSUME NEW r \in Requests, FastHit(r)
        PROVE  WellFormed'
    BY <1>2, <1>k, <1>e DEF FastHit
  <1>3. ASSUME NEW r \in Requests, FastMiss(r)
        PROVE  WellFormed'
    BY <1>3 DEF FastMiss
  <1>4. ASSUME NEW r \in Requests, AcquireLock(r)
        PROVE  WellFormed'
    <2>1. [owner |-> r, left |-> LockTimeout] \in Locks
      BY DEF Locks
    <2> QED BY <1>4, <2>1 DEF AcquireLock
  <1>5. ASSUME NEW r \in Requests, RecheckHit(r)
        PROVE  WellFormed'
    BY <1>5, <1>k, <1>e DEF RecheckHit
  <1>6. ASSUME NEW r \in Requests, RecheckMiss(r)
        PROVE  WellFormed'
    BY <1>6 DEF RecheckMiss
  <1>7. ASSUME NEW r \in Requests, RunnerReads(r)
        PROVE  WellFormed'
    <2>1. [stmt |-> stmt[r], version |-> version] \in Results
      BY <1>7 DEF RunnerReads, Results
    <2> QED BY <1>7, <2>1 DEF RunnerReads
  <1>8. ASSUME NEW r \in Requests, RunnerRaises(r)
        PROVE  WellFormed'
    BY <1>8 DEF RunnerRaises
  <1>9. ASSUME NEW r \in Requests, StoreResult(r)
        PROVE  WellFormed'
    <2>1. [result |-> response[r], left |-> EffectiveTtl] \in Entries
      BY <1>9, EffectiveTtlPositive DEF StoreResult, Entries
    <2>2. store' \in [Keys -> Entries]
      BY <1>9, <2>1 DEF StoreResult
    <2>3. quiet' \in [Keys -> 0 .. Ttl + 1]
      <3>1. 0 \in 0 .. Ttl + 1
        OBVIOUS
      <3> QED BY <1>9, <3>1 DEF StoreResult
    <2>4. pc' \in [Requests -> {"idle"} \cup Active \cup Ended]
      BY <1>9 DEF StoreResult
    <2> QED BY <1>9, <2>2, <2>3, <2>4 DEF StoreResult
  <1>10. ASSUME NEW r \in Requests, Unlock(r)
         PROVE  WellFormed'
    BY <1>10 DEF Unlock, Locks
  <1>11. ASSUME Tick
         PROVE  WellFormed'
    <2>1. store' \in [Keys -> Entries]
      BY <1>11, AgedEntry DEF Tick
    <2>2. lock' \in [Keys -> Locks]
      BY <1>11, AgedLock DEF Tick
    <2>3. quiet' \in [Keys -> 0 .. Ttl + 1]
      BY <1>11 DEF Tick
    <2> QED BY <1>11, <2>1, <2>2, <2>3 DEF Tick
  <1>12. ASSUME WarehouseWrite
         PROVE  WellFormed'
    BY <1>12 DEF WarehouseWrite
  <1>13. ASSUME NEW rs \in SUBSET Requests, Crash(rs)
         PROVE  WellFormed'
    BY <1>13 DEF Crash
  <1>14. ASSUME NEW k \in Keys, Evict(k), EvictEntry(k)
         PROVE  WellFormed'
    BY <1>14 DEF Evict, EvictEntry, Entries
  <1>15. ASSUME NEW k \in Keys, Evict(k), EvictLock(k)
         PROVE  WellFormed'
    BY <1>15 DEF Evict, EvictLock, Locks
  <1>16. CASE UNCHANGED vars
    BY <1>16 DEF vars
  <1> QED
    BY <1>1, <1>2, <1>3, <1>4, <1>5, <1>6, <1>7, <1>8, <1>9, <1>10, <1>11, <1>12, <1>13,
       <1>14, <1>15, <1>16
       DEF Next, Step, Environment, Evict

LEMMA WellFormedAlways == Spec => []WellFormed
  BY WellFormedInit, WellFormedNext, PTL DEF Spec

(* Type correctness of the cache, for all constants and all faults. *)
THEOREM TypeCorrect == Spec => []TypeOK
  <1>1. WellFormed => TypeOK
    BY DEF WellFormed
  <1> QED BY <1>1, WellFormedAlways, PTL

-----------------------------------------------------------------------------
(* Isolation. *)

Isolated == Filed /\ OwnStatement

LEMMA IsolatedInit == Init => Isolated
  BY DEF Init, Isolated, Filed, OwnStatement, NoEntry, Present

LEMMA IsolatedNext == WellFormed /\ Isolated /\ [Next]_vars => Isolated'
  <1> SUFFICES ASSUME WellFormed, Isolated, [Next]_vars PROVE Isolated'
    OBVIOUS
  <1> USE DEF Isolated, Filed, OwnStatement
  <1>t. /\ pc \in [Requests -> {"idle"} \cup Active \cup Ended]
        /\ stmt \in [Requests -> Statements \cup {None}]
        /\ response \in [Requests -> Results \cup {None}]
        /\ store \in [Keys -> Entries]
        /\ \A r \in Requests : pc[r] # "idle" => stmt[r] \in Statements
        /\ \A r \in Requests : pc[r] \in Waiting => response[r] = None
    BY DEF WellFormed, TypeOK
  <1>s. ASSUME NEW r \in Requests, pc[r] # "idle", Present(store[KeyOf(r)])
        PROVE  store[KeyOf(r)].result.stmt = stmt[r]
    (* the entry found under a request's key answers the request's statement *)
    <2>1. KeyOf(r) \in Keys /\ stmt[r] \in Statements
      BY <1>s, <1>t DEF KeyOf, Keys
    <2>2. store[KeyOf(r)].result.stmt \in Statements
      BY <1>s, <1>t, <2>1 DEF Entries, NoEntry, Present, Results
    <2>3. Key(store[KeyOf(r)].result.stmt) = Key(stmt[r])
      BY <1>s, <2>1 DEF KeyOf
    <2> QED BY <2>1, <2>2, <2>3, KeyInjective
  <1>1. ASSUME NEW r \in Requests, NEW s \in Statements, Call(r, s)
        PROVE  Isolated'
    BY <1>1, <1>t DEF Call, Waiting
  <1>2. ASSUME NEW r \in Requests, FastHit(r)
        PROVE  Isolated'
    BY <1>2, <1>t, <1>s DEF FastHit
  <1>3. ASSUME NEW r \in Requests, FastMiss(r)
        PROVE  Isolated'
    BY <1>3 DEF FastMiss
  <1>4. ASSUME NEW r \in Requests, AcquireLock(r)
        PROVE  Isolated'
    BY <1>4 DEF AcquireLock
  <1>5. ASSUME NEW r \in Requests, RecheckHit(r)
        PROVE  Isolated'
    BY <1>5, <1>t, <1>s DEF RecheckHit
  <1>6. ASSUME NEW r \in Requests, RecheckMiss(r)
        PROVE  Isolated'
    BY <1>6 DEF RecheckMiss
  <1>7. ASSUME NEW r \in Requests, RunnerReads(r)
        PROVE  Isolated'
    BY <1>7, <1>t DEF RunnerReads
  <1>8. ASSUME NEW r \in Requests, RunnerRaises(r)
        PROVE  Isolated'
    BY <1>8 DEF RunnerRaises
  <1>9. ASSUME NEW r \in Requests, StoreResult(r)
        PROVE  Isolated'
    <2>1. response[r].stmt = stmt[r]
      BY <1>9 DEF StoreResult, WellFormed
    <2> QED BY <1>9, <1>t, <2>1 DEF StoreResult, KeyOf
  <1>10. ASSUME NEW r \in Requests, Unlock(r)
         PROVE  Isolated'
    BY <1>10 DEF Unlock
  <1>11. ASSUME Tick
         PROVE  Isolated'
    BY <1>11, <1>t, AgedEntry DEF Tick
  <1>12. ASSUME WarehouseWrite
         PROVE  Isolated'
    BY <1>12 DEF WarehouseWrite
  <1>13. ASSUME NEW rs \in SUBSET Requests, Crash(rs)
         PROVE  Isolated'
    BY <1>13, <1>t DEF Crash
  <1>14. ASSUME NEW k \in Keys, Evict(k), EvictEntry(k)
         PROVE  Isolated'
    BY <1>14, <1>t DEF Evict, EvictEntry, NoEntry, Present
  <1>15. ASSUME NEW k \in Keys, Evict(k), EvictLock(k)
         PROVE  Isolated'
    BY <1>15 DEF Evict, EvictLock
  <1>16. CASE UNCHANGED vars
    BY <1>16 DEF vars
  <1> QED
    BY <1>1, <1>2, <1>3, <1>4, <1>5, <1>6, <1>7, <1>8, <1>9, <1>10, <1>11, <1>12, <1>13,
       <1>14, <1>15, <1>16
       DEF Next, Step, Environment, Evict

(***************************************************************************)
(* Tenants never see each other's rows through the cache, whatever happens *)
(* to its entries and locks: the claim of docs/caching.md section 4.       *)
(***************************************************************************)
THEOREM TenantIsolation == Spec => []OwnStatement
  <1>1. Isolated => OwnStatement
    BY DEF Isolated
  <1> QED BY <1>1, WellFormedAlways, IsolatedInit, IsolatedNext, PTL DEF Spec

-----------------------------------------------------------------------------
(* Singleflight. *)

LEMMA GuardedInit == Init => Guarded
  BY DEF Init, Guarded, Critical

LEMMA GuardedNext ==
  ASSUME LocksHold
  PROVE  WellFormed /\ Guarded /\ [Next]_vars => Guarded'
  <1> SUFFICES ASSUME WellFormed, Guarded, [Next]_vars PROVE Guarded'
    OBVIOUS
  <1> USE DEF Guarded, Critical
  <1>t. /\ pc \in [Requests -> {"idle"} \cup Active \cup Ended]
        /\ stmt \in [Requests -> Statements \cup {None}]
        /\ lock \in [Keys -> Locks]
        /\ \A r \in Requests : pc[r] # "idle" => stmt[r] \in Statements
    BY DEF WellFormed, TypeOK
  <1>k. ASSUME NEW r \in Requests, pc[r] # "idle"
        PROVE  KeyOf(r) \in Keys
    BY <1>t, <1>k DEF KeyOf, Keys
  <1>1. ASSUME NEW r \in Requests, NEW s \in Statements, Call(r, s)
        PROVE  Guarded'
    BY <1>1, <1>t DEF Call, KeyOf
  <1>2. ASSUME NEW r \in Requests, FastHit(r)
        PROVE  Guarded'
    BY <1>2, <1>t DEF FastHit, KeyOf
  <1>3. ASSUME NEW r \in Requests, FastMiss(r)
        PROVE  Guarded'
    BY <1>3, <1>t DEF FastMiss, KeyOf
  <1>4. ASSUME NEW r \in Requests, AcquireLock(r)
        PROVE  Guarded'
    (* nobody is inside for this key: an owner would have time left *)
    <2>1. \A q \in Requests : pc[q] \in Critical => KeyOf(q) # KeyOf(r)
      BY <1>4, <1>k, <1>t DEF AcquireLock
    <2>2. \A q \in Requests : KeyOf(q)' = KeyOf(q)
      BY <1>4 DEF AcquireLock, KeyOf
    <2> QED BY <1>4, <1>k, <1>t, <2>1, <2>2, ParametersAssumption DEF AcquireLock
  <1>5. ASSUME NEW r \in Requests, RecheckHit(r)
        PROVE  Guarded'
    BY <1>5, <1>t DEF RecheckHit, KeyOf
  <1>6. ASSUME NEW r \in Requests, RecheckMiss(r)
        PROVE  Guarded'
    BY <1>6, <1>t DEF RecheckMiss, KeyOf
  <1>7. ASSUME NEW r \in Requests, RunnerReads(r)
        PROVE  Guarded'
    BY <1>7, <1>t DEF RunnerReads, KeyOf
  <1>8. ASSUME NEW r \in Requests, RunnerRaises(r)
        PROVE  Guarded'
    BY <1>8, <1>t DEF RunnerRaises, KeyOf
  <1>9. ASSUME NEW r \in Requests, StoreResult(r)
        PROVE  Guarded'
    BY <1>9, <1>t DEF StoreResult, KeyOf
  <1>10. ASSUME NEW r \in Requests, Unlock(r)
         PROVE  Guarded'
    (* whether or not the backend checks the owner, the owner is r *)
    <2>1. lock[KeyOf(r)].owner = r
      BY <1>10 DEF Unlock
    <2>2. \A q \in Requests : KeyOf(q)' = KeyOf(q)
      BY <1>10 DEF Unlock, KeyOf
    <2>3. \A q \in Requests : pc'[q] \in Critical => q # r /\ pc[q] \in Critical
      BY <1>10, <1>t DEF Unlock
    <2>4. \A q \in Requests : pc'[q] \in Critical => KeyOf(q) # KeyOf(r)
      BY <2>1, <2>3
    <2>5. lock' = [lock EXCEPT ![KeyOf(r)] = FreeLock]
      BY <1>10, <2>1 DEF Unlock
    <2> QED BY <1>k, <1>t, <2>2, <2>3, <2>4, <2>5
  <1>11. ASSUME Tick
         PROVE  Guarded'
    <2>1. ASSUME NEW r \in Requests, pc[r] \in Critical
          PROVE  KeyOf(r) \in Keys /\ lock[KeyOf(r)] \in Locks /\ lock[KeyOf(r)].left > 1
      <3>1. KeyOf(r) \in Keys /\ lock[KeyOf(r)] \in Locks
        BY <1>k, <1>t, <2>1
      <3>2. ~Overrunning(KeyOf(r))
        BY <1>11, <3>1 DEF Tick, LocksHold
      <3> QED BY <2>1, <3>1, <3>2, ParametersAssumption DEF Overrunning, Locks, FreeLock
    <2>2. pc' = pc /\ \A r \in Requests : KeyOf(r)' = KeyOf(r)
      BY <1>11 DEF Tick, KeyOf
    <2>3. \A k \in Keys : lock'[k] = Aged(lock[k], FreeLock)
      BY <1>11 DEF Tick
    <2> QED BY <2>1, <2>2, <2>3, AgedLock
  <1>12. ASSUME WarehouseWrite
         PROVE  Guarded'
    BY <1>12 DEF WarehouseWrite, KeyOf
  <1>13. ASSUME NEW rs \in SUBSET Requests, Crash(rs)
         PROVE  Guarded'
    BY <1>13, <1>t DEF Crash, KeyOf
  <1>14. ASSUME NEW k \in Keys, Evict(k), EvictEntry(k)
         PROVE  Guarded'
    BY <1>14 DEF Evict, EvictEntry, KeyOf
  <1>15. ASSUME NEW k \in Keys, Evict(k), EvictLock(k)
         PROVE  Guarded'
    BY <1>15 DEF Evict, EvictLock, LocksHold
  <1>16. CASE UNCHANGED vars
    BY <1>16 DEF vars, KeyOf
  <1> QED
    BY <1>1, <1>2, <1>3, <1>4, <1>5, <1>6, <1>7, <1>8, <1>9, <1>10, <1>11, <1>12, <1>13,
       <1>14, <1>15, <1>16
       DEF Next, Step, Environment, Evict

LEMMA GuardedAlways ==
  ASSUME LocksHold
  PROVE  Spec => []Guarded
  BY WellFormedAlways, GuardedInit, GuardedNext, PTL DEF Spec

(***************************************************************************)
(* Two requests are never at the warehouse for one key: for any number of  *)
(* requests, as long as locks outlive their holders.                       *)
(***************************************************************************)
THEOREM SingleFlightHolds ==
  ASSUME LocksHold
  PROVE  Spec => []SingleFlight
  <1>1. Guarded => SingleFlight
    BY DEF Guarded, SingleFlight, Fetching, Critical
  <1> QED BY <1>1, GuardedAlways, PTL

-----------------------------------------------------------------------------
(* No roundtrip for something the cache could answer. *)

LEMMA NoWastedFetchNext ==
  ASSUME LocksHold
  PROVE  WellFormed /\ Guarded /\ NoWastedFetch /\ [Next]_vars => NoWastedFetch'
  <1> SUFFICES ASSUME WellFormed, Guarded, NoWastedFetch, [Next]_vars
               PROVE  NoWastedFetch'
    OBVIOUS
  <1> USE DEF NoWastedFetch, Fetching
  <1>t. /\ pc \in [Requests -> {"idle"} \cup Active \cup Ended]
        /\ stmt \in [Requests -> Statements \cup {None}]
        /\ store \in [Keys -> Entries]
        /\ \A r \in Requests : pc[r] # "idle" => KeyOf(r) \in Keys
    BY DEF WellFormed, TypeOK, KeyOf, Keys
  <1>1. ASSUME NEW r \in Requests, NEW s \in Statements, Call(r, s)
        PROVE  NoWastedFetch'
    BY <1>1, <1>t DEF Call, KeyOf
  <1>2. ASSUME NEW r \in Requests,
               FastHit(r) \/ FastMiss(r) \/ AcquireLock(r) \/ RecheckHit(r)
                 \/ RecheckMiss(r) \/ RunnerReads(r) \/ RunnerRaises(r)
                 \/ Unlock(r)
        PROVE  NoWastedFetch'
    (* the store is unchanged, and only RecheckMiss, which looks, begins a fetch *)
    <2>1. store' = store /\ \A q \in Requests : KeyOf(q)' = KeyOf(q)
      BY <1>2
         DEF FastHit, FastMiss, AcquireLock, RecheckHit, RecheckMiss, RunnerReads,
             RunnerRaises, Unlock, KeyOf
    <2>2. \A q \in Requests : Fetching(q)' => Fetching(q) \/ ~Present(store[KeyOf(q)])
      BY <1>2, <1>t
         DEF FastHit, FastMiss, AcquireLock, RecheckHit, RecheckMiss, RunnerReads,
             RunnerRaises, Unlock
    <2> QED BY <2>1, <2>2 DEF Present
  <1>3. ASSUME NEW r \in Requests, StoreResult(r)
        PROVE  NoWastedFetch'
    (* r was the only one at the warehouse for its key *)
    <2>1. \A q \in Requests : KeyOf(q)' = KeyOf(q)
      BY <1>3 DEF StoreResult, KeyOf
    <2>2. \A q \in Requests : Fetching(q)' => Fetching(q) /\ KeyOf(q) # KeyOf(r)
      BY <1>3, <1>t DEF StoreResult, Guarded, Critical
    <2>3. \A k \in Keys : k # KeyOf(r) => store'[k] = store[k]
      BY <1>3, <1>t DEF StoreResult
    <2>4. \A q \in Requests : Fetching(q) => KeyOf(q) \in Keys
      BY <1>t
    <2> QED BY <2>1, <2>2, <2>3, <2>4 DEF Present
  <1>4. ASSUME Tick
        PROVE  NoWastedFetch'
    BY <1>4, <1>t, AgedEntry DEF Tick, KeyOf, Present
  <1>5. ASSUME WarehouseWrite
        PROVE  NoWastedFetch'
    BY <1>5 DEF WarehouseWrite, KeyOf, Present
  <1>6. ASSUME NEW k \in Keys, Evict(k), EvictEntry(k)
        PROVE  NoWastedFetch'
    BY <1>6, <1>t DEF Evict, EvictEntry, KeyOf, Present, NoEntry
  <1>7. ASSUME NEW k \in Keys, Evict(k), EvictLock(k)
        PROVE  NoWastedFetch'
    BY <1>7 DEF Evict, EvictLock, LocksHold
  <1>8. ASSUME NEW rs \in SUBSET Requests, Crash(rs)
        PROVE  NoWastedFetch'
    BY <1>8, <1>t DEF Crash, KeyOf, Present
  <1>9. CASE UNCHANGED vars
    BY <1>9 DEF vars, KeyOf, Present
  <1> QED
    BY <1>1, <1>2, <1>3, <1>4, <1>5, <1>6, <1>7, <1>8, <1>9 DEF Next, Step, Environment, Evict

LEMMA NoWastedFetchAlways ==
  ASSUME LocksHold
  PROVE  Spec => []NoWastedFetch
  <1>1. Init => NoWastedFetch
    BY DEF Init, NoWastedFetch, Fetching
  <1> QED BY <1>1, NoWastedFetchNext, WellFormedAlways, GuardedAlways, PTL DEF Spec

(***************************************************************************)
(* The re-check under the lock does its work: nobody is at the warehouse   *)
(* for a key whose result is in the cache.                                 *)
(***************************************************************************)
THEOREM NoWastedFetchHolds ==
  ASSUME LocksHold
  PROVE  Spec => []NoWastedFetch
  BY NoWastedFetchAlways

-----------------------------------------------------------------------------
(* Monotonic reads. *)

(* The request has its rows and, if it fetched them, has stored them. *)
Answered(q) == pc[q] \in {"unlock", "done"} /\ response[q] # None

(***************************************************************************)
(* Nothing read for a key is older than what was already answered for it:  *)
(* not a result in the store, not a result on its way to the store; the    *)
(* floor of a request is the version of some finished one.                 *)
(***************************************************************************)
Ordered ==
  /\ \A r \in Requests : response[r] # None => response[r].version <= version
  /\ \A r \in Requests : response[r] # None => response[r].version >= floor[r]
  /\ \A r \in Requests :
       \/ floor[r] = 0
       \/ \E q \in Requests :
            pc[q] = "done" /\ stmt[q] = stmt[r] /\ response[q].version = floor[r]
  /\ \A q \in Requests :
       Answered(q) /\ Present(store[KeyOf(q)])
         => response[q].version <= store[KeyOf(q)].result.version
  /\ \A q, r \in Requests :
       Answered(q) /\ pc[r] = "store" /\ KeyOf(q) = KeyOf(r)
         => response[q].version <= response[r].version
  /\ \A k \in Keys : Present(store[k]) => store[k].result.version <= version

LEMMA OrderedInit == Init => Ordered
  BY DEF Init, Ordered, Answered, NoEntry, Present

LEMMA OrderedNext ==
  ASSUME LocksHold
  PROVE  WellFormed /\ Guarded /\ NoWastedFetch /\ Ordered /\ [Next]_vars => Ordered'
  <1> SUFFICES ASSUME WellFormed, Guarded, NoWastedFetch, Ordered, [Next]_vars
               PROVE  Ordered'
    OBVIOUS
  <1> USE ParametersAssumption
  <1>t. /\ pc \in [Requests -> {"idle"} \cup Active \cup Ended]
        /\ stmt \in [Requests -> Statements \cup {None}]
        /\ response \in [Requests -> Results \cup {None}]
        /\ store \in [Keys -> Entries]
        /\ version \in Nat
        /\ floor \in [Requests -> Nat]
        /\ \A r \in Requests : pc[r] # "idle" => KeyOf(r) \in Keys
        /\ \A r \in Requests : response[r] # None => response[r].version \in Nat
        /\ \A k \in Keys : Present(store[k]) => store[k].result.version \in Nat
    BY DEF WellFormed, TypeOK, KeyOf, Keys, Results, Entries, NoEntry, Present
  <1>w. /\ \A r \in Requests : pc[r] \in Waiting => response[r] = None
        /\ \A r \in Requests : pc[r] \in {"store", "done"} => response[r] # None
    BY DEF WellFormed
  <1>f. ASSUME NEW r \in Requests, pc[r] # "idle", Present(store[KeyOf(r)])
        PROVE  /\ floor[r] <= store[KeyOf(r)].result.version
               /\ store[KeyOf(r)].result.version <= version
    (* a live entry is at least as new as the floor of whoever finds it *)
    <2>1. CASE floor[r] = 0
      BY <1>t, <1>f, <2>1 DEF Ordered
    <2>2. ASSUME NEW q \in Requests, pc[q] = "done", stmt[q] = stmt[r],
                 response[q].version = floor[r]
          PROVE  floor[r] <= store[KeyOf(r)].result.version
      BY <1>f, <1>w, <2>2 DEF Ordered, Answered, KeyOf
    <2> QED BY <1>t, <1>f, <2>1, <2>2 DEF Ordered
  <1>g. ASSUME NEW r \in Requests
        PROVE  floor[r] <= version
    (* a floor is a version that has been read *)
    BY <1>t, <1>w DEF Ordered
  <1>1. ASSUME NEW r \in Requests, NEW s \in Statements, Call(r, s)
        PROVE  Ordered'
    <2>1. PICK v \in Returned(s) : floor' = [floor EXCEPT ![r] = v]
      BY <1>1 DEF Call
    <2>2. \/ v = 0
          \/ \E q \in Requests : pc[q] = "done" /\ stmt[q] = s /\ response[q].version = v
      BY <2>1 DEF Returned
    <2>3. \A q \in Requests : q # r => KeyOf(q)' = KeyOf(q) /\ pc'[q] = pc[q]
                                         /\ stmt'[q] = stmt[q] /\ floor'[q] = floor[q]
      BY <1>1, <1>t, <2>1 DEF Call, KeyOf
    <2>4. /\ pc[r] = "idle" /\ pc'[r] = "lookup" /\ stmt'[r] = s /\ floor'[r] = v
          /\ response' = response /\ store' = store /\ version' = version
          /\ response[r] = None
      BY <1>1, <1>t, <1>w, <2>1 DEF Call, Waiting
    <2>5. \A q \in Requests : Answered(q)' => q # r /\ Answered(q)
      BY <2>3, <2>4 DEF Answered
    <2> QED BY <1>t, <2>2, <2>3, <2>4, <2>5 DEF Ordered, Present
  <1>2. ASSUME NEW r \in Requests, FastHit(r)
        PROVE  Ordered'
    (* nobody is about to store for this key, since it has a live entry *)
    <2>1. \A q \in Requests : pc[q] = "store" => KeyOf(q) # KeyOf(r)
      BY <1>2 DEF FastHit, NoWastedFetch, Fetching
    <2>2. /\ pc' = [pc EXCEPT ![r] = "done"] /\ pc[r] = "lookup"
          /\ response' = [response EXCEPT ![r] = store[KeyOf(r)].result]
          /\ store' = store /\ version' = version /\ floor' = floor /\ stmt' = stmt
          /\ \A q \in Requests : KeyOf(q)' = KeyOf(q)
      BY <1>2 DEF FastHit, KeyOf
    <2>3. \A q \in Requests : Answered(q)' => q = r \/ Answered(q)
      BY <1>t, <2>2 DEF Answered
    <2> QED BY <1>2, <1>t, <1>f, <1>w, <2>1, <2>2, <2>3 DEF Ordered, Present, FastHit
  <1>3. ASSUME NEW r \in Requests,
               FastMiss(r) \/ AcquireLock(r) \/ RecheckMiss(r)
        PROVE  Ordered'
    <2>1. /\ response' = response /\ store' = store /\ version' = version
          /\ floor' = floor /\ stmt' = stmt
          /\ \A q \in Requests : KeyOf(q)' = KeyOf(q)
          /\ \A q \in Requests : pc[q] = "done" => pc'[q] = "done"
          /\ \A q \in Requests : pc'[q] = "store" => pc[q] = "store"
          /\ \A q \in Requests : pc'[q] \in {"unlock", "done"} => pc'[q] = pc[q]
      BY <1>3, <1>t DEF FastMiss, AcquireLock, RecheckMiss, KeyOf
    <2>2. \A q \in Requests : Answered(q)' => Answered(q)
      BY <2>1 DEF Answered
    <2> QED BY <2>1, <2>2 DEF Ordered, Present
  <1>4. ASSUME NEW r \in Requests, RecheckHit(r)
        PROVE  Ordered'
    <2>1. \A q \in Requests : pc[q] = "store" => KeyOf(q) # KeyOf(r)
      BY <1>4 DEF RecheckHit, NoWastedFetch, Fetching
    <2>2. /\ pc' = [pc EXCEPT ![r] = "unlock"] /\ pc[r] = "recheck"
          /\ response' = [response EXCEPT ![r] = store[KeyOf(r)].result]
          /\ store' = store /\ version' = version /\ floor' = floor /\ stmt' = stmt
          /\ \A q \in Requests : KeyOf(q)' = KeyOf(q)
      BY <1>4 DEF RecheckHit, KeyOf
    <2>3. \A q \in Requests : Answered(q)' => q = r \/ Answered(q)
      BY <1>t, <2>2 DEF Answered
    <2> QED BY <1>4, <1>t, <1>f, <1>w, <2>1, <2>2, <2>3 DEF Ordered, Present, RecheckHit
  <1>5. ASSUME NEW r \in Requests, RunnerReads(r)
        PROVE  Ordered'
    (* what the warehouse holds now is as new as anything read before *)
    <2>1. /\ pc' = [pc EXCEPT ![r] = "store"] /\ pc[r] = "run"
          /\ response' = [response EXCEPT ![r] = [stmt |-> stmt[r], version |-> version]]
          /\ store' = store /\ version' = version /\ floor' = floor /\ stmt' = stmt
          /\ \A q \in Requests : KeyOf(q)' = KeyOf(q)
      BY <1>5 DEF RunnerReads, KeyOf
    <2>2. \A q \in Requests : Answered(q)' => q # r /\ Answered(q)
      BY <1>t, <2>1 DEF Answered
    <2>3. /\ response'[r].version = version /\ pc'[r] = "store"
          /\ \A q \in Requests : q # r => response'[q] = response[q] /\ pc'[q] = pc[q]
      BY <1>t, <2>1
    <2>4. \A q \in Requests : Answered(q) => response[q].version <= version
      BY DEF Ordered, Answered
    <2>5. \A q \in Requests :
            /\ response'[q] # None => response'[q].version <= version
            /\ response'[q] # None => response'[q].version >= floor[q]
      BY <1>t, <1>g, <2>3 DEF Ordered
    <2>6. \A p \in Requests :
            \/ floor[p] = 0
            \/ \E q \in Requests :
                 pc'[q] = "done" /\ stmt[q] = stmt[p] /\ response'[q].version = floor[p]
      BY <2>1, <2>3 DEF Ordered
    <2>7. \A q, p \in Requests :
            Answered(q)' /\ pc'[p] = "store" /\ KeyOf(q) = KeyOf(p)
              => response'[q].version <= response'[p].version
      BY <2>2, <2>3, <2>4 DEF Ordered
    <2>8. \A q \in Requests :
            Answered(q)' /\ Present(store[KeyOf(q)])
              => response'[q].version <= store[KeyOf(q)].result.version
      BY <2>2, <2>3 DEF Ordered
    <2> QED BY <2>1, <2>5, <2>6, <2>7, <2>8 DEF Ordered, Present
  <1>6. ASSUME NEW r \in Requests, RunnerRaises(r)
        PROVE  Ordered'
    <2>1. /\ pc' = [pc EXCEPT ![r] = "unlock"] /\ pc[r] = "run" /\ response[r] = None
          /\ response' = response /\ store' = store /\ version' = version
          /\ floor' = floor /\ stmt' = stmt
          /\ \A q \in Requests : KeyOf(q)' = KeyOf(q)
      BY <1>6, <1>w DEF RunnerRaises, KeyOf, Waiting
    <2>2. \A q \in Requests : Answered(q)' => Answered(q)
      BY <1>t, <2>1 DEF Answered
    <2> QED BY <1>t, <2>1, <2>2 DEF Ordered, Present
  <1>7. ASSUME NEW r \in Requests, StoreResult(r)
        PROVE  Ordered'
    <2>1. /\ pc' = [pc EXCEPT ![r] = "unlock"] /\ pc[r] = "store" /\ response[r] # None
          /\ store' = [store EXCEPT ![KeyOf(r)] =
                         [result |-> response[r], left |-> EffectiveTtl]]
          /\ response' = response /\ version' = version
          /\ floor' = floor /\ stmt' = stmt
          /\ \A q \in Requests : KeyOf(q)' = KeyOf(q)
      BY <1>7, <1>w DEF StoreResult, KeyOf
    <2>2. \A q \in Requests : Answered(q)' => q = r \/ Answered(q)
      BY <1>t, <2>1 DEF Answered
    (* no one else is inside the block for this key *)
    <2>3. \A q \in Requests : pc'[q] = "store" => q # r /\ pc[q] = "store"
                                                    /\ KeyOf(q) # KeyOf(r)
      BY <1>t, <2>1 DEF Guarded, Critical
    <2>4. \A q \in Requests :
            Answered(q) /\ KeyOf(q) = KeyOf(r) => response[q].version <= response[r].version
      BY <2>1 DEF Ordered
    <2>5. \A k \in Keys :
            \/ k = KeyOf(r) /\ store'[k].result = response[r]
            \/ k # KeyOf(r) /\ store'[k] = store[k]
      BY <1>t, <2>1
    <2>6. \A q \in Requests : Answered(q)' => KeyOf(q) \in Keys
      BY <1>t, <2>1, <2>2 DEF Answered
    <2>7. response[r].version <= version /\ response[r].version \in Nat
      BY <1>t, <2>1 DEF Ordered
    <2>8. \A q \in Requests :
            pc[q] = "done" => pc'[q] = "done"
      BY <1>t, <2>1
    <2>9. \A q \in Requests :
            Answered(q)' /\ Present(store'[KeyOf(q)])
              => response[q].version <= store'[KeyOf(q)].result.version
      BY <2>2, <2>4, <2>5, <2>6, <2>7 DEF Ordered
    <2>10. \A q, p \in Requests :
             Answered(q)' /\ pc'[p] = "store" /\ KeyOf(q) = KeyOf(p)
               => response[q].version <= response[p].version
      BY <2>2, <2>3 DEF Ordered
    <2>11. \A k \in Keys : Present(store'[k]) => store'[k].result.version <= version
      BY <2>5, <2>7 DEF Ordered
    <2> QED BY <2>1, <2>8, <2>9, <2>10, <2>11 DEF Ordered, Present
  <1>8. ASSUME NEW r \in Requests, Unlock(r)
        PROVE  Ordered'
    <2>1. /\ pc' = [pc EXCEPT ![r] = IF response[r] = None THEN "failed" ELSE "done"]
          /\ pc[r] = "unlock"
          /\ response' = response /\ store' = store /\ version' = version
          /\ floor' = floor /\ stmt' = stmt
          /\ \A q \in Requests : KeyOf(q)' = KeyOf(q)
      BY <1>8 DEF Unlock, KeyOf
    <2>2. \A q \in Requests : Answered(q)' => Answered(q)
      BY <1>t, <2>1 DEF Answered
    <2> QED BY <1>t, <2>1, <2>2 DEF Ordered, Present
  <1>9. ASSUME Tick
        PROVE  Ordered'
    <2>1. /\ pc' = pc /\ response' = response /\ version' = version
          /\ floor' = floor /\ stmt' = stmt
          /\ \A q \in Requests : KeyOf(q)' = KeyOf(q) /\ (Answered(q)' <=> Answered(q))
      BY <1>9 DEF Tick, KeyOf, Answered
    <2>2. \A k \in Keys : Present(store'[k])
                            => Present(store[k]) /\ store'[k].result = store[k].result
      BY <1>9, <1>t, AgedEntry DEF Tick
    <2>3. \A q \in Requests : Answered(q) => KeyOf(q) \in Keys
      BY <1>t DEF Answered
    <2> QED BY <2>1, <2>2, <2>3 DEF Ordered, Present
  <1>10. ASSUME WarehouseWrite
         PROVE  Ordered'
    <2>1. /\ pc' = pc /\ response' = response /\ version' = version + 1
          /\ store' = store /\ floor' = floor /\ stmt' = stmt
          /\ \A q \in Requests : KeyOf(q)' = KeyOf(q) /\ (Answered(q)' <=> Answered(q))
      BY <1>10 DEF WarehouseWrite, KeyOf, Answered
    <2> QED BY <1>t, <2>1 DEF Ordered, Present
  <1>11. ASSUME NEW rs \in SUBSET Requests, Crash(rs)
         PROVE  Ordered'
    <2>1. /\ store' = store /\ version' = version /\ floor' = floor /\ stmt' = stmt
          /\ \A q \in Requests : KeyOf(q)' = KeyOf(q)
      BY <1>11 DEF Crash, KeyOf
    <2>2. \A q \in Requests :
            \/ pc'[q] = "crashed" /\ response'[q] = None /\ pc[q] # "done"
            \/ pc'[q] = pc[q] /\ response'[q] = response[q]
      BY <1>11 DEF Crash, Active, Critical
    <2>3. \A q \in Requests : Answered(q)' => Answered(q) /\ response'[q] = response[q]
      BY <2>1, <2>2 DEF Answered
    <2> QED BY <1>t, <2>1, <2>2, <2>3 DEF Ordered, Present
  <1>12. ASSUME NEW k \in Keys, Evict(k), EvictEntry(k)
         PROVE  Ordered'
    <2>1. /\ pc' = pc /\ response' = response /\ version' = version
          /\ floor' = floor /\ stmt' = stmt
          /\ \A q \in Requests : KeyOf(q)' = KeyOf(q) /\ (Answered(q)' <=> Answered(q))
      BY <1>12 DEF Evict, EvictEntry, KeyOf, Answered
    <2>2. \A j \in Keys : Present(store'[j]) => store'[j] = store[j]
      BY <1>12, <1>t DEF Evict, EvictEntry, NoEntry, Present
    <2>3. \A q \in Requests : Answered(q) => KeyOf(q) \in Keys
      BY <1>t DEF Answered
    <2> QED BY <2>1, <2>2, <2>3 DEF Ordered, Present
  <1>13. ASSUME NEW k \in Keys, Evict(k), EvictLock(k)
         PROVE  Ordered'
    BY <1>13 DEF Evict, EvictLock, LocksHold
  <1>14. CASE UNCHANGED vars
    BY <1>14 DEF vars, Ordered, Answered, KeyOf, Present
  <1> QED
    BY <1>1, <1>2, <1>3, <1>4, <1>5, <1>6, <1>7, <1>8, <1>9, <1>10, <1>11, <1>12, <1>13,
       <1>14
       DEF Next, Step, Environment, Evict

(***************************************************************************)
(* Reads are monotonic although results are stored after they are read and *)
(* entries expire and are evicted: a request that began after another had  *)
(* finished never gets older rows.                                         *)
(***************************************************************************)
THEOREM MonotonicReadsHold ==
  ASSUME LocksHold
  PROVE  Spec => []MonotonicReads
  <1>1. WellFormed /\ Ordered => MonotonicReads
    BY DEF WellFormed, Ordered, MonotonicReads
  <1>2. Spec => []Ordered
    BY WellFormedAlways, GuardedAlways, NoWastedFetchAlways, OrderedInit, OrderedNext,
       PTL DEF Spec
  <1> QED BY <1>1, <1>2, WellFormedAlways, PTL

-----------------------------------------------------------------------------
(* Locks and those who hold them. *)

(* A lock with time left is filed under the key of the request it belongs to. *)
Owned ==
  \A k \in Keys :
    Present(lock[k]) =>
      /\ KeyOf(lock[k].owner) = k
      /\ pc[lock[k].owner] \in Critical \cup {"crashed"}

LEMMA OwnedInit == Init => Owned
  BY DEF Init, Owned, FreeLock, Present

(* A step that leaves locks alone and whose requests stay in the block, or die. *)
LEMMA OwnedKept ==
  ASSUME WellFormed, Owned, lock' = lock,
         \A r \in Requests :
           pc[r] \in Critical \cup {"crashed"} =>
             pc'[r] \in Critical \cup {"crashed"} /\ KeyOf(r)' = KeyOf(r)
  PROVE  Owned'
  <1>1. \A k \in Keys : Present(lock[k]) => lock[k].owner \in Requests
    BY DEF WellFormed, TypeOK, Locks, FreeLock, Present
  <1> QED BY <1>1 DEF Owned, Present

LEMMA OwnedNext == WellFormed /\ Owned /\ [Next]_vars => Owned'
  <1> SUFFICES ASSUME WellFormed, Owned, [Next]_vars PROVE Owned'
    OBVIOUS
  <1>t. /\ pc \in [Requests -> {"idle"} \cup Active \cup Ended]
        /\ stmt \in [Requests -> Statements \cup {None}]
        /\ lock \in [Keys -> Locks]
        /\ \A r \in Requests : pc[r] # "idle" => KeyOf(r) \in Keys
        /\ \A k \in Keys : Present(lock[k]) => lock[k].owner \in Requests
    BY DEF WellFormed, TypeOK, KeyOf, Keys, Locks, FreeLock, Present
  <1>1. ASSUME NEW r \in Requests, NEW s \in Statements, Call(r, s)
        PROVE  Owned'
    BY <1>1, <1>t, OwnedKept DEF Call, KeyOf, Critical
  <1>2. ASSUME NEW r \in Requests,
               FastHit(r) \/ FastMiss(r) \/ RecheckHit(r) \/ RecheckMiss(r)
                 \/ RunnerReads(r) \/ RunnerRaises(r) \/ StoreResult(r)
        PROVE  Owned'
    BY <1>2, <1>t, OwnedKept
       DEF FastHit, FastMiss, RecheckHit, RecheckMiss, RunnerReads, RunnerRaises,
           StoreResult, KeyOf, Critical
  <1>3. ASSUME NEW r \in Requests, AcquireLock(r)
        PROVE  Owned'
    <2>1. /\ lock'[KeyOf(r)].owner = r
          /\ \A k \in Keys : k # KeyOf(r) => lock'[k] = lock[k]
          /\ pc' = [pc EXCEPT ![r] = "recheck"] /\ pc[r] = "lock"
          /\ \A q \in Requests : KeyOf(q)' = KeyOf(q)
      BY <1>3, <1>t DEF AcquireLock, KeyOf
    <2> QED BY <2>1, <1>t DEF Owned, Present, Critical
  <1>4. ASSUME NEW r \in Requests, Unlock(r)
        PROVE  Owned'
    <2>1. /\ \A q \in Requests : KeyOf(q)' = KeyOf(q) /\ (q # r => pc'[q] = pc[q])
          /\ pc[r] = "unlock"
      BY <1>4, <1>t DEF Unlock, KeyOf
    <2>2. \A k \in Keys : Present(lock'[k]) => lock'[k] = lock[k] /\ lock[k].owner # r
      BY <1>4, <1>t DEF Unlock, FreeLock, Present, Owned
    <2> QED BY <2>1, <2>2, <1>t DEF Owned, Present
  <1>5. ASSUME Tick
        PROVE  Owned'
    <2>1. \A k \in Keys : Present(lock'[k]) => Present(lock[k]) /\ lock'[k].owner = lock[k].owner
      BY <1>5, <1>t, ParametersAssumption
         DEF Tick, Aged, Locks, FreeLock, Present
    <2> QED BY <1>5, <2>1 DEF Tick, Owned, KeyOf
  <1>6. ASSUME WarehouseWrite
        PROVE  Owned'
    BY <1>6, OwnedKept DEF WarehouseWrite, KeyOf
  <1>7. ASSUME NEW rs \in SUBSET Requests, Crash(rs)
        PROVE  Owned'
    BY <1>7, <1>t, OwnedKept DEF Crash, KeyOf, Critical, Active
  <1>8. ASSUME NEW k \in Keys, Evict(k), EvictEntry(k)
        PROVE  Owned'
    BY <1>8, OwnedKept DEF Evict, EvictEntry, KeyOf
  <1>9. ASSUME NEW k \in Keys, Evict(k), EvictLock(k)
        PROVE  Owned'
    BY <1>9, <1>t DEF Evict, EvictLock, FreeLock, Present, Owned, KeyOf
  <1>10. CASE UNCHANGED vars
    BY <1>10 DEF vars, Owned, KeyOf, Present
  <1> QED
    BY <1>1, <1>2, <1>3, <1>4, <1>5, <1>6, <1>7, <1>8, <1>9, <1>10
       DEF Next, Step, Environment, Evict

LEMMA OwnedAlways == Spec => []Owned
  BY WellFormedAlways, OwnedInit, OwnedNext, PTL DEF Spec

(***************************************************************************)
(* No lock is left behind by a request that has ended, however it ended:   *)
(* under every fault, and whether or not the backend checks the owner.     *)
(***************************************************************************)
THEOREM NoLockLeftBehind == Spec => []LocksHaveHolders
  <1>1. Owned => LocksHaveHolders
    BY DEF Owned, LocksHaveHolders
  <1> QED BY <1>1, OwnedAlways, PTL

-----------------------------------------------------------------------------
(* The TTL window. *)

(* What is left of an entry and the time since it was stored make up the ttl. *)
Windowed == \A k \in Keys : store[k].left + quiet[k] >= EffectiveTtl

LEMMA WindowedInit == Init => Windowed
  BY EffectiveTtlPositive, ParametersAssumption DEF Init, Windowed, NoEntry

LEMMA WindowedNext == WellFormed /\ Windowed /\ [Next]_vars => Windowed'
  <1> SUFFICES ASSUME WellFormed, Windowed, [Next]_vars PROVE Windowed'
    OBVIOUS
  <1>t. /\ store \in [Keys -> Entries]
        /\ quiet \in [Keys -> 0 .. Ttl + 1]
        /\ \A r \in Requests : pc[r] # "idle" => KeyOf(r) \in Keys
        /\ \A k \in Keys : store[k].left \in Nat /\ quiet[k] \in Nat
    BY ParametersAssumption DEF WellFormed, TypeOK, KeyOf, Keys, Entries, NoEntry
  <1>1. ASSUME UNCHANGED <<store, quiet>>
        PROVE  Windowed'
    BY <1>1 DEF Windowed
  <1>2. ASSUME NEW r \in Requests, StoreResult(r)
        PROVE  Windowed'
    BY <1>2, <1>t, EffectiveTtlPositive, ParametersAssumption DEF StoreResult, Windowed
  <1>3. ASSUME Tick
        PROVE  Windowed'
    <2> SUFFICES ASSUME NEW k \in Keys
                 PROVE  store'[k].left + quiet'[k] >= EffectiveTtl
      BY DEF Windowed
    <2>1. /\ store'[k] = Aged(store[k], NoEntry)
          /\ quiet'[k] = IF quiet[k] > Ttl THEN quiet[k] ELSE quiet[k] + 1
      BY <1>3 DEF Tick
    <2>2. /\ store[k].left <= 1 => store'[k].left = 0
          /\ store[k].left > 1 => store'[k].left = store[k].left - 1
      BY <2>1, <1>t DEF Aged, NoEntry, Entries
    <2> QED BY <2>1, <2>2, <1>t, EffectiveTtlPositive, ParametersAssumption DEF Windowed
  <1>4. ASSUME NEW k \in Keys, Evict(k), EvictEntry(k)
        PROVE  Windowed'
    BY <1>4, <1>t, EffectiveTtlPositive, ParametersAssumption
       DEF EvictEntry, Windowed, NoEntry
  <1>5. ASSUME NEW r \in Requests, Step(r)
        PROVE  Windowed'
    BY <1>1, <1>2, <1>5
       DEF Step, FastHit, FastMiss, AcquireLock, RecheckHit, RecheckMiss, RunnerReads,
           RunnerRaises, Unlock
  <1>6. ASSUME Environment
        PROVE  Windowed'
    BY <1>1, <1>3, <1>4, <1>6 DEF Environment, WarehouseWrite, Crash, Evict, EvictLock
  <1>7. ASSUME NEW r \in Requests, NEW s \in Statements, Call(r, s)
        PROVE  Windowed'
    BY <1>1, <1>7 DEF Call
  <1> QED
    BY <1>1, <1>5, <1>6, <1>7 DEF Next, vars

(***************************************************************************)
(* Under every fault, the warehouse is only asked again for a key when the *)
(* ttl is over since a result was stored, at least a second, or the result *)
(* was evicted.                                                            *)
(***************************************************************************)
THEOREM OneFetchPerWindowHolds == Spec => OneFetchPerWindow
  <1>1. WellFormed /\ Windowed /\ [Next]_vars
          => [\A r \in Requests :
                pc[r] = "recheck" /\ pc'[r] = "run"
                  => quiet[KeyOf(r)] >= Ttl /\ quiet[KeyOf(r)] >= 1]_vars
    <2> SUFFICES ASSUME WellFormed, Windowed, [Next]_vars, NEW r \in Requests,
                        pc[r] = "recheck", pc'[r] = "run"
                 PROVE  quiet[KeyOf(r)] >= Ttl /\ quiet[KeyOf(r)] >= 1
      OBVIOUS
    <2>t. /\ pc \in [Requests -> {"idle"} \cup Active \cup Ended]
          /\ KeyOf(r) \in Keys
          /\ store[KeyOf(r)].left \in Nat /\ quiet[KeyOf(r)] \in Nat
      BY ParametersAssumption DEF WellFormed, TypeOK, KeyOf, Keys, Entries, NoEntry
    <2>1. ASSUME NEW q \in Requests, Step(q)
          PROVE  ~Present(store[KeyOf(r)])
      BY <2>1, <2>t
         DEF Step, FastHit, FastMiss, AcquireLock, RecheckHit, RecheckMiss, RunnerReads,
             RunnerRaises, StoreResult, Unlock
    <2>2. ~(\E q \in Requests, s \in Statements : Call(q, s)) /\ ~Environment /\ vars' # vars
      BY <2>t DEF Call, Environment, Tick, WarehouseWrite, Crash, Evict, vars
    <2>3. ~Present(store[KeyOf(r)])
      BY <2>1, <2>2 DEF Next
    <2> QED BY <2>t, <2>3, ParametersAssumption DEF Windowed, EffectiveTtl, Present
  <1> QED
    BY <1>1, WellFormedAlways, WindowedInit, WindowedNext, PTL DEF Spec, OneFetchPerWindow

-----------------------------------------------------------------------------
(***************************************************************************)
(* The cache implements SharedFetch.  A fetch begins with the re-check and *)
(* ends when its result is stored; who fetches a statement is determined,  *)
(* as the lock of its key has one owner (SoleFetcher).                     *)
(***************************************************************************)

LEMMA SoleFetcher ==
  ASSUME WellFormed, Guarded, NEW r \in Requests, Fetching(r)
  PROVE  /\ stmt[r] \in Statements
         /\ AbsFetch(stmt[r]) = [by |-> r, read |-> IF pc[r] = "store" THEN response[r] ELSE None]
  <1>1. /\ stmt[r] \in Statements
        /\ \A q \in Requests : Fetching(q) /\ stmt[q] = stmt[r] => q = r
    BY DEF WellFormed, TypeOK, Guarded, Fetching, Critical, KeyOf
  <1>2. r = CHOOSE q \in Requests : Fetching(q) /\ stmt[q] = stmt[r]
    BY <1>1
  <1> QED BY <1>1, <1>2 DEF AbsFetch

(* Nobody fetches a statement whose fetch has nobody's name. *)
LEMMA NobodyFetches ==
  ASSUME NEW s, \A r \in Requests : ~(Fetching(r) /\ stmt[r] = s)
  PROVE  AbsFetch(s) = [by |-> None, read |-> None]
  BY DEF AbsFetch

LEMMA FetcherIsFetching ==
  ASSUME NEW s, AbsFetch(s).by # None
  PROVE  /\ AbsFetch(s).by \in Requests
         /\ Fetching(AbsFetch(s).by) /\ stmt[AbsFetch(s).by] = s
  <1>1. \E r \in Requests : Fetching(r) /\ stmt[r] = s
    BY NobodyFetches
  <1> QED BY <1>1 DEF AbsFetch

(* Keys of different statements are different. *)
LEMMA KeyOfStatement ==
  ASSUME NEW s \in Statements
  PROVE  /\ Key(s) \in Keys
         /\ \A t \in Statements : Key(t) = Key(s) => t = s
  BY KeyInjective DEF Keys

(***************************************************************************)
(* A step that leaves fetchers and what they read alone leaves the fetches *)
(* alone; one that leaves the store alone leaves what is shared alone.     *)
(***************************************************************************)
LEMMA FetchesKept ==
  ASSUME \A r \in Requests :
           /\ Fetching(r)' <=> Fetching(r)
           /\ Fetching(r) => /\ stmt'[r] = stmt[r] /\ pc'[r] = pc[r]
                             /\ response'[r] = response[r]
  PROVE  MappedFetch' = MappedFetch
  <1> SUFFICES ASSUME NEW s \in Statements PROVE AbsFetch(s)' = AbsFetch(s)
    BY DEF MappedFetch
  <1> DEFINE is(r) == Fetching(r) /\ stmt[r] = s
  <1>1. \A r \in Requests : is(r)' <=> is(r)
    OBVIOUS
  <1>2. (CHOOSE r \in Requests : is(r)') = (CHOOSE r \in Requests : is(r))
    BY <1>1
  <1>3. CASE \E r \in Requests : is(r)
    <2>1. PICK r \in Requests : is(r) /\ r = CHOOSE q \in Requests : is(q)
      BY <1>3
    <2>2. AbsFetch(s) = [by |-> r, read |-> IF pc[r] = "store" THEN response[r] ELSE None]
      BY <2>1 DEF AbsFetch
    <2>3. AbsFetch(s)' = [by |-> r, read |-> IF pc'[r] = "store" THEN response'[r] ELSE None]
      BY <1>1, <1>2, <2>1 DEF AbsFetch
    <2> QED BY <2>1, <2>2, <2>3
  <1>4. CASE ~\E r \in Requests : is(r)
    <2>1. ~\E r \in Requests : Fetching(r)' /\ stmt'[r] = s
      BY <1>1, <1>4
    <2> QED BY <1>4, <2>1 DEF AbsFetch
  <1> QED BY <1>3, <1>4

LEMMA FreshKept ==
  ASSUME store' = store
  PROVE  MappedFresh' = MappedFresh
  BY DEF MappedFresh, AbsFresh, Present

(* A step of one request changes the status and the answer of that one. *)
LEMMA OthersKept ==
  ASSUME NEW r \in Requests,
         \A q \in Requests : q # r => pc'[q] = pc[q] /\ response'[q] = response[q]
  PROVE  /\ MappedStatus' = [MappedStatus EXCEPT ![r] = AbsStatus(r)']
         /\ MappedAnswer' = [MappedAnswer EXCEPT ![r] = AbsAnswer(r)']
  BY DEF MappedStatus, MappedAnswer, AbsStatus, AbsAnswer

(* Of a request that is at the warehouse or has been there, by program point. *)
LEMMA StatusOf ==
  ASSUME WellFormed, NEW r \in Requests
  PROVE  /\ pc[r] = "idle" => AbsStatus(r) = "idle"
         /\ pc[r] \in {"lookup", "lock", "recheck", "run", "store"} => AbsStatus(r) = "asking"
         /\ pc[r] = "done" => AbsStatus(r) = "decided"
         /\ pc[r] = "unlock" /\ response[r] # None => AbsStatus(r) = "decided"
         /\ pc[r] = "unlock" /\ response[r] = None => AbsStatus(r) = "lost"
         /\ pc[r] \in {"failed", "crashed"} => AbsStatus(r) = "lost"
  BY DEF AbsStatus, WellFormed, Waiting

LEMMA MappedInit == Init => Abstract!Init
  <1> SUFFICES ASSUME Init PROVE Abstract!Init
    OBVIOUS
  <1>1. /\ \A r \in Requests : AbsStatus(r) = "idle" /\ AbsAnswer(r) = None /\ ~Fetching(r)
        /\ \A s \in Statements : AbsFresh(s) = None
    BY DEF Init, AbsStatus, AbsAnswer, Fetching, AbsFresh, Keys, NoEntry, Present
  <1>2. \A s \in Statements : AbsFetch(s) = Abstract!NoFetch
    BY <1>1, NobodyFetches DEF Abstract!NoFetch
  <1> QED
    BY <1>1, <1>2
       DEF Init, Abstract!Init, MappedStatus, MappedAnswer, MappedFetch, MappedFresh

LEMMA MappedCall ==
  ASSUME WellFormed, NEW r \in Requests, NEW s \in Statements, Call(r, s)
  PROVE  Abstract!Ask(r, s)
  <1>1. /\ pc[r] = "idle" /\ pc'[r] = "lookup"
        /\ \A q \in Requests : q # r => pc'[q] = pc[q] /\ stmt'[q] = stmt[q]
        /\ response' = response /\ store' = store /\ version' = version
        /\ stmt' = [stmt EXCEPT ![r] = s]
    BY DEF Call, WellFormed, TypeOK
  <1>2. AbsStatus(r) = "idle" /\ AbsStatus(r)' = "asking"
    BY <1>1 DEF AbsStatus
  <1>3. AbsAnswer(r)' = AbsAnswer(r)
    BY <1>2 DEF AbsAnswer
  <1>4. MappedFetch' = MappedFetch
    <2>1. \A q \in Requests : /\ Fetching(q)' <=> Fetching(q)
                              /\ Fetching(q) => q # r
      BY <1>1 DEF Fetching
    <2> QED BY <1>1, <2>1, FetchesKept
  <1>5. /\ MappedStatus' = [MappedStatus EXCEPT ![r] = "asking"]
        /\ MappedAnswer' = MappedAnswer
    BY <1>1, <1>2, <1>3, OthersKept DEF MappedAnswer
  <1> QED
    BY <1>1, <1>2, <1>4, <1>5, FreshKept DEF Abstract!Ask, MappedStatus

(* The step of a request that finds an entry, under the lock or without. *)
LEMMA MappedHit ==
  ASSUME WellFormed, NEW r \in Requests, FastHit(r) \/ RecheckHit(r)
  PROVE  Abstract!Share(r)
  <1>1. /\ pc[r] \in {"lookup", "recheck"} /\ pc'[r] \in {"done", "unlock"}
        /\ Present(store[KeyOf(r)]) /\ response'[r] = store[KeyOf(r)].result
        /\ \A q \in Requests : q # r => pc'[q] = pc[q] /\ response'[q] = response[q]
        /\ stmt' = stmt /\ store' = store /\ version' = version
    BY DEF FastHit, RecheckHit, WellFormed, TypeOK
  <1>2. stmt[r] \in Statements /\ KeyOf(r) = Key(stmt[r]) /\ KeyOf(r) \in Keys
    BY <1>1 DEF WellFormed, TypeOK, KeyOf, Keys
  <1>3. store[KeyOf(r)].result # None
    BY <1>1, <1>2, ParametersAssumption DEF WellFormed, TypeOK, Entries, NoEntry, Present
  <1>4. /\ AbsStatus(r) = "asking" /\ AbsStatus(r)' = "decided"
        /\ AbsAnswer(r)' = store[KeyOf(r)].result
    BY <1>1, <1>3 DEF AbsStatus, AbsAnswer
  <1>5. MappedFresh[stmt[r]] = store[KeyOf(r)].result
    BY <1>1, <1>2 DEF MappedFresh, AbsFresh
  <1>6. MappedFetch[stmt[r]].by # r
    <2>1. ~Fetching(r)
      BY <1>1 DEF Fetching
    <2>2. MappedFetch[stmt[r]] = AbsFetch(stmt[r])
      BY <1>2 DEF MappedFetch
    <2> QED BY <2>1, <2>2, FetcherIsFetching, ParametersAssumption
  <1>7. MappedFetch' = MappedFetch
    <2>1. \A q \in Requests : /\ Fetching(q)' <=> Fetching(q)
                              /\ Fetching(q) => q # r
      BY <1>1 DEF Fetching
    <2> QED BY <1>1, <2>1, FetchesKept
  <1>8. /\ MappedStatus' = [MappedStatus EXCEPT ![r] = "decided"]
        /\ MappedAnswer' = [MappedAnswer EXCEPT ![r] = MappedFresh[stmt[r]]]
    BY <1>1, <1>4, <1>5, OthersKept
  <1>9. MappedStatus[r] = "asking"
    BY <1>4 DEF MappedStatus
  <1> QED
    BY <1>1, <1>3, <1>5, <1>6, <1>7, <1>8, <1>9, FreshKept DEF Abstract!Share

(* Missing, waiting for the lock, taking it and giving it back are not seen. *)
LEMMA MappedStutter ==
  ASSUME WellFormed, NEW r \in Requests, FastMiss(r) \/ AcquireLock(r) \/ Unlock(r)
  PROVE  UNCHANGED Abstract!svars
  <1>1. /\ \/ pc[r] \in {"lookup", "lock"} /\ pc'[r] \in {"lock", "recheck"}
           \/ pc[r] = "unlock" /\ pc'[r] = IF response[r] = None THEN "failed" ELSE "done"
        /\ \A q \in Requests : q # r => pc'[q] = pc[q] /\ response'[q] = response[q]
        /\ stmt' = stmt /\ response' = response /\ store' = store /\ version' = version
    BY DEF FastMiss, AcquireLock, Unlock, WellFormed, TypeOK
  <1>2. AbsStatus(r)' = AbsStatus(r)
    BY <1>1 DEF AbsStatus
  <1>3. AbsAnswer(r)' = AbsAnswer(r)
    BY <1>1, <1>2 DEF AbsAnswer
  <1>4. MappedFetch' = MappedFetch
    <2>1. \A q \in Requests : /\ Fetching(q)' <=> Fetching(q)
                              /\ Fetching(q) => q # r
      BY <1>1 DEF Fetching
    <2> QED BY <1>1, <2>1, FetchesKept
  <1>5. MappedStatus' = MappedStatus /\ MappedAnswer' = MappedAnswer
    BY <1>1, <1>2, <1>3, OthersKept DEF MappedStatus, MappedAnswer
  <1> QED BY <1>1, <1>4, <1>5, FreshKept DEF Abstract!svars

(***************************************************************************)
(* A step of the one who fetches s, or is about to: all other fetches stay *)
(* as they are.                                                            *)
(***************************************************************************)
LEMMA OneFetchChanges ==
  ASSUME WellFormed, Guarded, stmt' = stmt, NEW r \in Requests, pc[r] \in Critical,
         \A q \in Requests : q # r => pc'[q] = pc[q] /\ response'[q] = response[q]
  PROVE  /\ stmt[r] \in Statements
         /\ \A q \in Requests : Fetching(q) /\ stmt[q] = stmt[r] => q = r
         /\ MappedFetch' = [MappedFetch EXCEPT ![stmt[r]] =
              IF Fetching(r)' THEN [by |-> r, read |-> IF pc'[r] = "store" THEN response'[r] ELSE None]
                              ELSE [by |-> None, read |-> None]]
  <1>1. /\ stmt[r] \in Statements
        /\ \A q \in Requests : Fetching(q) /\ stmt[q] = stmt[r] => q = r
    BY DEF WellFormed, TypeOK, Guarded, Fetching, Critical, KeyOf
  <1>2. \A q \in Requests : q # r => (Fetching(q)' <=> Fetching(q))
    BY DEF Fetching
  <1>3. AbsFetch(stmt[r])' =
          IF Fetching(r)' THEN [by |-> r, read |-> IF pc'[r] = "store" THEN response'[r] ELSE None]
                          ELSE [by |-> None, read |-> None]
    <2>1. \A q \in Requests : Fetching(q)' /\ stmt'[q] = stmt[r] => q = r
      BY <1>1, <1>2
    <2>2. CASE Fetching(r)'
      <3>1. r = CHOOSE q \in Requests : Fetching(q)' /\ stmt'[q] = stmt[r]
        BY <2>1, <2>2
      <3> QED BY <2>2, <3>1 DEF AbsFetch
    <2>3. CASE ~Fetching(r)'
      <3>1. ~\E q \in Requests : Fetching(q)' /\ stmt'[q] = stmt[r]
        BY <2>1, <2>3
      <3> QED BY <2>3, <3>1 DEF AbsFetch
    <2> QED BY <2>2, <2>3
  <1>4. ASSUME NEW s \in Statements, s # stmt[r]
        PROVE  AbsFetch(s)' = AbsFetch(s)
    <2> DEFINE is(q) == Fetching(q) /\ stmt[q] = s
    <2>1. \A q \in Requests : /\ is(q)' <=> is(q)
                              /\ is(q) => pc'[q] = pc[q] /\ response'[q] = response[q]
      BY <1>2, <1>4
    <2>2. (CHOOSE q \in Requests : is(q)') = (CHOOSE q \in Requests : is(q))
      BY <2>1
    <2>3. (\E q \in Requests : is(q)) => is(CHOOSE q \in Requests : is(q))
                                         /\ (CHOOSE q \in Requests : is(q)) \in Requests
      OBVIOUS
    <2> QED BY <2>1, <2>2, <2>3 DEF AbsFetch
  <1> QED BY <1>1, <1>3, <1>4 DEF MappedFetch

LEMMA MappedRecheckMiss ==
  ASSUME WellFormed, Guarded, NEW r \in Requests, RecheckMiss(r)
  PROVE  Abstract!BeginFetch(r)
  <1>1. /\ pc[r] = "recheck" /\ pc'[r] = "run" /\ pc[r] \in Critical
        /\ ~Present(store[KeyOf(r)])
        /\ \A q \in Requests : q # r => pc'[q] = pc[q] /\ response'[q] = response[q]
        /\ stmt' = stmt /\ response' = response /\ store' = store /\ version' = version
    BY DEF RecheckMiss, WellFormed, TypeOK, Critical
  <1>2. /\ stmt[r] \in Statements /\ ~Fetching(r) /\ Fetching(r)'
        /\ \A q \in Requests : ~(Fetching(q) /\ stmt[q] = stmt[r])
    BY <1>1, OneFetchChanges DEF Fetching
  <1>3. MappedFetch[stmt[r]] = [by |-> None, read |-> None]
    BY <1>2, NobodyFetches DEF MappedFetch
  <1>4. MappedFetch' = [MappedFetch EXCEPT ![stmt[r]] = [by |-> r, read |-> None]]
    BY <1>1, <1>2, OneFetchChanges
  <1>5. MappedFetch' = [MappedFetch EXCEPT ![stmt[r]].by = r]
    <2>1. [MappedFetch[stmt[r]] EXCEPT !.by = r] = [by |-> r, read |-> None]
      BY <1>3
    <2> QED BY <1>4, <2>1
  <1>6. AbsStatus(r) = "asking" /\ AbsStatus(r)' = "asking" /\ AbsAnswer(r)' = AbsAnswer(r)
    BY <1>1 DEF AbsStatus, AbsAnswer
  <1>7. MappedStatus' = MappedStatus /\ MappedAnswer' = MappedAnswer
    BY <1>1, <1>6, OthersKept DEF MappedStatus, MappedAnswer
  <1>8. MappedFresh[stmt[r]] = None
    BY <1>1, <1>2 DEF MappedFresh, AbsFresh, KeyOf
  <1> QED
    BY <1>1, <1>3, <1>5, <1>6, <1>7, <1>8, FreshKept
       DEF Abstract!BeginFetch, Abstract!NoFetch, MappedStatus

LEMMA MappedReads ==
  ASSUME WellFormed, Guarded, NEW r \in Requests, RunnerReads(r)
  PROVE  stmt[r] \in Statements /\ Abstract!Read(stmt[r])
  <1>1. /\ pc[r] = "run" /\ pc'[r] = "store" /\ pc[r] \in Critical
        /\ response'[r] = [stmt |-> stmt[r], version |-> version]
        /\ \A q \in Requests : q # r => pc'[q] = pc[q] /\ response'[q] = response[q]
        /\ stmt' = stmt /\ store' = store /\ version' = version
    BY DEF RunnerReads, WellFormed, TypeOK, Critical
  <1>2. stmt[r] \in Statements /\ Fetching(r) /\ Fetching(r)'
    BY <1>1, OneFetchChanges DEF Fetching
  <1>3. MappedFetch[stmt[r]] = [by |-> r, read |-> None]
    BY <1>1, <1>2, SoleFetcher DEF MappedFetch
  <1>4. MappedFetch' = [MappedFetch EXCEPT ![stmt[r]] = [by |-> r, read |-> response'[r]]]
    BY <1>1, <1>2, OneFetchChanges
  <1>5. MappedFetch' = [MappedFetch EXCEPT ![stmt[r]].read = [stmt |-> stmt[r], version |-> version]]
    <2>1. [MappedFetch[stmt[r]] EXCEPT !.read = [stmt |-> stmt[r], version |-> version]]
            = [by |-> r, read |-> response'[r]]
      BY <1>1, <1>3
    <2> QED BY <1>4, <2>1
  <1>6. AbsStatus(r)' = AbsStatus(r) /\ AbsAnswer(r)' = AbsAnswer(r)
    BY <1>1 DEF AbsStatus, AbsAnswer
  <1>7. MappedStatus' = MappedStatus /\ MappedAnswer' = MappedAnswer
    BY <1>1, <1>6, OthersKept DEF MappedStatus, MappedAnswer
  <1> QED
    BY <1>1, <1>2, <1>3, <1>5, <1>7, FreshKept, ParametersAssumption DEF Abstract!Read

LEMMA MappedStore ==
  ASSUME WellFormed, Guarded, NEW r \in Requests, StoreResult(r)
  PROVE  stmt[r] \in Statements /\ Abstract!EndFetch(stmt[r])
  <1>1. /\ pc[r] = "store" /\ pc'[r] = "unlock" /\ pc[r] \in Critical
        /\ store' = [store EXCEPT ![KeyOf(r)] = [result |-> response[r], left |-> EffectiveTtl]]
        /\ \A q \in Requests : q # r => pc'[q] = pc[q] /\ response'[q] = response[q]
        /\ stmt' = stmt /\ response' = response /\ version' = version
    BY DEF StoreResult, WellFormed, TypeOK, Critical
  <1>2. response[r] # None /\ store \in [Keys -> Entries]
    BY <1>1 DEF WellFormed, TypeOK
  <1>3. stmt[r] \in Statements /\ Fetching(r) /\ ~Fetching(r)'
    BY <1>1, OneFetchChanges DEF Fetching
  <1>4. MappedFetch[stmt[r]] = [by |-> r, read |-> response[r]]
    BY <1>1, <1>3, SoleFetcher DEF MappedFetch
  <1>5. MappedFetch' = [MappedFetch EXCEPT ![stmt[r]] = Abstract!NoFetch]
    BY <1>1, <1>3, OneFetchChanges DEF Abstract!NoFetch
  <1>6. MappedFresh' = [MappedFresh EXCEPT ![stmt[r]] = response[r]]
    <2>1. \A s \in Statements : Key(s) \in Keys /\ (Key(s) = KeyOf(r) => s = stmt[r])
      BY <1>3, KeyOfStatement DEF KeyOf
    <2>2. KeyOf(r) \in Keys /\ KeyOf(r) = Key(stmt[r])
      BY <1>3, <2>1 DEF KeyOf
    <2>3. Present(store'[KeyOf(r)]) /\ store'[KeyOf(r)].result = response[r]
      BY <1>1, <1>2, <2>2, EffectiveTtlPositive, ParametersAssumption DEF Present
    <2>4. ASSUME NEW s \in Statements
          PROVE  AbsFresh(s)' = [MappedFresh EXCEPT ![stmt[r]] = response[r]][s]
      <3>1. CASE s = stmt[r]
        BY <1>1, <2>2, <2>3, <3>1 DEF AbsFresh, MappedFresh
      <3>2. CASE s # stmt[r]
        BY <1>1, <1>2, <2>1, <2>2, <3>2 DEF AbsFresh, MappedFresh, Present
      <3> QED BY <3>1, <3>2
    <2>5. MappedFresh' = [s \in Statements |-> [MappedFresh EXCEPT ![stmt[r]] = response[r]][s]]
      BY <2>4, Zenon DEF MappedFresh
    <2> QED BY <2>5 DEF MappedFresh
  <1>7. AbsStatus(r)' = "decided" /\ AbsAnswer(r)' = response[r]
    BY <1>1, <1>2 DEF AbsStatus, AbsAnswer
  <1>8. /\ MappedStatus' = [MappedStatus EXCEPT ![r] = "decided"]
        /\ MappedAnswer' = [MappedAnswer EXCEPT ![r] = response[r]]
    BY <1>1, <1>7, OthersKept
  <1> QED
    BY <1>1, <1>2, <1>3, <1>4, <1>5, <1>6, <1>8 DEF Abstract!EndFetch

(* Callers that give up take their fetches with them. *)
LEMMA MappedLoss ==
  ASSUME WellFormed, Guarded, NEW R \in SUBSET Requests,
         stmt' = stmt, store' = store, version' = version,
         \A q \in R : /\ AbsStatus(q) \in {"asking", "decided"} /\ AbsStatus(q)' = "lost"
                      /\ ~Fetching(q)',
         \A q \in Requests \ R : /\ AbsStatus(q)' = AbsStatus(q) /\ AbsAnswer(q)' = AbsAnswer(q)
                                 /\ Fetching(q)' <=> Fetching(q)
                                 /\ Fetching(q) => pc'[q] = pc[q] /\ response'[q] = response[q]
  PROVE  Abstract!Lose(R)
  <1>a. ASSUME NEW s \in Statements, NEW p \in Requests, Fetching(p), stmt[p] = s
        PROVE  AbsFetch(s) = [by |-> p, read |-> IF pc[p] = "store" THEN response[p] ELSE None]
    BY <1>a, SoleFetcher
  <1>b. ASSUME NEW s \in Statements, NEW p \in Requests, Fetching(p), stmt[p] = s
        PROVE  AbsFetch(s).by = p
    BY <1>a, <1>b
  <1>1. ASSUME NEW s \in Statements
        PROVE  AbsFetch(s)' = IF AbsFetch(s).by \in R THEN Abstract!NoFetch ELSE AbsFetch(s)
    <2>1. CASE \A q \in Requests : ~(Fetching(q)' /\ stmt'[q] = s)
      <3>1. AbsFetch(s)' = [by |-> None, read |-> None]
        BY <2>1 DEF AbsFetch
      <3>2. AbsFetch(s).by \in Requests \ R => FALSE
        <4>1. AbsFetch(s).by \in Requests => AbsFetch(s).by # None
          BY ParametersAssumption
        <4> QED BY <2>1, <4>1, FetcherIsFetching
      <3>3. AbsFetch(s).by = None => AbsFetch(s) = [by |-> None, read |-> None]
        <4>1. AbsFetch(s).by = None => \A r \in Requests : ~(Fetching(r) /\ stmt[r] = s)
          BY <1>b, ParametersAssumption
        <4> QED BY <4>1, NobodyFetches
      <3> QED BY <3>1, <3>2, <3>3, FetcherIsFetching DEF Abstract!NoFetch
    <2>2. ASSUME NEW q \in Requests, Fetching(q)', stmt'[q] = s
          PROVE  AbsFetch(s)' = AbsFetch(s) /\ AbsFetch(s).by \notin R
      <3>1. q \notin R /\ Fetching(q) /\ stmt[q] = s /\ pc'[q] = pc[q] /\ response'[q] = response[q]
        BY <2>2
      <3>2. AbsFetch(s) = [by |-> q, read |-> IF pc[q] = "store" THEN response[q] ELSE None]
        BY <3>1, <1>a
      <3>3. \A p \in Requests : Fetching(p)' /\ stmt'[p] = s => p = q
        <4>1. \A p \in Requests : Fetching(p)' => Fetching(p)
          OBVIOUS
        <4>2. \A p \in Requests : Fetching(p) /\ stmt[p] = s => p = q
          BY <1>b, <3>1
        <4> QED BY <4>1, <4>2
      <3>4. q = CHOOSE p \in Requests : Fetching(p)' /\ stmt'[p] = s
        BY <2>2, <3>3
      <3>5. AbsFetch(s)' = [by |-> q, read |-> IF pc'[q] = "store" THEN response'[q] ELSE None]
        BY <2>2, <3>4 DEF AbsFetch
      <3> QED BY <3>1, <3>2, <3>5
    <2> QED BY <2>1, <2>2
  <1>2. MappedFetch' = [s \in Statements |-> IF MappedFetch[s].by \in R THEN Abstract!NoFetch
                                                                      ELSE MappedFetch[s]]
    BY <1>1 DEF MappedFetch
  <1>3. /\ MappedStatus' = [r \in Requests |-> IF r \in R THEN "lost" ELSE MappedStatus[r]]
        /\ MappedAnswer' = [r \in Requests |-> IF r \in R THEN None ELSE MappedAnswer[r]]
    BY DEF MappedStatus, MappedAnswer, AbsAnswer
  <1>4. \A r \in R : MappedStatus[r] \in {"asking", "decided"}
    BY DEF MappedStatus
  <1> QED BY <1>2, <1>3, <1>4, FreshKept DEF Abstract!Lose

LEMMA MappedRaises ==
  ASSUME WellFormed, Guarded, NEW r \in Requests, RunnerRaises(r)
  PROVE  Abstract!Lose({r})
  <1>1. /\ pc[r] = "run" /\ pc'[r] = "unlock" /\ response[r] = None
        /\ \A q \in Requests : q # r => pc'[q] = pc[q]
        /\ stmt' = stmt /\ response' = response /\ store' = store /\ version' = version
    BY DEF RunnerRaises, WellFormed, TypeOK, Waiting
  <1>2. AbsStatus(r) = "asking" /\ AbsStatus(r)' = "lost" /\ ~Fetching(r)'
    BY <1>1 DEF AbsStatus, Fetching
  <1>3. \A q \in Requests \ {r} : /\ AbsStatus(q)' = AbsStatus(q) /\ AbsAnswer(q)' = AbsAnswer(q)
                                  /\ Fetching(q)' <=> Fetching(q)
                                  /\ pc'[q] = pc[q] /\ response'[q] = response[q]
    BY <1>1 DEF AbsStatus, AbsAnswer, Fetching
  <1> QED BY <1>1, <1>2, <1>3, MappedLoss

LEMMA MappedCrash ==
  ASSUME WellFormed, Guarded, NEW rs \in SUBSET Requests, Crash(rs)
  PROVE  \E R \in SUBSET Requests : Abstract!Lose(R)
  <1> DEFINE R == {q \in rs : pc[q] \in Active /\ AbsStatus(q) # "lost"}
  <1>1. /\ stmt' = stmt /\ store' = store /\ version' = version
        /\ \A q \in Requests :
             /\ q \in rs /\ pc[q] \in Active => pc'[q] = "crashed" /\ response'[q] = None
             /\ ~(q \in rs /\ pc[q] \in Active) => pc'[q] = pc[q] /\ response'[q] = response[q]
    BY DEF Crash
  <1>2. \A q \in R : /\ AbsStatus(q) \in {"asking", "decided"} /\ AbsStatus(q)' = "lost"
                     /\ ~Fetching(q)'
    BY <1>1 DEF AbsStatus, Fetching, Active, Critical
  <1>3. \A q \in Requests \ R : /\ AbsStatus(q)' = AbsStatus(q) /\ AbsAnswer(q)' = AbsAnswer(q)
                                /\ Fetching(q)' <=> Fetching(q)
                                /\ Fetching(q) => pc'[q] = pc[q] /\ response'[q] = response[q]
    BY <1>1 DEF AbsStatus, AbsAnswer, Fetching, Active, Critical
  <1>4. R \in SUBSET Requests
    OBVIOUS
  <1> QED
    <2> HIDE DEF R
    <2>1. Abstract!Lose(R)
      BY <1>1, <1>2, <1>3, <1>4, MappedLoss
    <2> QED BY <1>4, <2>1

(* Entries that run out or are dropped are no longer shared. *)
LEMMA MappedLapse ==
  ASSUME WellFormed, Tick \/ \E k \in Keys : Evict(k) /\ EvictEntry(k)
  PROVE  Abstract!Lapse
  <1>1. /\ pc' = pc /\ stmt' = stmt /\ response' = response /\ version' = version
        /\ \A k \in Keys : Present(store'[k]) => Present(store[k]) /\ store'[k].result = store[k].result
    <2>1. store \in [Keys -> Entries]
      BY DEF WellFormed, TypeOK
    <2> QED BY <2>1, AgedEntry DEF Tick, Evict, EvictEntry, NoEntry, Present
  <1>2. \A s \in Statements : AbsFresh(s)' = None \/ AbsFresh(s)' = AbsFresh(s)
    BY <1>1, KeyOfStatement DEF AbsFresh
  <1> DEFINE S == {s \in Statements : AbsFresh(s)' # AbsFresh(s)}
  <1>3. MappedFresh' = [s \in Statements |-> IF s \in S THEN None ELSE MappedFresh[s]]
    BY <1>2 DEF MappedFresh
  <1>4. MappedFetch' = MappedFetch
    BY <1>1, FetchesKept DEF Fetching
  <1>5. MappedStatus' = MappedStatus /\ MappedAnswer' = MappedAnswer
    BY <1>1 DEF MappedStatus, MappedAnswer, AbsStatus, AbsAnswer
  <1>6. S \in SUBSET Statements
    OBVIOUS
  <1> HIDE DEF S
  <1> QED BY <1>1, <1>3, <1>4, <1>5, <1>6 DEF Abstract!Lapse

LEMMA MappedWrite ==
  ASSUME WellFormed, WarehouseWrite
  PROVE  Abstract!Write
  <1>1. /\ pc' = pc /\ stmt' = stmt /\ response' = response /\ version' = version + 1
        /\ store' = store
    BY DEF WarehouseWrite
  <1>2. MappedFetch' = MappedFetch
    BY <1>1, FetchesKept DEF Fetching
  <1>3. MappedStatus' = MappedStatus /\ MappedAnswer' = MappedAnswer
    BY <1>1 DEF MappedStatus, MappedAnswer, AbsStatus, AbsAnswer
  <1> QED BY <1>1, <1>2, <1>3, FreshKept DEF Abstract!Write

LEMMA MappedNext ==
  ASSUME LocksHold
  PROVE  WellFormed /\ Guarded /\ [Next]_vars => [Abstract!Next]_(Abstract!svars)
  <1> SUFFICES ASSUME WellFormed, Guarded, [Next]_vars
               PROVE  Abstract!Next \/ UNCHANGED Abstract!svars
    OBVIOUS
  <1>1. ASSUME NEW r \in Requests, NEW s \in Statements, Call(r, s)
        PROVE  Abstract!Next
    BY <1>1, MappedCall DEF Abstract!Next
  <1>2. ASSUME NEW r \in Requests, FastHit(r) \/ RecheckHit(r)
        PROVE  Abstract!Next
    BY <1>2, MappedHit DEF Abstract!Next
  <1>3. ASSUME NEW r \in Requests, FastMiss(r) \/ AcquireLock(r) \/ Unlock(r)
        PROVE  UNCHANGED Abstract!svars
    BY <1>3, MappedStutter
  <1>4. ASSUME NEW r \in Requests, RecheckMiss(r)
        PROVE  Abstract!Next
    BY <1>4, MappedRecheckMiss DEF Abstract!Next
  <1>5. ASSUME NEW r \in Requests, RunnerReads(r)
        PROVE  Abstract!Next
    BY <1>5, MappedReads DEF Abstract!Next
  <1>6. ASSUME NEW r \in Requests, RunnerRaises(r)
        PROVE  Abstract!Next
    BY <1>6, MappedRaises DEF Abstract!Next
  <1>7. ASSUME NEW r \in Requests, StoreResult(r)
        PROVE  Abstract!Next
    BY <1>7, MappedStore DEF Abstract!Next
  <1>8. ASSUME Tick \/ \E k \in Keys : Evict(k)
        PROVE  Abstract!Next
    <2>1. Tick \/ \E k \in Keys : Evict(k) /\ EvictEntry(k)
      BY <1>8 DEF Evict, EvictLock, LocksHold
    <2> QED BY <2>1, MappedLapse DEF Abstract!Next
  <1>9. ASSUME WarehouseWrite
        PROVE  Abstract!Next
    BY <1>9, MappedWrite DEF Abstract!Next
  <1>10. ASSUME NEW rs \in SUBSET Requests, Crash(rs)
         PROVE  Abstract!Next
    BY <1>10, MappedCrash DEF Abstract!Next
  <1>11. CASE UNCHANGED vars
    BY <1>11
       DEF vars, Abstract!svars, MappedStatus, MappedAnswer, MappedFetch, MappedFresh,
           AbsStatus, AbsAnswer, AbsFetch, AbsFresh, Fetching, Present
  <1> QED
    BY <1>1, <1>2, <1>3, <1>4, <1>5, <1>6, <1>7, <1>8, <1>9, <1>10, <1>11
       DEF Next, Step, Environment

(***************************************************************************)
(* What callers observe of the cache is SharedFetch: one fetch at a time   *)
(* for each statement, begun only when there is nothing to share, whose    *)
(* result answers its caller and everyone until it lapses.  For any number *)
(* of requests that crash, fail and lose entries to eviction, as long as   *)
(* locks outlive their holders.                                            *)
(***************************************************************************)
THEOREM CacheImplementsSharedFetch ==
  ASSUME LocksHold
  PROVE  Spec => ImplementsSharedFetch
  <1>1. WellFormed /\ Guarded /\ [Next]_vars => [Abstract!Next]_(Abstract!svars)
    BY MappedNext
  <1> QED
    BY <1>1, MappedInit, WellFormedAlways, GuardedAlways, PTL
       DEF Spec, ImplementsSharedFetch, Abstract!SharedFetchSpec

=============================================================================
