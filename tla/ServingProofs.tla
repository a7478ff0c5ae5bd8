---------------------------- MODULE ServingProofs ----------------------------
(***************************************************************************)
(* Proofs about Serving, for any requests, replicas and timeouts.          *)
(*                                                                         *)
(* Serving implements ResultCache: every step of the replicas is a step of *)
(* the cache or leaves it alone.  So the theorems of ResultCacheProofs     *)
(* hold of it.  Its own properties rest on three inductive invariants:     *)
(*   Placed  types, and only requests at the warehouse step have a place   *)
(*   Opened  what a process has open at each point of its life             *)
(*   Ahead   the lock of a prompt request runs out after its wait for a    *)
(*           connection and its query, whichever it is at                  *)
(***************************************************************************)
EXTENDS Serving, Sequences, ResultCacheProofs, FiniteSetTheorems

-----------------------------------------------------------------------------
(* Serving implements the cache. *)

LEMMA CacheInit == ServingInit => Init
  BY DEF ServingInit

LEMMA CacheNext == [ServingNext]_servingVars => [Next]_vars
  <1> SUFFICES ASSUME [ServingNext]_servingVars PROVE [Next]_vars
    OBVIOUS
  <1>1. ASSUME NEW r \in Requests, NEW s \in Asks[r], Receive(r, s)
        PROVE  Next
    <2>1. s \in Statements
      BY ServingAssumption
    <2> QED BY <1>1, <2>1 DEF Receive, Next
  <1>2. ASSUME NEW r \in Requests, CacheStep(r)
        PROVE  Next
    BY <1>2 DEF CacheStep, Next, Step
  <1>3. ASSUME NEW r \in Requests, AskPool(r) \/ GetConnection(r)
        PROVE  UNCHANGED vars
    BY <1>3 DEF AskPool, GetConnection
  <1>4. ASSUME NEW r \in Requests, QueryAnswered(r) \/ QueryFailed(r) \/ Refused(r)
        PROVE  Next
    BY <1>4 DEF QueryAnswered, QueryFailed, Refused, Next, Step
  <1>5. ASSUME Second
        PROVE  Next
    BY <1>5 DEF Second, Next, Environment
  <1>6. ASSUME NEW k \in Keys, Evicted(k)
        PROVE  Next
    BY <1>6 DEF Evicted, Next, Environment
  <1>7. ASSUME NEW p \in Replicas, Killed(p)
        PROVE  Next
    BY <1>7, ServingAssumption DEF Killed, Next, Environment
  <1>8. ASSUME NEW p \in Replicas, Lives(p)
        PROVE  UNCHANGED vars
    BY <1>8 DEF Lives
  <1>9. CASE UNCHANGED servingVars
    BY <1>9 DEF servingVars
  <1> QED
    BY <1>1, <1>2, <1>3, <1>4, <1>5, <1>6, <1>7, <1>8, <1>9 DEF ServingNext, RequestStep

(***************************************************************************)
(* What is proved of the cache holds of the cache inside its replicas,     *)
(* with pools, refusals, startups and shutdowns around it.                 *)
(***************************************************************************)
THEOREM ServingImplementsCache == ServingSpec => Spec
  BY CacheInit, CacheNext, PTL DEF ServingSpec, Spec

(* Callers of several replicas share their fetches as SharedFetch says. *)
THEOREM ServingSharesFetches ==
  ASSUME LocksHold
  PROVE  ServingSpec => ImplementsSharedFetch
  BY ServingImplementsCache, CacheImplementsSharedFetch, PTL

LEMMA ServingWellFormed == ServingSpec => []WellFormed
  BY ServingImplementsCache, WellFormedAlways, PTL

-----------------------------------------------------------------------------
(* Replicas. *)

(* A request has one home. *)
LEMMA HomeIsHome ==
  ASSUME NEW r \in Requests
  PROVE  /\ Home(r) \in Replicas /\ r \in Home(r)
         /\ \A p \in Replicas : r \in p => p = Home(r)
  <1>1. \E p \in Replicas : r \in p
    BY ServingAssumption
  <1> QED BY <1>1, ServingAssumption DEF Home, Pool!Home

-----------------------------------------------------------------------------
(* Places in the pools. *)

Placed ==
  /\ conn \in [Requests -> {"none", "line", "held"}]
  /\ left \in [Requests -> 0 .. PoolTimeout + QueryTime]
  /\ lost \subseteq Keys
  /\ NoStrayConnection

LEMMA PlacedInit == ServingInit => Placed
  BY ServingAssumption DEF ServingInit, Pool!PoolInit, Placed, NoStrayConnection

LEMMA PlacedNext == WellFormed /\ Placed /\ [ServingNext]_servingVars => Placed'
  <1> SUFFICES ASSUME WellFormed, Placed, [ServingNext]_servingVars PROVE Placed'
    OBVIOUS
  <1> USE ServingAssumption DEF Placed, NoStrayConnection
  <1>t. pc \in [Requests -> {"idle"} \cup Active \cup Ended]
    BY DEF WellFormed, TypeOK
  <1>1. ASSUME NEW r \in Requests, NEW s \in Statements, Receive(r, s)
        PROVE  Placed'
    BY <1>1, <1>t DEF Receive, Call, poolVars
  <1>2. ASSUME NEW r \in Requests, CacheStep(r)
        PROVE  Placed'
    (* r is not at the warehouse step, and nobody leaves it *)
    <2>1. /\ pc[r] # "run"
          /\ \A q \in Requests : q # r => pc'[q] = pc[q]
      BY <1>2, <1>t
         DEF CacheStep, FastHit, FastMiss, AcquireLock, RecheckHit, RecheckMiss,
             StoreResult, Unlock
    <2> QED BY <1>2, <2>1 DEF CacheStep, poolVars
  <1>3. ASSUME NEW r \in Requests, AskPool(r)
        PROVE  Placed'
    BY <1>3 DEF AskPool, Pool!Ask, vars
  <1>4. ASSUME NEW r \in Requests, GetConnection(r)
        PROVE  Placed'
    BY <1>4 DEF GetConnection, Pool!Checkout, vars
  <1>5. ASSUME NEW r \in Requests, QueryAnswered(r) \/ QueryFailed(r)
        PROVE  Placed'
    BY <1>5, <1>t
       DEF QueryAnswered, QueryFailed, RunnerReads, RunnerRaises, Pool!Checkin
  <1>6. ASSUME NEW r \in Requests, Refused(r)
        PROVE  Placed'
    BY <1>6, <1>t DEF Refused, RunnerRaises, Pool!GiveUp
  <1>7. ASSUME Second
        PROVE  Placed'
    BY <1>7 DEF Second, Tick, Pool!Second
  <1>8. ASSUME NEW k \in Keys, Evicted(k)
        PROVE  Placed'
    BY <1>8 DEF Evicted, Evict, EvictEntry, EvictLock, poolVars
  <1>9. ASSUME NEW p \in Replicas, Killed(p)
        PROVE  Placed'
    BY <1>9, <1>t DEF Killed, Crash, Pool!Drop
  <1>10. ASSUME NEW p \in Replicas, Lives(p)
         PROVE  Placed'
    BY <1>10 DEF Lives, vars, poolVars
  <1>11. CASE UNCHANGED servingVars
    BY <1>11 DEF servingVars, vars, poolVars
  <1> QED
    BY <1>1, <1>2, <1>3, <1>4, <1>5, <1>6, <1>7, <1>8, <1>9, <1>10, <1>11
       DEF ServingNext, RequestStep

LEMMA PlacedAlways == ServingSpec => []Placed
  BY ServingWellFormed, PlacedInit, PlacedNext, PTL DEF ServingSpec

(***************************************************************************)
(* No failure, refusal or crash leaves a connection out or a place in line *)
(* taken, for any number of requests and replicas.                         *)
(***************************************************************************)
THEOREM NoConnectionIsLost == ServingSpec => []NoStrayConnection
  <1>1. Placed => NoStrayConnection
    BY DEF Placed
  <1> QED BY <1>1, PlacedAlways, PTL

(* The pools count as FiniteSets does. *)
LEMMA SameCardinality == \A S : Pool!Cardinality(S) = Cardinality(S)
  BY DEF Pool!Cardinality, Cardinality

(* The connections that are out are never more than a replica may have. *)
Limited == \A r \in Requests : Cardinality(Pool!CheckedOut(r)) <= Capacity

LEMMA CheckedOutFinite ==
  ASSUME NEW r \in Requests
  PROVE  IsFiniteSet(Pool!CheckedOut(r)) /\ IsFiniteSet(Home(r))
  <1>1. Home(r) \subseteq Requests
    BY HomeIsHome, ServingAssumption
  <1> QED BY <1>1, ServingAssumption, FS_Subset DEF Pool!CheckedOut, Home

LEMMA LimitedInit == ServingInit => Limited
  <1> SUFFICES ASSUME ServingInit, NEW r \in Requests
               PROVE  Cardinality(Pool!CheckedOut(r)) <= Capacity
    BY DEF Limited
  <1>1. Home(r) \subseteq Requests
    BY HomeIsHome, ServingAssumption
  <1>2. Pool!CheckedOut(r) = {}
    BY <1>1 DEF ServingInit, Pool!PoolInit, Pool!CheckedOut, Home
  <1> QED BY <1>2, FS_EmptySet, ServingAssumption

(* Nothing but a checkout adds to the connections that are out. *)
LEMMA LimitedKept ==
  ASSUME Limited, \A r \in Requests : conn'[r] = "held" => conn[r] = "held"
  PROVE  Limited'
  <1> SUFFICES ASSUME NEW r \in Requests
               PROVE  Cardinality(Pool!CheckedOut(r)') <= Capacity
    BY DEF Limited
  <1>1. Home(r) \subseteq Requests
    BY HomeIsHome, ServingAssumption
  <1>2. Pool!CheckedOut(r)' \in SUBSET Pool!CheckedOut(r)
    BY <1>1 DEF Pool!CheckedOut, Pool!Home, Home
  <1>3. /\ Cardinality(Pool!CheckedOut(r)') <= Cardinality(Pool!CheckedOut(r))
        /\ IsFiniteSet(Pool!CheckedOut(r)')
    BY <1>2, CheckedOutFinite, FS_Subset
  <1>4. /\ Cardinality(Pool!CheckedOut(r)) \in Nat
        /\ Cardinality(Pool!CheckedOut(r)') \in Nat
    BY <1>3, CheckedOutFinite, FS_CardinalityType
  <1> QED BY <1>3, <1>4, ServingAssumption DEF Limited

LEMMA LimitedNext == Placed /\ Limited /\ [ServingNext]_servingVars => Limited'
  <1> SUFFICES ASSUME Placed, Limited, [ServingNext]_servingVars PROVE Limited'
    OBVIOUS
  <1>t. conn \in [Requests -> {"none", "line", "held"}]
    BY DEF Placed
  <1>1. ASSUME NEW r \in Requests, GetConnection(r)
        PROVE  Limited'
    <2> SUFFICES ASSUME NEW q \in Requests
                 PROVE  Cardinality(Pool!CheckedOut(q)') <= Capacity
      BY DEF Limited
    <2>1. /\ Pool!HasRoom(r)
          /\ conn' = [conn EXCEPT ![r] = "held"]
      BY <1>1 DEF GetConnection, Pool!Checkout
    <2>2. Home(q) \subseteq Requests /\ Home(q) \in Replicas /\ Home(r) \in Replicas /\ r \in Home(r)
      BY HomeIsHome, ServingAssumption
    <2>3. CASE Home(q) = Home(r)
      (* the same pool: one more, and it had room *)
      <3>1. Pool!CheckedOut(q)' = Pool!CheckedOut(r) \cup {r}
        BY <2>1, <2>2, <2>3, <1>t DEF Pool!CheckedOut, Home, Pool!Home
      <3>2. Cardinality(Pool!CheckedOut(r)) \in Nat
        BY CheckedOutFinite, FS_CardinalityType
      <3>3. Cardinality(Pool!CheckedOut(r) \cup {r}) <= Cardinality(Pool!CheckedOut(r)) + 1
        <4>1. Cardinality(Pool!CheckedOut(r) \cup {r})
                = IF r \in Pool!CheckedOut(r)
                    THEN Cardinality(Pool!CheckedOut(r))
                    ELSE Cardinality(Pool!CheckedOut(r)) + 1
          BY CheckedOutFinite, FS_AddElement
        <4> QED BY <3>2, <4>1
      <3>4. Cardinality(Pool!CheckedOut(r) \cup {r}) \in Nat
        BY CheckedOutFinite, FS_AddElement, FS_CardinalityType
      <3>5. Cardinality(Pool!CheckedOut(r)) < Capacity
        BY <2>1, SameCardinality DEF Pool!HasRoom
      <3> QED BY <3>1, <3>2, <3>3, <3>4, <3>5, ServingAssumption
    <2>4. CASE Home(q) # Home(r)
      <3>1. r \notin Home(q)
        BY <2>2, <2>4, HomeIsHome
      <3>2. Pool!CheckedOut(q)' = Pool!CheckedOut(q)
        BY <2>1, <2>2, <3>1, <1>t DEF Pool!CheckedOut, Home, Pool!Home
      <3> QED BY <3>2 DEF Limited
    <2> QED BY <2>3, <2>4
  <1>2. ASSUME NEW r \in Requests, AskPool(r) \/ QueryAnswered(r) \/ QueryFailed(r) \/ Refused(r)
        PROVE  Limited'
    BY <1>2, <1>t, LimitedKept
       DEF AskPool, QueryAnswered, QueryFailed, Refused, Pool!Ask, Pool!Checkin, Pool!GiveUp
  <1>3. ASSUME NEW p \in Replicas, Killed(p)
        PROVE  Limited'
    BY <1>3, <1>t, LimitedKept DEF Killed, Pool!Drop
  <1>4. ASSUME UNCHANGED conn
        PROVE  Limited'
    BY <1>4, LimitedKept
  <1>5. ASSUME NEW r \in Requests, NEW s, Receive(r, s) \/ CacheStep(r)
        PROVE  UNCHANGED conn
    BY <1>5 DEF Receive, CacheStep, poolVars
  <1>6. Second \/ (\E k \in Keys : Evicted(k))
          \/ (\E p \in Replicas : Lives(p)) \/ UNCHANGED servingVars
          => UNCHANGED conn
    BY DEF Second, Pool!Second, Evicted, Lives, poolVars, servingVars
  <1> QED BY <1>1, <1>2, <1>3, <1>4, <1>5, <1>6 DEF ServingNext, RequestStep

-----------------------------------------------------------------------------
(* The lives of the replicas. *)

(* What a process has open, or no longer has, at each point of its life. *)
Opened ==
  /\ Life!LifeTypeOK
  /\ \A p \in Replicas :
       /\ phase[p] = "starting" => next[p] \in 1 .. 3 /\ (next[p] = 3 => "engine" \in open[p])
       /\ phase[p] = "serving" => {"engine", "cache"} \subseteq open[p] /\ next[p] = 1
       /\ phase[p] = "stopping" =>
            \A i \in 1 .. 4 : i < next[p] => Life!Shutdown[i] \notin open[p]
       /\ phase[p] = "stopped" => open[p] = {}
       /\ phase[p] = "aborted" => "mcp" \notin open[p]
  /\ \A r \in Requests : pc[r] \in Active => phase[Home(r)] = "serving"

LEMMA OpenedInit == ServingInit => Opened
  BY HomeIsHome
     DEF ServingInit, Init, Opened, Life!LifeInit, Life!LifeTypeOK, Life!Phases, Active,
         Critical

(* Steps that leave the replicas alone and bring no request under way. *)
LEMMA OpenedKept ==
  ASSUME Opened, UNCHANGED lifeVars,
         \A r \in Requests : pc'[r] \in Active => pc[r] \in Active
  PROVE  Opened'
  <1>1. UNCHANGED <<phase, next, open>>
    BY DEF lifeVars
  <1>2. \A r \in Requests : Home(r)' = Home(r)
    BY DEF Home, Pool!Home
  <1> QED BY <1>1, <1>2 DEF Opened, Life!LifeTypeOK

(* Steps of one replica that leave the requests alone. *)
LEMMA OpenedLives ==
  ASSUME Opened, NEW p \in Replicas, Lives(p)
  PROVE  Opened'
  <1> USE DEF Opened, Life!LifeTypeOK, Life!Phases
  <1>t. /\ UNCHANGED pc
        /\ \A r \in Requests : Home(r)' = Home(r)
    BY DEF Lives, vars, Home, Pool!Home
  <1>1. CASE Life!Open(p)
    <2>1. next[p] \in 1 .. 3 /\ phase[p] = "starting"
      BY <1>1 DEF Life!Open
    <2>2. /\ Len(Life!Startup) = 3
          /\ Life!Startup[1] = "mcp" /\ Life!Startup[2] = "engine" /\ Life!Startup[3] = "cache"
      BY DEF Life!Startup
    <2>3. /\ open'[p] \in SUBSET {"mcp", "http", "engine", "cache"}
          /\ open[p] \subseteq open'[p]
          /\ next[p] = 2 => "engine" \in open'[p]
          /\ next[p] = 3 => "cache" \in open'[p]
          /\ \A q \in Replicas \ {p} : open'[q] = open[q]
          /\ open' \in [Replicas -> SUBSET {"mcp", "http", "engine", "cache"}]
      BY <1>1, <2>1, <2>2 DEF Life!Open, Life!Configured
    <2>4. CASE next[p] = 3
      <3>1. /\ phase' = [phase EXCEPT ![p] = "serving"]
            /\ next' = [next EXCEPT ![p] = 1]
        BY <1>1, <2>2, <2>4 DEF Life!Open
      <3> QED BY <1>t, <2>1, <2>3, <2>4, <3>1
    <2>5. CASE next[p] # 3
      <3>1. /\ phase' = phase
            /\ next' = [next EXCEPT ![p] = @ + 1]
        BY <1>1, <2>2, <2>5 DEF Life!Open
      <3> QED BY <1>t, <2>1, <2>3, <2>5, <3>1
    <2> QED BY <2>4, <2>5
  <1>2. CASE Life!Close(p)
    <2>1. /\ Len(Life!Shutdown) = 4
          /\ {Life!Shutdown[i] : i \in 1 .. 4} = {"mcp", "http", "engine", "cache"}
      BY DEF Life!Shutdown
    <2>2. /\ phase[p] = "stopping" /\ next[p] \in 1 .. 4
          /\ open' = [open EXCEPT ![p] = @ \ {Life!Shutdown[next[p]]}]
      BY <1>2 DEF Life!Close
    <2>3. \A i \in 1 .. 4 : i <= next[p] => Life!Shutdown[i] \notin open'[p]
      BY <2>2
    <2>4. /\ open' \in [Replicas -> SUBSET {"mcp", "http", "engine", "cache"}]
          /\ \A q \in Replicas \ {p} : open'[q] = open[q]
      BY <2>2
    <2>5. CASE next[p] = 4
      <3>1. /\ phase' = [phase EXCEPT ![p] = "stopped"]
            /\ next' = next
        BY <1>2, <2>1, <2>5 DEF Life!Close
      <3>2. open'[p] = {}
        BY <2>1, <2>3, <2>4, <2>5
      <3> QED BY <1>t, <2>2, <2>4, <3>1, <3>2
    <2>6. CASE next[p] # 4
      <3>1. /\ phase' = phase
            /\ next' = [next EXCEPT ![p] = @ + 1]
        BY <1>2, <2>1, <2>6 DEF Life!Close
      <3> QED BY <1>t, <2>2, <2>3, <2>4, <2>6, <3>1
    <2> QED BY <2>5, <2>6
  <1>3. CASE Life!Raise(p)
    BY <1>3, <1>t, HomeIsHome DEF Life!Raise
  <1>4. CASE Life!Stop(p) /\ \A r \in p : pc[r] \notin Active
    <2>1. \A r \in Requests : pc[r] \in Active => Home(r) # p
      BY <1>4, HomeIsHome
    <2> QED BY <1>4, <1>t, <2>1, HomeIsHome DEF Life!Stop
  <1> QED BY <1>1, <1>2, <1>3, <1>4 DEF Lives

LEMMA OpenedNext ==
  WellFormed /\ Opened /\ [ServingNext]_servingVars => Opened'
  <1> SUFFICES ASSUME WellFormed, Opened, [ServingNext]_servingVars PROVE Opened'
    OBVIOUS
  <1>t. pc \in [Requests -> {"idle"} \cup Active \cup Ended]
    BY DEF WellFormed, TypeOK
  <1>1. ASSUME NEW r \in Requests, NEW s, Receive(r, s)
        PROVE  Opened'
    <2>1. /\ phase[Home(r)] = "serving"
          /\ \A q \in Requests : q # r => pc'[q] = pc[q]
          /\ UNCHANGED <<phase, next, open>>
          /\ \A q \in Requests : Home(q)' = Home(q)
      BY <1>1, <1>t DEF Receive, Call, lifeVars, Home, Pool!Home
    <2> QED BY <2>1 DEF Opened, Life!LifeTypeOK
  <1>2. ASSUME NEW r \in Requests, CacheStep(r)
        PROVE  Opened'
    BY <1>2, <1>t, OpenedKept
       DEF CacheStep, FastHit, FastMiss, AcquireLock, RecheckHit, RecheckMiss, StoreResult,
           Unlock, Active, Critical
  <1>3. ASSUME NEW r \in Requests, AskPool(r) \/ GetConnection(r)
        PROVE  Opened'
    BY <1>3, OpenedKept DEF AskPool, GetConnection, vars
  <1>4. ASSUME NEW r \in Requests, QueryAnswered(r) \/ QueryFailed(r) \/ Refused(r)
        PROVE  Opened'
    BY <1>4, <1>t, OpenedKept
       DEF QueryAnswered, QueryFailed, Refused, RunnerReads, RunnerRaises, Active, Critical
  <1>5. ASSUME Second \/ (\E k \in Keys : Evicted(k))
                 \/ UNCHANGED servingVars
        PROVE  Opened'
    BY <1>5, OpenedKept
       DEF Second, Tick, Evicted, Evict, EvictEntry, EvictLock, servingVars, vars
  <1>6. ASSUME NEW p \in Replicas, Killed(p)
        PROVE  Opened'
    <2>1. \A r \in Requests : pc'[r] \in Active => pc[r] \in Active /\ Home(r) # p
      BY <1>6, <1>t, HomeIsHome DEF Killed, Crash, Active, Critical
    <2>2. \A r \in Requests : Home(r)' = Home(r) /\ Home(r) \in Replicas
      BY HomeIsHome DEF Home, Pool!Home
    <2> QED
      BY <1>6, <2>1, <2>2 DEF Killed, Life!Die, Opened, Life!LifeTypeOK, Life!Phases
  <1>7. ASSUME NEW p \in Replicas, Lives(p)
        PROVE  Opened'
    BY <1>7, OpenedLives
  <1> QED
    BY <1>1, <1>2, <1>3, <1>4, <1>5, <1>6, <1>7 DEF ServingNext, RequestStep

LEMMA OpenedAlways == ServingSpec => []Opened
  BY ServingWellFormed, OpenedInit, OpenedNext, PTL DEF ServingSpec

(***************************************************************************)
(* No request is under way in a replica whose engine or cache is not open  *)
(* yet or closed already.                                                  *)
(***************************************************************************)
THEOREM RequestsAreServedWhileOpen == ServingSpec => []ServedWhileOpen
  <1>1. Opened => ServedWhileOpen
    BY HomeIsHome DEF Opened, ServedWhileOpen
  <1> QED BY <1>1, OpenedAlways, PTL

(* A clean shutdown closes everything, and any ending leaves the MCP sessions. *)
THEOREM ShutdownClosesAll == ServingSpec => []NothingLeftOpen
  <1>1. Opened => NothingLeftOpen
    BY DEF Opened, NothingLeftOpen, Life!NothingLeftOpen
  <1> QED BY <1>1, OpenedAlways, PTL

(* Type correctness of pools and lives; no pool is ever above its limit. *)
THEOREM ServingTypeCorrect == ServingSpec => []ServingTypeOK
  <1>1. Placed /\ Limited /\ Opened => ServingTypeOK
    BY SameCardinality DEF Placed, Limited, Opened, ServingTypeOK, Pool!PoolTypeOK
  <1>2. ServingSpec => []Limited
    BY PlacedAlways, LimitedInit, LimitedNext, PTL DEF ServingSpec
  <1> QED BY <1>1, <1>2, PlacedAlways, OpenedAlways, PTL

-----------------------------------------------------------------------------
(* One place per key. *)

(* What is left of r's lock is more than what r may still wait and run. *)
InTime(r) ==
  /\ lock[KeyOf(r)].owner = r
  /\ lock[KeyOf(r)].left > 0
  /\ pc[r] = "recheck" => lock[KeyOf(r)].left = LockTimeout
  /\ pc[r] = "run" /\ conn[r] = "none" => lock[KeyOf(r)].left = LockTimeout
  /\ pc[r] = "run" /\ conn[r] = "line" => lock[KeyOf(r)].left > left[r] + QueryTime
  /\ pc[r] = "run" /\ conn[r] = "held" => lock[KeyOf(r)].left > left[r]

Prompt(r) == r \notin Hung /\ pc[r] \in Critical /\ KeyOf(r) \notin lost

Ahead == \A r \in Requests : Prompt(r) => InTime(r)

LEMMA AheadInit == ServingInit => Ahead
  BY DEF ServingInit, Init, Ahead, Prompt, Critical

(* A request whose own state and lock stay as they are stays in time. *)
LEMMA InTimeKept ==
  ASSUME NEW r \in Requests, InTime(r), lock'[KeyOf(r)] = lock[KeyOf(r)],
         pc'[r] = pc[r], stmt'[r] = stmt[r], conn'[r] = conn[r], left'[r] = left[r]
  PROVE  InTime(r)'
  BY DEF InTime, KeyOf

LEMMA AheadNext ==
  ASSUME OwnedUnlock, LockTimeout > PoolTimeout + QueryTime
  PROVE  WellFormed /\ Placed /\ Ahead /\ [ServingNext]_servingVars => Ahead'
  <1> SUFFICES ASSUME WellFormed, Placed, Ahead, [ServingNext]_servingVars,
                      NEW r \in Requests, Prompt(r)'
               PROVE  InTime(r)'
    BY DEF Ahead
  <1> USE ParametersAssumption, ServingAssumption
  <1>t. /\ pc \in [Requests -> {"idle"} \cup Active \cup Ended]
        /\ stmt \in [Requests -> Statements \cup {None}]
        /\ lock \in [Keys -> Locks]
        /\ conn \in [Requests -> {"none", "line", "held"}]
        /\ left \in [Requests -> 0 .. PoolTimeout + QueryTime]
        /\ \A q \in Requests : conn[q] # "none" => pc[q] = "run"
    BY DEF WellFormed, TypeOK, Placed, NoStrayConnection
  <1>k. \A q \in Requests : pc[q] # "idle" => KeyOf(q) \in Keys
    BY DEF WellFormed, TypeOK, KeyOf, Keys
  <1>p. ASSUME stmt'[r] = stmt[r], lost \subseteq lost', pc[r] \in Critical
        PROVE  InTime(r) /\ KeyOf(r)' = KeyOf(r) /\ KeyOf(r) \in Keys /\ r \notin Hung
    BY <1>p, <1>k DEF Prompt, Ahead, KeyOf, Critical
  <1>1. ASSUME NEW q \in Requests, NEW s \in Statements, Receive(q, s)
        PROVE  InTime(r)'
    <2>1. q # r /\ pc'[r] = pc[r] /\ stmt'[r] = stmt[r]
      BY <1>1, <1>t DEF Receive, Call, Prompt, Critical
    <2>2. pc[r] \in Critical
      BY <2>1 DEF Prompt
    <2> QED BY <1>1, <1>p, <2>1, <2>2, InTimeKept DEF Receive, Call, poolVars
  <1>2. ASSUME NEW q \in Requests, CacheStep(q)
        PROVE  InTime(r)'
    <2>1. /\ UNCHANGED <<stmt, conn, left, lost>>
          /\ \A p \in Requests : p # q => pc'[p] = pc[p]
      BY <1>2, <1>t
         DEF CacheStep, FastHit, FastMiss, AcquireLock, RecheckHit, RecheckMiss,
             StoreResult, Unlock, poolVars
    <2>2. CASE r # q
      <3>1. pc'[r] = pc[r] /\ pc[r] \in Critical
        BY <2>1, <2>2 DEF Prompt
      <3>2. InTime(r) /\ KeyOf(r)' = KeyOf(r) /\ KeyOf(r) \in Keys
        BY <1>p, <2>1, <3>1
      (* the lock is r's and has time left: q neither takes nor releases it *)
      <3>3. lock'[KeyOf(r)] = lock[KeyOf(r)]
        BY <1>2, <1>t, <2>2, <3>2
           DEF CacheStep, FastHit, FastMiss, AcquireLock, RecheckHit, RecheckMiss,
               StoreResult, Unlock, InTime
      <3> QED BY <2>1, <3>1, <3>2, <3>3, InTimeKept
    <2>3. CASE r = q /\ AcquireLock(q)
      <3>1. /\ pc'[r] = "recheck" /\ KeyOf(r)' = KeyOf(r)
            /\ lock'[KeyOf(r)] = [owner |-> r, left |-> LockTimeout]
        BY <1>t, <1>k, <2>3 DEF AcquireLock, KeyOf
      <3> QED BY <3>1 DEF InTime
    <2>4. CASE r = q /\ (RecheckMiss(q) \/ RecheckHit(q) \/ StoreResult(q))
      <3>1. /\ pc[r] \in Critical /\ pc[r] # "run"
            /\ lock' = lock
            /\ pc'[r] \in {"run", "unlock"}
            /\ pc'[r] = "run" => pc[r] = "recheck"
        BY <1>t, <2>4 DEF RecheckMiss, RecheckHit, StoreResult, Critical
      <3>2. InTime(r) /\ KeyOf(r)' = KeyOf(r)
        BY <1>p, <2>1, <3>1
      <3>3. conn'[r] = "none"
        BY <1>t, <2>1, <3>1
      <3> QED BY <3>1, <3>2, <3>3 DEF InTime
    <2>5. CASE r = q /\ (FastHit(q) \/ FastMiss(q) \/ Unlock(q))
      BY <1>t, <2>5 DEF FastHit, FastMiss, Unlock, Prompt, Critical
    <2> QED BY <1>2, <2>2, <2>3, <2>4, <2>5 DEF CacheStep
  <1>3. ASSUME NEW q \in Requests, AskPool(q) \/ GetConnection(q)
        PROVE  InTime(r)'
    <2>1. UNCHANGED <<pc, stmt, lock, lost>> /\ pc[r] \in Critical
      BY <1>3 DEF AskPool, GetConnection, vars, Prompt
    <2>2. InTime(r) /\ KeyOf(r)' = KeyOf(r) /\ KeyOf(r) \in Keys
      BY <1>p, <2>1
    <2>3. CASE q # r
      <3>1. conn'[r] = conn[r] /\ left'[r] = left[r]
        BY <1>3, <1>t, <2>3 DEF AskPool, GetConnection, Pool!Ask, Pool!Checkout
      <3> QED BY <2>1, <2>2, <3>1, InTimeKept
    <2>4. CASE q = r /\ AskPool(q)
      <3>1. /\ conn[r] = "none" /\ pc[r] = "run"
            /\ conn'[r] = "line" /\ left'[r] = PoolTimeout
        BY <1>t, <2>4 DEF AskPool, Pool!Ask
      <3> QED BY <2>1, <2>2, <3>1 DEF InTime
    <2>5. CASE q = r /\ GetConnection(q)
      <3>1. /\ conn[r] = "line" /\ pc[r] = "run"
            /\ conn'[r] = "held" /\ left'[r] = QueryTime
        BY <1>t, <2>5 DEF GetConnection, Pool!Checkout
      <3>2. lock[KeyOf(r)].left > left[r] + QueryTime /\ left[r] \in Nat
        BY <1>t, <2>2, <3>1 DEF InTime
      <3>3. lock[KeyOf(r)].left \in Nat
        BY <1>t, <2>2 DEF Locks, FreeLock
      <3> QED BY <2>1, <2>2, <3>1, <3>2, <3>3 DEF InTime
    <2> QED BY <1>3, <2>3, <2>4, <2>5
  <1>4. ASSUME NEW q \in Requests, QueryAnswered(q) \/ QueryFailed(q) \/ Refused(q)
        PROVE  InTime(r)'
    <2>1. /\ UNCHANGED <<stmt, lock, lost>>
          /\ pc[q] = "run" /\ pc'[q] \in {"store", "unlock"}
          /\ \A p \in Requests : p # q =>
               pc'[p] = pc[p] /\ conn'[p] = conn[p] /\ left'[p] = left[p]
      BY <1>4, <1>t
         DEF QueryAnswered, QueryFailed, Refused, RunnerReads, RunnerRaises,
             Pool!Checkin, Pool!GiveUp
    <2>2. pc[r] \in Critical
      BY <2>1 DEF Prompt, Critical
    <2>3. InTime(r) /\ KeyOf(r)' = KeyOf(r) /\ KeyOf(r) \in Keys
      BY <1>p, <2>1, <2>2
    <2>4. CASE q # r
      BY <2>1, <2>3, <2>4, InTimeKept
    <2>5. CASE q = r
      BY <2>1, <2>3, <2>5 DEF InTime
    <2> QED BY <2>4, <2>5
  <1>5. ASSUME Second
        PROVE  InTime(r)'
    <2>1. /\ UNCHANGED <<pc, stmt, conn, lost>>
          /\ pc[r] \in Critical
          /\ left'[r] = IF left[r] = 0 THEN 0 ELSE left[r] - 1
      BY <1>5 DEF Second, Tick, Pool!Second, Prompt
    <2>2. InTime(r) /\ KeyOf(r)' = KeyOf(r) /\ KeyOf(r) \in Keys /\ r \notin Hung
      BY <1>p, <2>1
    (* r is waiting for something that is not due *)
    <2>3. pc[r] = "run" /\ conn[r] \in {"line", "held"} /\ left[r] > 0
      BY <1>5, <1>t, <2>1, <2>2 DEF Second, Due, Pool!Due, Critical
    <2>4. lock[KeyOf(r)] \in Locks /\ lock[KeyOf(r)].left > 1
      BY <1>t, <2>2, <2>3 DEF InTime, Locks, FreeLock
    <2>5. lock'[KeyOf(r)] = [lock[KeyOf(r)] EXCEPT !.left = @ - 1]
      BY <1>5, <2>2, <2>4 DEF Second, Tick, Aged, Locks, FreeLock
    <2>6. /\ lock'[KeyOf(r)].owner = lock[KeyOf(r)].owner
          /\ lock'[KeyOf(r)].left = lock[KeyOf(r)].left - 1
          /\ lock[KeyOf(r)].left \in Nat
      BY <2>4, <2>5 DEF Locks, FreeLock
    <2>7. left'[r] = left[r] - 1 /\ left[r] \in Nat
      BY <1>t, <2>1, <2>3
    <2> QED BY <2>1, <2>2, <2>3, <2>4, <2>6, <2>7 DEF InTime
  <1>6. ASSUME NEW k \in Keys, Evicted(k)
        PROVE  InTime(r)'
    <2>1. /\ UNCHANGED <<pc, stmt, conn, left>> /\ pc[r] \in Critical
          /\ lost \subseteq lost'
      BY <1>6 DEF Evicted, Evict, EvictEntry, EvictLock, poolVars, Prompt
    <2>2. InTime(r) /\ KeyOf(r)' = KeyOf(r) /\ KeyOf(r) \in Keys
      BY <1>p, <2>1
    <2>3. lock'[KeyOf(r)] = lock[KeyOf(r)]
      BY <1>6, <1>t, <2>2
         DEF Evicted, Evict, EvictEntry, EvictLock, Prompt
    <2> QED BY <2>1, <2>2, <2>3, InTimeKept
  <1>7. ASSUME NEW p \in Replicas, Killed(p)
        PROVE  InTime(r)'
    <2>1. /\ UNCHANGED <<stmt, lock, lost>>
          /\ r \notin p \/ pc[r] \notin Active
          /\ pc'[r] = pc[r] /\ pc[r] \in Critical
      BY <1>7, <1>t DEF Killed, Crash, Prompt, Critical
    <2>2. r \notin p
      BY <2>1 DEF Active
    <2>3. conn'[r] = conn[r] /\ left'[r] = left[r]
      BY <1>7, <2>2 DEF Killed, Pool!Drop
    <2>4. InTime(r)
      BY <1>p, <2>1
    <2> QED BY <2>1, <2>3, <2>4, InTimeKept
  <1>8. ASSUME (\E p \in Replicas : Lives(p)) \/ UNCHANGED servingVars
        PROVE  InTime(r)'
    <2>1. UNCHANGED <<pc, stmt, lock, conn, left, lost>>
      BY <1>8 DEF Lives, servingVars, vars, poolVars
    <2>2. pc[r] \in Critical
      BY <2>1 DEF Prompt
    <2>3. InTime(r)
      BY <1>p, <2>1, <2>2
    <2> QED BY <2>1, <2>3, InTimeKept
  <1> QED
    BY <1>1, <1>2, <1>3, <1>4, <1>5, <1>6, <1>7, <1>8 DEF ServingNext, RequestStep

(***************************************************************************)
(* A burst of identical queries takes one place in all pools together when *)
(* the safety timeout of locks is above the pool timeout and the slowest   *)
(* query together, and the backend checks owners: for any numbers of       *)
(* requests, replicas and connections.                                     *)
(***************************************************************************)
THEOREM BurstTakesOnePlace ==
  ASSUME OwnedUnlock, LockTimeout > PoolTimeout + QueryTime
  PROVE  ServingSpec => []OnePlacePerKey
  <1>1. Placed /\ Ahead => OnePlacePerKey
    BY DEF Placed, NoStrayConnection, Ahead, Prompt, InTime, OnePlacePerKey, Critical
  <1>2. ServingSpec => []Ahead
    BY ServingWellFormed, PlacedAlways, AheadInit, AheadNext, PTL DEF ServingSpec
  <1> QED BY <1>1, <1>2, PlacedAlways, PTL

=============================================================================
