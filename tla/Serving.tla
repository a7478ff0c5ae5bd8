------------------------------- MODULE Serving -------------------------------
(***************************************************************************)
(* Server processes (replicas) that share one cache backend and keep a     *)
(* connection pool each: what becomes of a query on its way from           *)
(* execute_with_cache to the warehouse.  ResultCache gives the requests    *)
(* and the backend, ConnectionPool what `runner` waits for, Lifespan when  *)
(* a replica takes requests.  A step of this module is a step of one or    *)
(* more of them.  That the data changes matters to ResultCache alone and   *)
(* is left there.                                                          *)
(*                                                                         *)
(* A request holds the lock of its key while it waits for a connection, so *)
(* the pool decides how long locks are held and whether they expire first. *)
(***************************************************************************)
EXTENDS ResultCache, FiniteSets

CONSTANTS
  Replicas,     \* the server processes, each the set of the requests it serves
  Capacity,     \* PoolConfig.size + PoolConfig.max_overflow
  PoolTimeout,  \* PoolConfig.timeout, in seconds
  QueryTime,    \* the longest a query takes, in seconds, but for those of Hung
  MountsMcp,    \* serve.mcp_enabled
  OwnsHttp,     \* keys come from a URL
  Asks          \* bound: the statements each request may be about

ASSUME ServingAssumption ==
  /\ IsFiniteSet(Requests)
  /\ Replicas \subseteq SUBSET Requests
  /\ UNION Replicas = Requests
  /\ \A p, q \in Replicas : p # q => p \cap q = {}
  /\ Capacity \in Nat \ {0}
  /\ PoolTimeout \in Nat
  /\ QueryTime \in Nat
  /\ MountsMcp \in BOOLEAN
  /\ OwnsHttp \in BOOLEAN
  /\ Asks \in [Requests -> SUBSET Statements]

VARIABLES conn, left, phase, next, open, lost

Pool == INSTANCE ConnectionPool WITH Clients <- Requests

Life == INSTANCE Lifespan

poolVars == <<conn, left>>

lifeVars == <<phase, next, open>>

\* lost: history, the keys whose lock the bounded backend has evicted
servingVars == <<vars, poolVars, lifeVars, lost>>

Home(r) == Pool!Home(r)

ServingInit ==
  /\ Init
  /\ Pool!PoolInit
  /\ Life!LifeInit
  /\ lost = {}

-----------------------------------------------------------------------------
(* A request in a replica. *)

(* Mutant: requests are taken as soon as the process listens. *)
ReceiveEarly(r, s) ==
  /\ phase[Home(r)] \in {"starting", "serving"}
  /\ Call(r, s)
  /\ UNCHANGED <<poolVars, lifeVars, lost>>

(* uvicorn takes requests between the startup and the shutdown of the app. *)
Receive(r, s) ==
  /\ phase[Home(r)] = "serving"
  /\ Call(r, s)
  /\ UNCHANGED <<poolVars, lifeVars, lost>>

(* The steps of execute_with_cache that do not concern the warehouse. *)
CacheStep(r) ==
  /\ \/ FastHit(r) \/ FastMiss(r)
     \/ AcquireLock(r) \/ RecheckHit(r) \/ RecheckMiss(r)
     \/ StoreResult(r) \/ Unlock(r)
  /\ UNCHANGED <<poolVars, lifeVars, lost>>

(* runner is db.execute: it first asks the pool of its own replica. *)
AskPool(r) ==
  /\ pc[r] = "run"
  /\ Pool!Ask(r)
  /\ UNCHANGED <<vars, lifeVars, lost>>

GetConnection(r) ==
  /\ Pool!Checkout(r)
  /\ UNCHANGED <<vars, lifeVars, lost>>

(* The warehouse has answered; the rows are read, the connection goes back. *)
QueryAnswered(r) ==
  /\ RunnerReads(r)
  /\ Pool!Checkin(r)
  /\ UNCHANGED <<lifeVars, lost>>

(* Mutant: the connection is given back only after an answer. *)
QueryFailedKeeps(r) ==
  /\ RunnerRaises(r)
  /\ conn[r] = "held"
  /\ UNCHANGED <<poolVars, lifeVars, lost>>

(* The warehouse, or the connection to it, failed. *)
QueryFailed(r) ==
  /\ RunnerRaises(r)
  /\ Pool!Checkin(r)
  /\ UNCHANGED <<lifeVars, lost>>

(* Mutant: asks the pool again instead of answering. *)
RefusedAsksAgain(r) ==
  /\ conn[r] = "line"
  /\ left[r] = 0
  /\ left' = [left EXCEPT ![r] = PoolTimeout]
  /\ UNCHANGED <<vars, conn, lifeVars, lost>>

(* TimeoutError: POOL_TIMEOUT, which PoolAwareHandler answers with a 503. *)
Refused(r) ==
  /\ RunnerRaises(r)
  /\ Pool!GiveUp(r)
  /\ UNCHANGED <<lifeVars, lost>>

-----------------------------------------------------------------------------
(* The environment: time, faults, the lives of the replicas. *)

(***************************************************************************)
(* A prompt request takes its next step before a second has passed, unless *)
(* it waits for a lock, for a connection or for the warehouse.  The        *)
(* requests of Hung are not prompt anywhere.                               *)
(***************************************************************************)
Due(r) ==
  /\ r \notin Hung
  /\ \/ pc[r] \in {"lookup", "recheck", "store", "unlock"}
     \/ pc[r] = "lock" /\ ~Present(lock[KeyOf(r)])
     \/ pc[r] = "run" /\ (conn[r] = "none" \/ Pool!Due(r))

Second ==
  /\ \A r \in Requests : ~Due(r)
  /\ Tick
  /\ Pool!Second
  /\ UNCHANGED <<lifeVars, lost>>

Evicted(k) ==
  /\ Evict(k)
  /\ lost' = IF lock'[k] = lock[k] THEN lost ELSE lost \cup {k}
  /\ UNCHANGED <<poolVars, lifeVars>>

Killed(p) ==
  /\ phase[p] = "serving"
  /\ Crash(p)
  /\ Pool!Drop(p)
  /\ Life!Die(p)
  /\ UNCHANGED lost

(* Startup and shutdown; uvicorn first waits for the requests in flight. *)
Lives(p) ==
  /\ \/ Life!Open(p) \/ Life!Close(p) \/ Life!Raise(p)
     \/ Life!Stop(p) /\ \A r \in p : pc[r] \notin Active
  /\ UNCHANGED <<vars, poolVars, lost>>

-----------------------------------------------------------------------------

RequestStep(r) ==
  \/ CacheStep(r)
  \/ AskPool(r)
  \/ GetConnection(r)
  \/ QueryAnswered(r)
  \/ QueryFailed(r)
  \/ Refused(r)

ServingNext ==
  \/ \E r \in Requests : \E s \in Asks[r] : Receive(r, s)
  \/ \E r \in Requests : RequestStep(r)
  \/ Second
  \/ \E k \in Keys : Evicted(k)
  \/ \E p \in Replicas : Killed(p) \/ Lives(p)

ServingSpec == ServingInit /\ [][ServingNext]_servingVars

(***************************************************************************)
(* The event loops run coroutines that are ready and the timers of the     *)
(* pools fire; the warehouse answers, or fails, all requests but those of  *)
(* Hung, whose connections may be out for ever; free connections go to     *)
(* someone in line.  Nothing is assumed of whose turn it is: a request may *)
(* be overtaken as long as there is anyone to overtake it.                 *)
(***************************************************************************)
Returns(r) == QueryAnswered(r) \/ QueryFailed(r)

FairServing ==
  /\ ServingSpec
  /\ WF_servingVars(Second)
  /\ WF_servingVars(\E r \in Requests : CacheStep(r) \/ AskPool(r) \/ Refused(r))
  /\ WF_servingVars(\E r \in Requests \ Hung : Returns(r))
  /\ WF_servingVars(\E r \in Requests : GetConnection(r))

-----------------------------------------------------------------------------
(* Properties.  LocksHaveHolders and EveryCallEnds of ResultCache are      *)
(* checked of this module too.                                             *)

(* The pools and lives keep their types; a pool is never above its limit. *)
ServingTypeOK ==
  /\ Pool!PoolTypeOK
  /\ Life!LifeTypeOK
  /\ lost \subseteq Keys

(***************************************************************************)
(* A burst of identical queries takes one place in the pools of all        *)
(* replicas together, waiting or running (docs/caching.md section 6),      *)
(* although they wait there with the lock of their key: for that the lock  *)
(* must outlive the wait for a connection and the query together.  Only    *)
(* requests that hang, and keys whose lock was evicted, are excepted.      *)
(***************************************************************************)
OnePlacePerKey ==
  \A r, q \in Requests \ Hung :
    /\ conn[r] # "none"
    /\ conn[q] # "none"
    /\ KeyOf(r) = KeyOf(q)
    /\ KeyOf(r) \notin lost
    => r = q

(***************************************************************************)
(* Whoever has a place in a pool is alive and at the warehouse step: no    *)
(* failure, refusal or crash leaves a connection out or a place in line.   *)
(***************************************************************************)
NoStrayConnection ==
  \A r \in Requests : conn[r] # "none" => pc[r] = "run"

(***************************************************************************)
(* While a request is under way its replica has its engine and its cache   *)
(* backend: they are opened before the first request comes and closed      *)
(* after the last one has gone.                                            *)
(***************************************************************************)
ServedWhileOpen ==
  \A r \in Requests : pc[r] \in Active => {"engine", "cache"} \subseteq open[Home(r)]

NothingLeftOpen == Life!NothingLeftOpen

=============================================================================
