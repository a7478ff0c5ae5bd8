----------------------------- MODULE KeyResolver -----------------------------
(***************************************************************************)
(* Where JWT verification gets its keys: JWKSResolver.get (a key set kept  *)
(* for a ttl, refetched under an asyncio lock) and, with Rotating = FALSE, *)
(* _LazyURLResolver.get (one key fetched on first use and kept), called by *)
(* Verifier.verify for each request that carries a bearer token.           *)
(*                                                                         *)
(* Everything runs on one event loop, so a coroutine is only interrupted   *)
(* where it awaits: for the lock and for the identity provider's answer.   *)
(* The provider publishes and retires keys at any time.  A token stands    *)
(* for the key that signed it.                                             *)
(***************************************************************************)
EXTENDS Naturals, Sequences, FiniteSets

CONSTANTS
  Requests,      \* requests with a bearer token
  Keys,          \* signing keys
  Ttl,           \* jwks_cache_ttl, in seconds
  FetchTimeout,  \* seconds a fetch takes at most (5 for each of its reads)
  Rotating,      \* whether the key set expires
  None           \* no key set, no request, no token

ASSUME KeyResolverAssumption ==
  /\ Ttl \in Nat
  /\ FetchTimeout \in Nat
  /\ Rotating \in BOOLEAN
  /\ None \notin Requests /\ None \notin Keys /\ \A S \in SUBSET Keys : S # None

VARIABLES
  pc,         \* where each request is
  token,      \* the key that signed its token
  holder,     \* the coroutine that holds _lock
  waiting,    \* the coroutines in line for it
  keyset,     \* _keyset
  left,       \* seconds until _expires_at
  response,   \* the provider's answer on its way to the holder
  patience,   \* seconds left to the fetch under way
  published,  \* the provider's current keys
  since       \* history: seconds since a key was published or retired

vars == <<pc, token, holder, waiting, keyset, left, response, patience, published, since>>

-----------------------------------------------------------------------------

FreshOnceFetched == keyset # None   \* mutant

Fresh == keyset # None /\ (Rotating => left > 0)

(* jwt.decode with a key set: a token signed by a key outside it is invalid. *)
Verdict(k, ks) == IF k \in ks THEN "accepted" ELSE "rejected"

Ended == {"accepted", "rejected", "unavailable", "cancelled"}

(* A retired or new key is noticed within this time. *)
Window == Ttl + FetchTimeout

Init ==
  /\ pc = [r \in Requests |-> "idle"]
  /\ token = [r \in Requests |-> None]
  /\ holder = None
  /\ waiting = <<>>
  /\ keyset = None
  /\ left = 0
  /\ response = None
  /\ patience = 0
  /\ published \in SUBSET Keys
  /\ since = [k \in Keys |-> Window + 1]

-----------------------------------------------------------------------------
(* Requests. *)

(* The fast path and, if the lock is free, the way to the fetch do not await. *)
ArriveFresh(r, k) ==
  /\ pc[r] = "idle"
  /\ Fresh
  /\ pc' = [pc EXCEPT ![r] = Verdict(k, keyset)]
  /\ token' = [token EXCEPT ![r] = k]
  /\ UNCHANGED <<holder, waiting, keyset, left, response, patience, published, since>>

BeginFetch(r) ==
  /\ holder' = r
  /\ patience' = FetchTimeout
  /\ pc' = [pc EXCEPT ![r] = "fetching"]

ArriveFirst(r, k) ==
  /\ pc[r] = "idle"
  /\ ~Fresh
  /\ holder = None /\ waiting = <<>>
  /\ token' = [token EXCEPT ![r] = k]
  /\ BeginFetch(r)
  /\ UNCHANGED <<waiting, keyset, left, response, published, since>>

(* asyncio.Lock is fair: whoever finds others in line joins the line. *)
ArriveLate(r, k) ==
  /\ pc[r] = "idle"
  /\ ~Fresh
  /\ ~(holder = None /\ waiting = <<>>)
  /\ token' = [token EXCEPT ![r] = k]
  /\ waiting' = Append(waiting, r)
  /\ pc' = [pc EXCEPT ![r] = "waiting"]
  /\ UNCHANGED <<holder, keyset, left, response, patience, published, since>>

Next1 == Head(waiting)

Awoken == holder = None /\ waiting # <<>>

(* The second look, under the lock: somebody else has fetched. *)
WakeFresh ==
  /\ Awoken
  /\ Fresh
  /\ pc' = [pc EXCEPT ![Next1] = Verdict(token[Next1], keyset)]
  /\ waiting' = Tail(waiting)
  /\ UNCHANGED <<token, holder, keyset, left, response, patience, published, since>>

(* Mutant: no second look. *)
WakeAndFetch ==
  /\ Awoken
  /\ BeginFetch(Next1)
  /\ waiting' = Tail(waiting)
  /\ UNCHANGED <<token, keyset, left, response, published, since>>

WakeStale ==
  /\ Awoken
  /\ ~Fresh
  /\ BeginFetch(Next1)
  /\ waiting' = Tail(waiting)
  /\ UNCHANGED <<token, keyset, left, response, published, since>>

(* The provider answers with the keys it has now; the answer travels. *)
ProviderAnswers(r) ==
  /\ pc[r] = "fetching"
  /\ pc' = [pc EXCEPT ![r] = "reading"]
  /\ response' = published
  /\ UNCHANGED <<token, holder, waiting, keyset, left, patience, published, since>>

(* Mutant: the time the fetch took is added to the ttl. *)
FetchReturnsLater(r) ==
  /\ pc[r] = "reading"
  /\ keyset' = response
  /\ left' = Ttl + FetchTimeout - patience
  /\ response' = None
  /\ holder' = None
  /\ pc' = [pc EXCEPT ![r] = Verdict(token[r], response)]
  /\ UNCHANGED <<token, waiting, patience, published, since>>

FetchReturns(r) ==
  /\ pc[r] = "reading"
  /\ keyset' = response
  /\ left' = Ttl
  /\ response' = None
  /\ holder' = None
  /\ pc' = [pc EXCEPT ![r] = Verdict(token[r], response)]
  /\ UNCHANGED <<token, waiting, patience, published, since>>

(* Mutant: the key set that expired is given another ttl. *)
FetchFailsServingOld(r) ==
  /\ pc[r] \in {"fetching", "reading"}
  /\ left' = IF keyset = None THEN left ELSE Ttl
  /\ response' = None
  /\ holder' = None
  /\ pc' = [pc EXCEPT ![r] = "unavailable"]
  /\ UNCHANGED <<token, waiting, keyset, patience, published, since>>

(* Mutant: the lock is not released on the error path. *)
FetchFailsHoldingLock(r) ==
  /\ pc[r] \in {"fetching", "reading"}
  /\ response' = None
  /\ pc' = [pc EXCEPT ![r] = "unavailable"]
  /\ UNCHANGED <<token, holder, waiting, keyset, left, patience, published, since>>

(* Timeout, HTTP error or a body that is no key set: 401 jwks_fetch_failure. *)
FetchFails(r) ==
  /\ pc[r] \in {"fetching", "reading"}
  /\ response' = None
  /\ holder' = None
  /\ pc' = [pc EXCEPT ![r] = "unavailable"]
  /\ UNCHANGED <<token, waiting, keyset, left, patience, published, since>>

(* The request's task is cancelled while it awaits. *)
CancelFetch(r) ==
  /\ pc[r] \in {"fetching", "reading"}
  /\ response' = None
  /\ holder' = None
  /\ pc' = [pc EXCEPT ![r] = "cancelled"]
  /\ UNCHANGED <<token, waiting, keyset, left, patience, published, since>>

CancelWait(r) ==
  /\ pc[r] = "waiting"
  /\ \E i \in 1 .. Len(waiting) :
       /\ waiting[i] = r
       /\ waiting' = SubSeq(waiting, 1, i - 1) \o SubSeq(waiting, i + 1, Len(waiting))
  /\ pc' = [pc EXCEPT ![r] = "cancelled"]
  /\ UNCHANGED <<token, holder, keyset, left, response, patience, published, since>>

-----------------------------------------------------------------------------
(* The provider and the clock. *)

Publish(k) ==
  /\ k \notin published
  /\ published' = published \cup {k}
  /\ since' = [since EXCEPT ![k] = 0]
  /\ UNCHANGED <<pc, token, holder, waiting, keyset, left, response, patience>>

Retire(k) ==
  /\ k \in published
  /\ published' = published \ {k}
  /\ since' = [since EXCEPT ![k] = 0]
  /\ UNCHANGED <<pc, token, holder, waiting, keyset, left, response, patience>>

Older(s) == IF s > Window THEN s ELSE s + 1

(* A fetch is over when its time is up. *)
Tick ==
  /\ holder # None => patience > 0
  /\ left' = IF left = 0 THEN 0 ELSE left - 1
  /\ patience' = IF holder = None THEN patience ELSE patience - 1
  /\ since' = [k \in Keys |-> Older(since[k])]
  /\ UNCHANGED <<pc, token, holder, waiting, keyset, response, published>>

-----------------------------------------------------------------------------

Arrive(r, k) == ArriveFresh(r, k) \/ ArriveFirst(r, k) \/ ArriveLate(r, k)

EndFetch(r) == FetchReturns(r) \/ FetchFails(r)

Next ==
  \/ \E r \in Requests, k \in Keys : Arrive(r, k)
  \/ WakeFresh \/ WakeStale
  \/ \E r \in Requests : ProviderAnswers(r) \/ EndFetch(r)
  \/ \E r \in Requests : CancelFetch(r) \/ CancelWait(r)
  \/ \E k \in Keys : Publish(k) \/ Retire(k)
  \/ Tick

Spec == Init /\ [][Next]_vars

(***************************************************************************)
(* The loop wakes whoever got the lock; a fetch ends, with an answer or by *)
(* the client's timeout.                                                   *)
(***************************************************************************)
FairSpec ==
  /\ Spec
  /\ WF_vars(WakeFresh \/ WakeStale)
  /\ \A r \in Requests : WF_vars(EndFetch(r))

-----------------------------------------------------------------------------
(* Properties. *)

TypeOK ==
  /\ pc \in [Requests -> {"idle", "waiting", "fetching", "reading"} \cup Ended]
  /\ token \in [Requests -> Keys \cup {None}]
  /\ holder \in Requests \cup {None}
  /\ waiting \in Seq(Requests)
  /\ keyset \in {None} \cup SUBSET Keys
  /\ left \in 0 .. Ttl
  /\ response \in {None} \cup SUBSET Keys
  /\ patience \in 0 .. FetchTimeout
  /\ published \in SUBSET Keys
  /\ since \in [Keys -> 0 .. Window + 1]

(***************************************************************************)
(* Refetches are coalesced by the lock: the provider never has two         *)
(* requests of this process to answer.                                     *)
(***************************************************************************)
OneFetchAtATime ==
  \A r, q \in Requests :
    pc[r] \in {"fetching", "reading"} /\ pc[q] \in {"fetching", "reading"} => r = q

(***************************************************************************)
(* Nobody fetches what somebody has just fetched, above all not the        *)
(* requests that waited for that fetch.                                    *)
(***************************************************************************)
NoFetchWhileFresh ==
  [][Fresh => \A r \in Requests : pc'[r] = "fetching" => pc[r] = "fetching"]_vars

Decided(r) == pc[r] \notin Ended /\ pc'[r] \in Ended

(***************************************************************************)
(* A key the provider has retired is accepted for at most the ttl and the  *)
(* time a fetch may take, across outages and cancelled fetches.            *)
(***************************************************************************)
RetiredKeysLapse ==
  [][\A r \in Requests :
       Decided(r) /\ pc'[r] = "accepted" /\ token'[r] \notin published
         => since[token'[r]] <= Window]_vars

(***************************************************************************)
(* A token signed with a key the provider has had for longer than that is  *)
(* never taken for invalid: it is accepted, or the keys are unavailable.   *)
(***************************************************************************)
NewKeysAreNoticed ==
  [][\A r \in Requests :
       Decided(r) /\ pc'[r] = "rejected" /\ token'[r] \in published
         => since[token'[r]] <= Window]_vars

(***************************************************************************)
(* Each request is decided, whatever befalls the ones before it in line.   *)
(***************************************************************************)
EveryRequestIsDecided ==
  \A r \in Requests : pc[r] = "waiting" ~> pc[r] \in Ended

=============================================================================
