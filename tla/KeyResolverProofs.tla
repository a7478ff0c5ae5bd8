--------------------------- MODULE KeyResolverProofs ---------------------------
(***************************************************************************)
(* Proofs about KeyResolver for any number of requests and keys, any ttl   *)
(* and any fetch timeout.  Staleness is a budget: a key set that is wrong  *)
(* about a key has been so for at most FetchTimeout when it is stored, and *)
(* each further second comes off its ttl; an answer on its way spends the  *)
(* patience of its fetch.                                                  *)
(***************************************************************************)
EXTENDS KeyResolver, SequenceTheorems, TLAPS

Typed ==
  /\ pc \in [Requests -> {"idle", "waiting", "fetching", "reading"} \cup Ended]
  /\ token \in [Requests -> Keys \cup {None}]
  /\ waiting \in Seq(Requests)
  /\ holder \in Requests \cup {None}
  /\ left \in 0 .. Ttl
  /\ patience \in 0 .. FetchTimeout
  /\ since \in [Keys -> 0 .. Window + 1]
  /\ published \in SUBSET Keys
  /\ keyset # None => keyset \in SUBSET Keys
  /\ response # None => response \in SUBSET Keys

(* The lock is held by the one request that fetches. *)
HolderFetches ==
  /\ \A r \in Requests : pc[r] \in {"fetching", "reading"} <=> holder = r
  /\ \A r \in Requests : pc[r] = "reading" => response # None
  /\ holder = None => response = None

-----------------------------------------------------------------------------

(* Each seconds-count of a wrong key stays within what is left of its budget. *)
Budget ==
  \A k \in Keys :
    /\ response # None /\ (k \in response <=> k \notin published)
         => since[k] + patience <= FetchTimeout
    /\ keyset # None /\ left > 0 /\ (k \in keyset <=> k \notin published)
         => since[k] + left <= Window

Inv == Typed /\ HolderFetches /\ Budget

LEMMA InvInit == Init => Inv
  BY KeyResolverAssumption, EmptySeq
     DEF Init, Inv, Typed, HolderFetches, Budget, Window

LEMMA NextTyped ==
  ASSUME Typed, Awoken
  PROVE  Next1 \in Requests /\ Tail(waiting) \in Seq(Requests)
  BY DEF Typed, Awoken, Next1

LEMMA InvNext == Inv /\ [Next]_vars => Inv'
<1> SUFFICES ASSUME Inv, [Next]_vars PROVE Inv'
  OBVIOUS
<1> USE KeyResolverAssumption
<1> USE DEF Inv
<1>1. ASSUME NEW r \in Requests, NEW k \in Keys, ArriveFresh(r, k) PROVE Inv'
  BY <1>1 DEF ArriveFresh, Typed, HolderFetches, Budget, Verdict, Ended
<1>2. ASSUME NEW r \in Requests, NEW k \in Keys, ArriveFirst(r, k) PROVE Inv'
  BY <1>2 DEF ArriveFirst, BeginFetch, Typed, HolderFetches, Budget, Ended
<1>3. ASSUME NEW r \in Requests, NEW k \in Keys, ArriveLate(r, k) PROVE Inv'
  <2>1. Append(waiting, r) \in Seq(Requests)
    BY DEF Typed
  <2>2. QED BY <1>3, <2>1 DEF ArriveLate, Typed, HolderFetches, Budget, Ended
<1>4. CASE WakeFresh
  <2>1. Next1 \in Requests /\ Tail(waiting) \in Seq(Requests)
    BY <1>4, NextTyped DEF WakeFresh
  <2>2. QED BY <1>4, <2>1 DEF WakeFresh, Awoken, Typed, HolderFetches, Budget, Verdict, Ended
<1>5. CASE WakeStale
  <2>1. Next1 \in Requests /\ Tail(waiting) \in Seq(Requests)
    BY <1>5, NextTyped DEF WakeStale
  <2>2. QED BY <1>5, <2>1 DEF WakeStale, Awoken, BeginFetch, Typed, HolderFetches, Budget, Ended
<1>6. ASSUME NEW r \in Requests, ProviderAnswers(r) PROVE Inv'
  BY <1>6 DEF ProviderAnswers, Typed, HolderFetches, Budget, Ended
<1>7. ASSUME NEW r \in Requests, FetchReturns(r) PROVE Inv'
  <2>1. Typed'
    BY <1>7 DEF FetchReturns, Typed, HolderFetches, Verdict, Ended
  <2>2. HolderFetches'
    BY <1>7 DEF FetchReturns, Typed, HolderFetches, Verdict, Ended
  <2>3. Budget'
    BY <1>7 DEF FetchReturns, Typed, HolderFetches, Budget, Window
  <2>4. QED BY <2>1, <2>2, <2>3
<1>8. ASSUME NEW r \in Requests, FetchFails(r) \/ CancelFetch(r) PROVE Inv'
  BY <1>8 DEF FetchFails, CancelFetch, Typed, HolderFetches, Budget, Ended
<1>9. ASSUME NEW r \in Requests, CancelWait(r) PROVE Inv'
  <2>1. waiting' \in Seq(Requests)
    <3>1. PICK i \in 1 .. Len(waiting) :
            waiting' = SubSeq(waiting, 1, i - 1) \o SubSeq(waiting, i + 1, Len(waiting))
      BY <1>9 DEF CancelWait
    <3>2. waiting \in Seq(Requests) /\ Len(waiting) \in Nat
      BY DEF Typed
    <3>3. SubSeq(waiting, 1, i - 1) \in Seq(Requests)
      BY <3>2, SubSeqProperties
    <3>4. SubSeq(waiting, i + 1, Len(waiting)) \in Seq(Requests)
      BY <3>2, SubSeqProperties
    <3>5. QED BY <3>1, <3>3, <3>4, ConcatProperties
  <2>2. QED BY <1>9, <2>1 DEF CancelWait, Typed, HolderFetches, Budget, Ended
<1>10. ASSUME NEW k \in Keys, Publish(k) \/ Retire(k) PROVE Inv'
  <2>1. Typed' /\ HolderFetches'
    BY <1>10 DEF Publish, Retire, Typed, HolderFetches, Window
  <2>2. Budget'
    BY <1>10 DEF Publish, Retire, Typed, HolderFetches, Budget, Window
  <2>3. QED BY <2>1, <2>2
<1>11. CASE Tick
  <2>1. \A k \in Keys : since'[k] \in 0 .. Window + 1 /\ since'[k] <= since[k] + 1
    BY <1>11 DEF Tick, Typed, Older, Window
  <2>2. Typed' /\ HolderFetches'
    BY <1>11, <2>1 DEF Tick, Typed, HolderFetches
  <2>3. Budget'
    <3> SUFFICES ASSUME NEW k \in Keys
                 PROVE  /\ response' # None /\ (k \in response' <=> k \notin published')
                             => since'[k] + patience' <= FetchTimeout
                        /\ keyset' # None /\ left' > 0 /\ (k \in keyset' <=> k \notin published')
                             => since'[k] + left' <= Window
      BY DEF Budget
    <3>1. since[k] \in Nat /\ since'[k] \in Nat /\ since'[k] <= since[k] + 1
      BY <2>1 DEF Typed, Window
    <3>2. CASE response' # None /\ (k \in response' <=> k \notin published')
      <4>1. patience > 0 /\ patience' = patience - 1
        BY <1>11, <3>2 DEF Tick, HolderFetches
      <4>2. since[k] + patience <= FetchTimeout
        BY <1>11, <3>2 DEF Tick, Budget
      <4>3. patience \in Nat
        BY DEF Typed
      <4>4. since'[k] + patience' <= FetchTimeout
        BY <3>1, <4>1, <4>2, <4>3
      <4>5. since[k] + left <= Window \/ left = 0 \/ keyset = None
              \/ ~(k \in keyset <=> k \notin published)
        BY DEF Budget, Typed
      <4>6. QED BY <1>11, <3>1, <4>4, <4>5 DEF Tick, Typed, Window
    <3>3. CASE ~(response' # None /\ (k \in response' <=> k \notin published'))
      <4>1. since[k] + left <= Window \/ left = 0 \/ keyset = None
              \/ ~(k \in keyset <=> k \notin published)
        BY DEF Budget, Typed
      <4>2. QED BY <1>11, <3>1, <3>3, <4>1 DEF Tick, Typed, Window
    <3>4. QED BY <3>2, <3>3
  <2>4. QED BY <2>2, <2>3
<1>12. CASE UNCHANGED vars
  BY <1>12 DEF vars, Typed, HolderFetches, Budget
<1>13. QED BY <1>1, <1>2, <1>3, <1>4, <1>5, <1>6, <1>7, <1>8, <1>9, <1>10, <1>11, <1>12
          DEF Next, Arrive, EndFetch

LEMMA InvAlways == Spec => []Inv
  BY InvInit, InvNext, PTL DEF Spec

(***************************************************************************)
(* The provider never has two fetches of this process to answer.           *)
(***************************************************************************)
THEOREM OneFetchAlways == Spec => []OneFetchAtATime
<1>1. Inv => OneFetchAtATime
  BY DEF Inv, HolderFetches, OneFetchAtATime
<1>2. QED BY <1>1, InvAlways, PTL

(* Whoever is decided is decided by keys that are at most Window seconds old. *)
LEMMA DecidedByRecentKeys ==
  ASSUME Inv, Rotating, [Next]_vars, NEW r \in Requests, Decided(r),
         pc'[r] \in {"accepted", "rejected"}
  PROVE  \E ks \in SUBSET Keys :
           /\ pc'[r] = Verdict(token'[r], ks)
           /\ \A k \in Keys : (k \in ks <=> k \notin published) => since[k] <= Window
<1> USE KeyResolverAssumption
<1>1. ASSUME Fresh
      PROVE  /\ keyset \in SUBSET Keys
             /\ \A k \in Keys : (k \in keyset <=> k \notin published) => since[k] <= Window
  BY <1>1 DEF Inv, Typed, Budget, Fresh, Window
<1>2. ASSUME response # None
      PROVE  /\ response \in SUBSET Keys
             /\ \A k \in Keys : (k \in response <=> k \notin published) => since[k] <= Window
  BY <1>2 DEF Inv, Typed, Budget, Window
<1>3. \/ Fresh /\ pc'[r] = Verdict(token'[r], keyset)
      \/ response # None /\ pc'[r] = Verdict(token'[r], response)
  <2>1. ASSUME NEW q \in Requests, NEW k \in Keys, ArriveFresh(q, k)
        PROVE  Fresh /\ pc'[r] = Verdict(token'[r], keyset)
    BY <2>1 DEF ArriveFresh, Decided, Inv, Typed
  <2>2. CASE WakeFresh
    <3>1. Next1 \in Requests
      BY <2>2, NextTyped DEF WakeFresh, Inv
    <3>2. QED BY <2>2, <3>1 DEF WakeFresh, Decided, Inv, Typed
  <2>3. ASSUME NEW q \in Requests, FetchReturns(q)
        PROVE  response # None /\ pc'[r] = Verdict(token'[r], response)
    BY <2>3 DEF FetchReturns, Decided, Inv, Typed, HolderFetches
  <2>4. ASSUME NEW q \in Requests, NEW k \in Keys, ArriveFirst(q, k) \/ ArriveLate(q, k)
        PROVE  FALSE
    BY <2>4 DEF ArriveFirst, ArriveLate, BeginFetch, Decided, Ended, Inv, Typed
  <2>5. CASE WakeStale
    BY <2>5 DEF WakeStale, BeginFetch, Decided, Ended, Inv, Typed
  <2>6. ASSUME NEW q \in Requests, ProviderAnswers(q) \/ FetchFails(q) \/ CancelFetch(q)
                                     \/ CancelWait(q)
        PROVE  FALSE
    BY <2>6 DEF ProviderAnswers, FetchFails, CancelFetch, CancelWait, Decided, Ended, Inv, Typed
  <2>7. CASE Tick \/ UNCHANGED vars \/ \E k \in Keys : Publish(k) \/ Retire(k)
    BY <2>7 DEF Tick, vars, Publish, Retire, Decided
  <2>8. QED BY <2>1, <2>2, <2>3, <2>4, <2>5, <2>6, <2>7 DEF Next, Arrive, EndFetch
<1>4. QED BY <1>1, <1>2, <1>3

(***************************************************************************)
(* A retired key lapses within the ttl and the time of one fetch.          *)
(***************************************************************************)
THEOREM RetiredKeysLapseAlways ==
  ASSUME Rotating PROVE Spec => RetiredKeysLapse
<1>1. Inv /\ [Next]_vars =>
        \A r \in Requests :
          Decided(r) /\ pc'[r] = "accepted" /\ token'[r] \notin published
            => since[token'[r]] <= Window
  BY DecidedByRecentKeys DEF Verdict
<1>2. QED BY <1>1, InvAlways, PTL DEF Spec, RetiredKeysLapse

(***************************************************************************)
(* A new key is known within that time.                                    *)
(***************************************************************************)
THEOREM NewKeysAreNoticedAlways ==
  ASSUME Rotating PROVE Spec => NewKeysAreNoticed
<1>1. Inv /\ [Next]_vars =>
        \A r \in Requests :
          Decided(r) /\ pc'[r] = "rejected" /\ token'[r] \in published
            => since[token'[r]] <= Window
  BY DecidedByRecentKeys DEF Verdict, Inv, Typed
<1>2. QED BY <1>1, InvAlways, PTL DEF Spec, NewKeysAreNoticed

(***************************************************************************)
(* Nobody fetches while the keys are fresh.                                *)
(***************************************************************************)
THEOREM NoFetchWhileFreshAlways == Spec => NoFetchWhileFresh
<1>1. Inv /\ [Next]_vars =>
        (Fresh => \A r \in Requests : pc'[r] = "fetching" => pc[r] = "fetching")
  <2> SUFFICES ASSUME Inv, [Next]_vars, Fresh, NEW r \in Requests, pc'[r] = "fetching"
               PROVE  pc[r] = "fetching"
    OBVIOUS
  <2>1. CASE WakeFresh
    <3>1. Next1 \in Requests
      BY <2>1, NextTyped DEF WakeFresh, Inv
    <3>2. QED BY <2>1, <3>1 DEF WakeFresh, Inv, Typed, Verdict
  <2>2. CASE WakeStale
    BY <2>2 DEF WakeStale
  <2>3. ASSUME NEW q \in Requests, NEW k \in Keys, Arrive(q, k) PROVE pc[r] = "fetching"
    BY <2>3 DEF Arrive, ArriveFresh, ArriveFirst, ArriveLate, Verdict, Inv, Typed
  <2>4. ASSUME NEW q \in Requests,
               ProviderAnswers(q) \/ EndFetch(q) \/ CancelFetch(q) \/ CancelWait(q)
        PROVE  pc[r] = "fetching"
    BY <2>4 DEF ProviderAnswers, EndFetch, FetchReturns, FetchFails, CancelFetch, CancelWait,
               Verdict, Inv, Typed
  <2>5. CASE Tick \/ UNCHANGED vars \/ \E k \in Keys : Publish(k) \/ Retire(k)
    BY <2>5 DEF Tick, vars, Publish, Retire
  <2>6. QED BY <2>1, <2>2, <2>3, <2>4, <2>5 DEF Next
<1>2. QED BY <1>1, InvAlways, PTL DEF Spec, NoFetchWhileFresh

(***************************************************************************)
(* Type correctness.                                                       *)
(***************************************************************************)
THEOREM TypeCorrect == Spec => []TypeOK
<1>1. Inv => TypeOK
  BY DEF Inv, Typed, TypeOK
<1>2. QED BY <1>1, InvAlways, PTL

=============================================================================
