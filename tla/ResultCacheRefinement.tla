------------------------ MODULE ResultCacheRefinement ------------------------
(***************************************************************************)
(* ResultCache implements SharedFetch: the refinement mapping.             *)
(***************************************************************************)
EXTENDS ResultCache

(* A request whose runner raised has nothing to return. *)
AbsStatus(r) ==
  CASE pc[r] = "idle" -> "idle"
    [] pc[r] \in {"lookup", "lock", "recheck", "run", "store"} -> "asking"
    [] pc[r] \in {"unlock", "done"} /\ response[r] # None -> "decided"
    [] OTHER -> "lost"

(* A result that has been read is the caller's answer once it is stored. *)
AbsAnswer(r) == IF AbsStatus(r) = "decided" THEN response[r] ELSE None

AbsFetch(s) ==
  IF \E r \in Requests : Fetching(r) /\ stmt[r] = s
    THEN LET r == CHOOSE q \in Requests : Fetching(q) /\ stmt[q] = s
         IN  [by |-> r, read |-> IF pc[r] = "store" THEN response[r] ELSE None]
    ELSE [by |-> None, read |-> None]

AbsFresh(s) == IF Present(store[Key(s)]) THEN store[Key(s)].result ELSE None

MappedStatus == [r \in Requests |-> AbsStatus(r)]

MappedAnswer == [r \in Requests |-> AbsAnswer(r)]

MappedFetch == [s \in Statements |-> AbsFetch(s)]

MappedFresh == [s \in Statements |-> AbsFresh(s)]

Abstract == INSTANCE SharedFetch WITH
  status <- MappedStatus, want <- stmt, answer <- MappedAnswer,
  fetch <- MappedFetch, fresh <- MappedFresh

(***************************************************************************)
(* Every behaviour of the cache, seen through the mapping, is a behaviour  *)
(* of SharedFetch: keys stand for statements one to one, lock and re-check *)
(* amount to one fetch at a time, and expiry and eviction only make        *)
(* results lapse.                                                          *)
(***************************************************************************)
ImplementsSharedFetch == Abstract!SharedFetchSpec

=============================================================================
