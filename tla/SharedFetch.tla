----------------------------- MODULE SharedFetch -----------------------------
(***************************************************************************)
(* What the result cache promises, without keys, locks or timers: callers  *)
(* ask for the rows of a statement; for each statement at most one fetch   *)
(* from the warehouse is under way; a finished fetch answers its own caller *)
(* and everyone who asks until the result lapses; a fetch is begun only    *)
(* when there is no result to share.  ResultCache implements this under    *)
(* the faults that leave its locks alone.                                  *)
(***************************************************************************)
EXTENDS Naturals

CONSTANTS Requests, Statements, MaxVersion, None

VARIABLES
  status,   \* "idle", "asking", "decided" or "lost", for each caller
  want,     \* the statement a caller asked for
  answer,   \* the result decided on for a caller
  fetch,    \* for each statement, who is fetching it and what was read so far
  fresh,    \* for each statement, the result being shared
  version   \* the current version of the warehouse data

svars == <<status, want, answer, fetch, fresh, version>>

NoFetch == [by |-> None, read |-> None]

Init ==
  /\ status = [r \in Requests |-> "idle"]
  /\ want = [r \in Requests |-> None]
  /\ answer = [r \in Requests |-> None]
  /\ fetch = [s \in Statements |-> NoFetch]
  /\ fresh = [s \in Statements |-> None]
  /\ version = 0

Ask(r, s) ==
  /\ status[r] = "idle"
  /\ want' = [want EXCEPT ![r] = s]
  /\ status' = [status EXCEPT ![r] = "asking"]
  /\ UNCHANGED <<answer, fetch, fresh, version>>

(* One who fetches does not share. *)
Share(r) ==
  /\ status[r] = "asking"
  /\ fetch[want[r]].by # r
  /\ fresh[want[r]] # None
  /\ answer' = [answer EXCEPT ![r] = fresh[want[r]]]
  /\ status' = [status EXCEPT ![r] = "decided"]
  /\ UNCHANGED <<want, fetch, fresh, version>>

BeginFetch(r) ==
  /\ status[r] = "asking"
  /\ fetch[want[r]] = NoFetch
  /\ fresh[want[r]] = None
  /\ fetch' = [fetch EXCEPT ![want[r]].by = r]
  /\ UNCHANGED <<status, want, answer, fresh, version>>

Read(s) ==
  /\ fetch[s].by # None
  /\ fetch[s].read = None
  /\ fetch' = [fetch EXCEPT ![s].read = [stmt |-> s, version |-> version]]
  /\ UNCHANGED <<status, want, answer, fresh, version>>

EndFetch(s) ==
  /\ fetch[s].read # None
  /\ fresh' = [fresh EXCEPT ![s] = fetch[s].read]
  /\ answer' = [answer EXCEPT ![fetch[s].by] = fetch[s].read]
  /\ status' = [status EXCEPT ![fetch[s].by] = "decided"]
  /\ fetch' = [fetch EXCEPT ![s] = NoFetch]
  /\ UNCHANGED <<want, version>>

(* Callers give up: a query failed, or a process died with all of its own. *)
Lose(R) ==
  /\ \A r \in R : status[r] \in {"asking", "decided"}
  /\ status' = [r \in Requests |-> IF r \in R THEN "lost" ELSE status[r]]
  /\ answer' = [r \in Requests |-> IF r \in R THEN None ELSE answer[r]]
  /\ fetch' = [s \in Statements |-> IF fetch[s].by \in R THEN NoFetch ELSE fetch[s]]
  /\ UNCHANGED <<want, fresh, version>>

Lapse ==
  /\ \E S \in SUBSET Statements :
       fresh' = [s \in Statements |-> IF s \in S THEN None ELSE fresh[s]]
  /\ UNCHANGED <<status, want, answer, fetch, version>>

Write ==
  /\ version' = version + 1
  /\ UNCHANGED <<status, want, answer, fetch, fresh>>

Next ==
  \/ \E r \in Requests, s \in Statements : Ask(r, s)
  \/ \E r \in Requests : Share(r) \/ BeginFetch(r)
  \/ \E R \in SUBSET Requests : Lose(R)
  \/ \E s \in Statements : Read(s) \/ EndFetch(s)
  \/ Lapse
  \/ Write

SharedFetchSpec == Init /\ [][Next]_svars

=============================================================================
