---------------------------- MODULE ConnectionPool ----------------------------
(***************************************************************************)
(* The connection pool of one or more replicas, as DatabaseManager.execute *)
(* (src/src/dbt_graphql/compiler/connection.py) uses it: `async with       *)
(* engine.connect()` waits in line while size + max_overflow connections   *)
(* are out, raises TimeoutError when the wait was too long, and gives the  *)
(* connection back however the block is left.  The pool itself is          *)
(* SQLAlchemy's; a replica has one of its own (docs/configuration.md:64).  *)
(***************************************************************************)
EXTENDS Naturals, FiniteSets

CONSTANTS
  Clients,      \* the callers of execute
  Replicas,     \* the server processes, each the set of the clients it serves
  Capacity,     \* PoolConfig.size + PoolConfig.max_overflow
  PoolTimeout,  \* PoolConfig.timeout, in seconds
  QueryTime,    \* the longest a query takes, in seconds, ...
  Hung          \* ... except for these clients, which may take for ever

VARIABLES
  conn,   \* what each client has of the pool: nothing, a place in line, a connection
  left    \* seconds a client in line goes on waiting, or its query goes on running

poolVars == <<conn, left>>

-----------------------------------------------------------------------------

PoolInit ==
  /\ conn = [c \in Clients |-> "none"]
  /\ left = [c \in Clients |-> 0]

Home(c) == CHOOSE p \in Replicas : c \in p

(* The connections of c's replica that are checked out. *)
CheckedOut(c) == {d \in Home(c) : conn[d] = "held"}

HasRoomAtTheLimit(c) == Cardinality(CheckedOut(c)) <= Capacity   \* mutant

HasRoom(c) == Cardinality(CheckedOut(c)) < Capacity

(* Entering engine.connect(). *)
Ask(c) ==
  /\ conn[c] = "none"
  /\ conn' = [conn EXCEPT ![c] = "line"]
  /\ left' = [left EXCEPT ![c] = PoolTimeout]

(* Whoever is first to ask when there is room gets it: newcomers overtake. *)
Checkout(c) ==
  /\ conn[c] = "line"
  /\ HasRoom(c)
  /\ conn' = [conn EXCEPT ![c] = "held"]
  /\ left' = [left EXCEPT ![c] = QueryTime]

(* The end of the block, normally or by an exception. *)
Checkin(c) ==
  /\ conn[c] = "held"
  /\ conn' = [conn EXCEPT ![c] = "none"]
  /\ left' = [left EXCEPT ![c] = 0]

(* The wait is over: TimeoutError, even if a connection came back just now. *)
GiveUp(c) ==
  /\ conn[c] = "line"
  /\ left[c] = 0
  /\ conn' = [conn EXCEPT ![c] = "none"]
  /\ UNCHANGED left

(* The process of these clients dies; its sockets close with it. *)
Drop(cs) ==
  /\ conn' = [c \in Clients |-> IF c \in cs THEN "none" ELSE conn[c]]
  /\ left' = [c \in Clients |-> IF c \in cs THEN 0 ELSE left[c]]

Second ==
  /\ left' = [c \in Clients |-> IF left[c] = 0 THEN 0 ELSE left[c] - 1]
  /\ UNCHANGED conn

(* A step of the pool or of the warehouse that is due before time passes. *)
Due(c) ==
  \/ conn[c] # "none" /\ left[c] = 0
  \/ conn[c] = "line" /\ HasRoom(c)

-----------------------------------------------------------------------------

PoolTypeOK ==
  /\ conn \in [Clients -> {"none", "line", "held"}]
  /\ left \in [Clients -> 0 .. PoolTimeout + QueryTime]
  /\ \A c \in Clients : Cardinality(CheckedOut(c)) <= Capacity

=============================================================================
