------------------------------- MODULE Lifespan -------------------------------
(***************************************************************************)
(* The life of a server process: create_app and its lifespan               *)
(* (src/src/dbt_graphql/serve/app.py), which opens the resources of the    *)
(* process one after the other, lets uvicorn serve, and closes them one    *)
(* after the other.  Any of these steps may raise.                         *)
(***************************************************************************)
EXTENDS Naturals, Sequences

CONSTANTS
  Replicas,   \* the server processes
  MountsMcp,  \* serve.mcp_enabled
  OwnsHttp    \* keys come from a URL: build_auth_backend makes an HTTP client

VARIABLES
  phase,  \* where each process is in its life
  next,   \* the step of Startup or Shutdown that comes next
  open    \* the resources it has open

lifeVars == <<phase, next, open>>

-----------------------------------------------------------------------------

(* Before the `yield`: enter_async_context, db.connect, setup_cache. *)
Startup == <<"mcp", "engine", "cache">>

(* Mutant: the HTTP client is forgotten. *)
ShutdownWithoutHttp == <<"cache", "engine", "mcp">>

(* After it: close_cache, owned_http.aclose, db.close, then the exit stack. *)
Shutdown == <<"cache", "http", "engine", "mcp">>

Configured(x) == x = "mcp" => MountsMcp

(* create_app has made the HTTP client; the lifespan has not begun. *)
LifeInit ==
  /\ phase = [p \in Replicas |-> "starting"]
  /\ next = [p \in Replicas |-> 1]
  /\ open = [p \in Replicas |-> IF OwnsHttp THEN {"http"} ELSE {}]

(* One more resource; after the last one the application is ready. *)
Open(p) ==
  /\ phase[p] = "starting"
  /\ LET x == Startup[next[p]] IN
       open' = [open EXCEPT ![p] = IF Configured(x) THEN @ \cup {x} ELSE @]
  /\ IF next[p] = Len(Startup)
       THEN /\ phase' = [phase EXCEPT ![p] = "serving"]
            /\ next' = [next EXCEPT ![p] = 1]
       ELSE /\ next' = [next EXCEPT ![p] = @ + 1]
            /\ UNCHANGED phase

(* Mutant: MCP is entered by hand, not through the AsyncExitStack. *)
RaiseWithoutStack(p) ==
  /\ phase[p] \in {"starting", "stopping"}
  /\ phase' = [phase EXCEPT ![p] = "aborted"]
  /\ UNCHANGED <<next, open>>

(***************************************************************************)
(* A step raises: nothing after it in the lifespan runs (there is no       *)
(* try/finally around the `yield`), only the exit stack leaves MCP.        *)
(***************************************************************************)
Raise(p) ==
  /\ phase[p] \in {"starting", "stopping"}
  /\ phase' = [phase EXCEPT ![p] = "aborted"]
  /\ open' = [open EXCEPT ![p] = @ \ {"mcp"}]
  /\ UNCHANGED next

(* uvicorn was told to stop and resumes the lifespan after its `yield`. *)
Stop(p) ==
  /\ phase[p] = "serving"
  /\ phase' = [phase EXCEPT ![p] = "stopping"]
  /\ UNCHANGED <<next, open>>

Close(p) ==
  /\ phase[p] = "stopping"
  /\ open' = [open EXCEPT ![p] = @ \ {Shutdown[next[p]]}]
  /\ IF next[p] = Len(Shutdown)
       THEN /\ phase' = [phase EXCEPT ![p] = "stopped"]
            /\ UNCHANGED next
       ELSE /\ next' = [next EXCEPT ![p] = @ + 1]
            /\ UNCHANGED phase

(* The process is killed. *)
Die(p) ==
  /\ phase' = [phase EXCEPT ![p] = "dead"]
  /\ open' = [open EXCEPT ![p] = {}]
  /\ UNCHANGED next

-----------------------------------------------------------------------------
(* Properties. *)

Phases == {"starting", "serving", "stopping", "stopped", "aborted", "dead"}

LifeTypeOK ==
  /\ phase \in [Replicas -> Phases]
  /\ next \in [Replicas -> 1 .. 4]
  /\ open \in [Replicas -> SUBSET {"mcp", "http", "engine", "cache"}]

(***************************************************************************)
(* A shutdown in which no step raised leaves nothing open, and whichever   *)
(* step of startup or shutdown raised, the MCP session manager is left (it *)
(* is the only resource the lifespan guards with an exit stack).           *)
(***************************************************************************)
NothingLeftOpen ==
  \A p \in Replicas :
    /\ phase[p] = "stopped" => open[p] = {}
    /\ phase[p] = "aborted" => "mcp" \notin open[p]

=============================================================================
