# dbt-graphql in TLA+

dbt-graphql serves the tables of a dbt project as a GraphQL API. This directory
holds a specification of the parts of it in which something can go wrong that a
unit test would hardly reach: the result cache and its locks, the
access-policy engine with its row filters, the keys JWTs are verified with,
cursor pagination, the way from the relationships a dbt project declares to
the join paths an agent is told, server processes that share a cache and wait
for connections of a pool while they start, fail and stop, and the documents
clients send with the limits they are held to. TLC checks small instances, TLAPS proves the main safety
properties for all values of the constants.

Paths below are relative to the repository root; Python paths are under
`src/dbt_graphql/`.

## 1. The system

A request passes through these parts, in this order:

    HTTP / MCP -> authentication -> query guards -> resolver -> compiler
                                      (policy engine, row filters, cursor)
               -> result cache -> connection pool -> warehouse

| Component | State | Operations | Hard behaviour | What makes it correct |
|---|---|---|---|---|
| Authentication: `graphql/auth/` | key set and its expiry, a lock | `JWKSResolver.get`, `_LazyURLResolver.get`, `Verifier.verify`, `authenticate` | many requests at an expired key set, outage of the identity provider, cancelled requests, key rotation | one fetch at a time and none while the set is fresh; retired keys lapse, new ones are noticed; nobody waits for ever |
| Access policy: `graphql/policy.py`, `effective.py`, `row_filter.py` | the rules loaded at startup | load and validate, `evaluate`, `effective_registry`, `compile_row_filter` | many rules match at once; enforcement and discovery are computed apart; NULL logic | deny wins, default deny, unanimous masks, filters hold, discovery shows what queries get |
| Resolvers and cursors: `graphql/resolvers.py`, `cursors.py`, `compiler/cursor.py` | none on the server: the cursor is the state | `resolve_connection` | rows come and go between pages; cached pages; lost answers; NULLs | nothing served twice, nothing that stays is left out, the walk ends |
| Compiler: `compiler/query.py`, `operators.py` | none | `compile_query`, `compile_connection_query` | where policy, filters and cursor go | see the two rows above |
| Result cache: `cache/` | entries and locks in cashews (memory or Redis) | `execute_with_cache`, `setup_cache`, `close_cache` | concurrent misses, locks that expire, crashes, eviction | own rows only, one fetch per key, no going back in time, every call ends |
| Connection pool: `compiler/connection.py` | SQLAlchemy engine, one pool per process | `connect`, `execute`, `close` | the pool is full while cache locks are held; queries that hang | identical queries take one place, every connection comes back, a full pool refuses in time |
| Query guards: `graphql/guards.py` | none | `QueryShapeRule`, `LimitRule` | fragments, introspection and variables escape a limit or are wrongly held to it | what runs is within the limits, what is refused is not |
| Schema generation: `graphql/app.py`, `graphql/sdl/`, `schema/` | registry built at startup | generate, parse, `_sdl`, `_tables` | a round trip through SDL text | nothing lost on the way |
| MCP: `mcp/` | adjacency built at startup | `list_tables`, `describe_table`, `find_path`, `trace_column_lineage`, `run_graphql` | search by levels in a graph with cycles, policy of the tables in between | all shortest paths and no other |
| dbt pipeline: `pipeline.py`, `dbt/`, `ir/`, and the relations of `graphql/sdl/generator.py` | none | `extract_project`, `build_registry` | three sources of relationships, merged by name and then by column | what is served is stated, under its strongest origin, and nothing is lost |
| Serving: `serve/`, `cache/setup.py`, `cli.py`, `config.py` | one app per process | `create_app`, lifespan | a step of startup or shutdown fails, a process dies with requests in flight | requests run while everything is open, a shutdown closes it |
| Monitoring: `monitoring.py` | telemetry | | | |

The parts share little: the resolver asks the policy engine for a decision and
the compiler builds it into the statement, so that the *bound values* of the
caller's claims are in the statement and hence in the key of the result cache.
That makes the cache's promise to return only rows of a caller's own statement
(`OwnStatement`) and the policy's promise about the statement (`RowsPassAFilter`,
`MissingClaimFailsClosed`) together the promise a tenant cares about.
Pagination rests on the cache in turn: pages come from it and may be a ttl old.
A request waits for its connection while it holds the lock of its key in the
cache, and the locks are shared by all processes, so that the pool of one process
decides how long the requests of another one wait.
Beside the path of a request, the registry is made once from the dbt project; its
relations are what MCP discovery searches, under the same policy.

`PROJECT.json` lists the components, the hazards at their lines, and the source
lines of each definition.

## 2. The modules

| Module | Models | Composes |
|---|---|---|
| `ResultCache` | `cache/result.py`, `cache/keys.py` over an expiring store with locks | |
| `SharedFetch` | abstract: what the cache promises, without keys, locks, timers | |
| `ResultCacheRefinement` | the refinement mapping | `ResultCache` implements `SharedFetch` |
| `ResultCacheProofs` | theorems, among them the refinement | `ResultCacheRefinement` |
| `ConnectionPool` | `DatabaseManager.execute` of `compiler/connection.py` over SQLAlchemy's pool | |
| `Lifespan` | `serve/app.py`: what a process opens and closes, and when it serves | |
| `Serving` | processes with a pool each that share the cache, with crashes, shutdown, a full pool | `ResultCache` + `ConnectionPool` + `Lifespan` |
| `MCServing` | processes and requests to check with | `Serving` |
| `ServingProofs` | theorems, among them that `Serving` implements `ResultCache` | `Serving` + `ResultCacheProofs` |
| `AccessPolicy` | `graphql/policy.py`, `graphql/effective.py`, the policy's part of `compiler/query.py` | |
| `RowFilter` | `graphql/row_filter.py`, `compiler/operators.py`: validation and three-valued meaning of filter trees | |
| `AccessControl` | rows, claims, and the filters in force | `AccessPolicy` + `RowFilter` |
| `MCAccessControl` | rules, filters and callers to check with | `AccessControl` |
| `AccessControlProofs` | theorems | `AccessControl` + `Trees` |
| `KeyResolver` | `graphql/auth/keys.py`, `verifier.py`, `backend.py` | |
| `KeyResolverProofs` | theorems | `KeyResolver` |
| `Pagination` | `graphql/resolvers.py`, `graphql/cursors.py`, `compiler/cursor.py` and the SQL around it | |
| `MCPagination` | tables and queries to check with | `Pagination` |
| `PaginationProofs` | theorems | `Pagination` + `Trees` |
| `Relationships` | `dbt/processors/`, the merge of `pipeline.py`, the map of `graphql/sdl/generator.py` | |
| `Discovery` | `mcp/discovery.py` and `find_path` of `mcp/server.py` | |
| `SchemaGraph` | a server started with a project | `Relationships` + `Discovery` |
| `SchemaGraphProofs` | theorems, those of `Discovery` too | `SchemaGraph` + `Trees` |
| `MCSchemaGraph` | projects and callers to check with | `SchemaGraph` |
| `QueryDocuments` | `graphql/guards.py`, `run_graphql` of `mcp/server.py`, what resolver and compiler read of a syntax tree, the replies | |
| `MCQueryDocuments` | documents to check with | `QueryDocuments` |
| `QueryDocumentsProofs` | theorems | `QueryDocuments` + `Trees` |
| `Trees` | no code: lemmas on numbers and trees that several proofs need | |

Definitions whose comment begins with "Mutant" are plausible mistakes: put in
place of the definition they vary, they break a property. No
specification uses them.

### ResultCache

The code of `_execute_with` runs undisturbed between two awaits, so each such
stretch is an action: `FastHit`/`FastMiss` (first `cache.get`), `AcquireLock`
(entering `cache.lock`), `RecheckHit`/`RecheckMiss` (second `get`),
`RunnerReads`/`RunnerRaises` (the warehouse), `StoreResult` (`cache.set`),
`Unlock` (leaving the block). `pc` is the place in the function, `response` its
local variable, `outcome` the counter it has incremented. A result is the
statement it answers together with the version of the data it saw, which is
all that the properties need to know of rows. `store` and `lock` are cashews:
each entry has the seconds it has left, `Tick` takes one away. `Faults` switches
crashes, eviction of entries and of locks (the default backend keeps 10000 keys
of both kinds), and overrun, that is a lock that expires while its holder works.
`OwnedUnlock` says whether the backend checks the owner of a lock when it is
released: Redis does, the default `mem://` does not. `floor` and `quiet` are history variables, read by no guard.

### ConnectionPool, Lifespan, Serving

`ConnectionPool` is `async with engine.connect()`: a client asks (`Ask`), gets one
of `Capacity` connections (`Checkout`), gives it back however the block is left
(`Checkin`), or waits too long (`GiveUp`). The pool is SQLAlchemy's: it is modelled as
its docs and this code use it, with no order among those who wait. `Lifespan` runs through
`Startup` and `Shutdown`, the resources of a process in the order of the code; `Raise` is an exception in
any of those steps, after which only the exit stack does its work.

`Serving` joins the two to the requests of `ResultCache`. A replica is the set of the
requests it serves. `Receive` is a call of `execute_with_cache` in a replica that serves; `CacheStep`
are the steps of `ResultCache` without the warehouse. `runner` is `db.execute`: `AskPool`, `GetConnection`, and
`QueryAnswered`, `QueryFailed` or `Refused`, each a step of the request
and of the pool at once. `Killed` is a crash of a replica with its requests,
connections and resources; `Lives` is startup and shutdown, which waits for the
requests in flight. The step `Second` of time is taken when nobody is `Due`: a *prompt* request
goes on before a second is over unless it waits for a lock, a connection or the
warehouse. Requests of `Hung` need not. `lost` is history: the keys whose
lock was evicted. That the data changes matters to `ResultCache` alone and is
left there.

### AccessPolicy, RowFilter, AccessControl

An operator writes rules (`WriteRule`), starts the server (`Start`: the pydantic
validators and `validate_access_policy_against_registry`, which may refuse),
callers look at what they are shown (`Discover`: `effective_registry`) and ask
(`Query`: `compile_query`), and the operator stops the server to edit the rules.
`Resolve` is `_merge` with the denies; `Evaluate` adds the refusals. A query selects
columns (`select`), aggregates some (`aggregates`) and names others in `where` or `order_by` (`uses`).
`CompileQuery` drops the array columns of the selection before it checks anything, as the code does, and
`Reads` are the columns it does check; a value of a row is masked, an aggregate is of raw values. A rule list
is a set, as the code merges by union, intersection and OR. A `when` clause is a
table: for each caller it is true, false or raises, and raising counts as false.
`RowFilter` has two readings of a filter tree: `CompiledTruth`, what
`compile_row_filter` makes of it, and `StatedTruth`, what the tree says. SQL's
three truth values decide which rows pass. Both, and the validator (`ValidNode`), are
functions on the trees of the policy file that are defined by the nodes below;
the constant `Height` names the trees and says that they are finite. What one node does with
its kids' values is an operator of its own (`CompiledNode`, `StatedNode`,
`WellFormedNode`). `AccessPolicy` does without: there the filters are opaque and parameters
of the module.

### KeyResolver

`ArriveFresh`, `ArriveFirst` and `ArriveLate` are a call of `get` that finds a
fresh set, a free lock, or a line at the lock; `WakeFresh`/`WakeStale` the second
look under the lock; `FetchReturns`/`FetchFails` the end of the fetch. The lock
is asyncio's: first come, first served, and a cancelled waiter leaves the line.
`Rotating = FALSE` gives `_LazyURLResolver`, whose key never expires.
`FetchTimeout` bounds a whole fetch. That is an assumption: the HTTP client is
given 5 seconds for each read, so a server that sends a little
at a time could take longer.

### Pagination

A table is a set of rows; `Precedes` is its ORDER BY, `Leading` what LIMIT may
return (ties go either way), `Beyond` is `cursor_where_clause`, `Refusal` the
errors of `resolve_connection` in its order, `SelectsRelation` says which queries
`compile_connection_query` cannot build, `PageOf` the cut of the extra row,
`hasNextPage` and `endCursor`. Clients begin walks, follow cursors, lose
answers, and may change the query while they keep the cursor. Rows come and go.
The result cache is a keyed store with a ttl here. `kept` is the history of a
walk: the rows that were in the table all the time. `Reachable` says which of them the docs promise,
those that are not NULL in any order_by column (`docs/pagination.md:444`).

### Relationships, Discovery, SchemaGraph

A project is a record of what its files declare: foreign keys, `relationships`
tests, and equalities in the ON clauses of compiled SQL, in the order of the
manifest. `Constraints`, `Tests` and `MinedJoins` are what the three processors find (`Places` has
them all, `Before` is the order in which `extract_project` goes through them), `Kept` is the merge of `extract_project` (the first of a name stays, and each
processor drops later ones of a name already, which comes to the same), and
`RelationOf` is `_build_rel_map` (the *last* for a column stays). Names are
put together with `_` in the code, so `order` with `item_id` and `order_item` with
`id` come to the same one; hence names are sequences of words here. A key
over several columns is named by the first of each side and matches no single column,
so that it is never served, but it can still claim a name. Resolving a table reference
is a datum (`Unknown` when it fails).

`Discovery` takes the relations as its graph. `Ask`, `AskSame` and `AskUnseen` are
the ways a call of `find_path` can begin, each pass of the `while` loop is a
`Round`, `Answer` hands out the paths. The call is synchronous, so there is one search
at a time; `status` is idle before and after. `SchemaGraph` starts the
search from the relations of a project and says what the project *states*,
straight from its lists and not through the merge.

### QueryDocuments

A document is a tree of fields, inline fragments and spreads; the constant `Heights` names
its nodes and says how far each goes down with fragments put in place, which is GraphQL's rule that
fragments do not contain themselves. `Levels` and `Fields`, functions on those nodes, are what
`_walk` of the guards returns, `Check` is `_check`, `LimitErrors` is `LimitRule`; `Send`, `Refuse`,
`Approve` (a call with `validate_only`), `Execute`, `Resolve` and `Reply` take a call through the
HTTP handler or `run_graphql`. `Unreadable` says what `resolve_connection` refuses
because of the tree, `Columns` which columns the compiler reads from it,
`EffectiveFirst` is the cap at run time. Execution is graphql-core's and
external: fields are collected through fragments and root fields resolve in any order. Columns are
nullable unless dbt says otherwise, so a value that does not serialize may be null with an error beside
the data (`ResolveToPage` with `"partial"`, the partial success of `mcp/server.py:477`). Root fields are not, so an error
of a resolver, or of a value that may not be null, leaves an answer without data
(`ResolveToError`), and only the first such error is in it. Aliases and documents of
several operations are left out. `Leaves` and `Depth` are what a document really asks for,
fragments put in place, against which the guards are judged. `RefusalsAreDeserved` leaves out a
*hollow* field, whose selection holds inline fragments and in the end nothing except
`__typename`: the guards count a level for it that no leaf is at (section 5).

## 3. What is checked

| Run | Question | Bounds | States |
|---|---|---|---|
| `cache_reliable` | own rows, single flight, no wasted fetch, monotonic reads, the one-second window of `ttl: 0`, and `ImplementsSharedFetch`, with crashes and eviction of entries | 3 requests, 2 tenants with the same SQL, 1 change of data, ttl 0, lock 2 s | 209446 |
| `access_control` | deny wins, default deny, masks, filters, discovery, missing claims, denies only take away | up to 3 rules of 14 kinds, 2 tables, one with an array column, 2 callers, queries that name at most 2 columns (`MaxNamed`) | 35650 |
| `array_columns` | violated: a column the policy does not allow is refused, never left out | up to 2 rules, the same tables | |
| `access_union` | violated: roles add up | up to 2 rules | |
| `row_filter_keys` | violated: every column of a filter is enforced | 1 rule | |
| `keys_rotating` | no fetch while the set is fresh, retired and new keys, nobody waits for ever | 3 requests, a key, ttl 2, fetch 1 s | 15656 |
| `pagination` | pages advance, rows that stay are seen, walks end | 1 client, 3 possible rows, one with a NULL, 2 changes, ttl 1, 2 cached pages, 7 queries, one of distinct items | 129621 |
| `discovery` | served relations are stated and have their strongest origin, stated joins are found, all shortest paths and no other | all projects of up to three of 15 declarations and three with cycles, 4 tables, 2 callers, all pairs of tables | 44163 |
| `discovery_visible` | violated: answers are filtered to what the caller may see | the same | |
| `serving` | identical queries take one place in the pools, no connection, place in line or lock is left behind, requests run while everything is open, nothing is left open, and every call ends | 3 requests (one may hang), 2 replicas with 1 connection each, 2 statements, wait and query 1 s, lock 3 s, ttl 0, all faults but evicted entries | 387859 |
| `query_documents` | what runs is within the limits, what is refused is not, both interfaces agree, replies tell failures | 28 documents, 2 calls, both interfaces, limits of 3, 3 and 2 | 285390 |
| `query_fragments` | violated: columns asked for in a fragment are read | 8 documents, 1 call | |

**Why the bounds are enough.** Three requests are the least that has a holder, its
successor and one who waits for both, which every known race at a lock needs;
one change of the data gives an old and a new result, which is what a read can go back between. Two tenants
with the same SQL are what a key could confuse. In `access_control` three rules
are an allow, a second allow that narrows, masks or contradicts it, and a deny;
five of the fourteen kinds are refused at startup, so that the refusal
is exercised too. Key sets are judged key by key, so that one key is enough for
the model; three requests give a fetch, one in line and one that comes late.
A table of three rows with pages of one or two has a first, a middle and a last
page, ties in the first order column, and an insert or delete on either side
of the cursor. One client is enough as another one only touches the cache,
which the client's own repeated walks fill as well.

Three declarations are one that is served and two that compete with it for its
name and its column; any two sources, both forms of a foreign key, composite keys, a
collision of names, self-joins, and joins of other or unknown tables are among the
fifteen. Shortest paths between four tables have at most three steps
(`MaxSteps`), and the proof needs no such bound.

In `serving` one connection is a full pool as soon as it is out; two requests
of one replica compete for it, and the third shares a key with one of them across
replicas. A wait of one second and a query of one second make a lock of three the shortest
that outlives both: with two, `OnePlacePerKey` fails, and the theorem shows that the difference
is what counts. The documents of `query_documents` are the shapes the code
tells apart: at a limit and beyond it, nested, through inline and named
fragments, introspection at any place, repeated fields, `first` as a literal and as a variable.
Two calls are what `InterfacesAgree` compares.

**Deadlock** is checked in every run but the two of `QueryDocuments`, where calls end
and nothing follows.

**Fairness.** Safety runs assume none. `serving`: time passes when nobody is due; a coroutine
that is ready is run by the event loop (`CacheStep`, `AskPool`), and so is the timer of
the pool (`Refused`); the warehouse answers or fails except for the requests in `Hung`,
since `execute` sets no statement timeout. A connection that is free goes to *some* request in line. Nothing is assumed
of whose turn it is: one who is ready or in line may be overtaken as long as there is anyone to do so. Nothing obliges anybody to crash, evict, call,
start or stop. `keys_rotating`: the
event loop wakes whoever has got the lock; a fetch ends with the answer or by
the client's timeout. The identity provider need not answer.
`pagination`: a client asks until it has an answer, that is, not every answer
is lost. Neither writes nor the clock are fair.

**Each property has a mutant** in `PROJECT.json`: a plausible bug in a modelled
definition with which TLC finds the property violated.

## 4. What is proved

The theorems hold for all values of the constants that meet the `ASSUME`s
(`ParametersAssumption`, `PolicyAssumption`, `AnswersAssumption`, `ControlAssumption`,
`KeyResolverAssumption`, `DiscoveryAssumption`, `ServingAssumption`, `PaginationAssumption`,
`NoneAssumption`, `ProjectsAssumption`, `DocumentsAssumption`, `FragmentsAssumption`, and
`TreesAssumption` of filters and of documents): those say that
bounds are natural numbers, `None` is not a request, a query or a cursor, rules have the shape pydantic
gives them, tables respect their keys, a foreign key in the
older form is over one column, filters and documents are finite trees, and fragments are defined, used and
do not contain themselves. What a theorem assumes beyond that is in its statement.

**Trees.** The library's induction rules cannot be used here, so what other provers do by
induction is done with least elements. `LowestTree`: of the trees without a property there is one whose
kids all have it. `TreeRecursion`: a function on trees that is defined by its values below a node exists,
by gluing the functions that agree with the definition up to a height; without it nothing is known of a
recursive function, as it is a CHOOSE. `Counting`, `FiniteHasGreatest`: sums
of sizes and maxima of finite sets.

**ResultCacheProofs.** `TypeCorrect` and `TenantIsolation` hold under all faults.
`WellFormed` adds to the types that a request has a result exactly where the
code has assigned it; `Isolated` adds to `OwnStatement` that what is *stored*
under a key answers the statement of that key (`Filed`), as a hit copies it,
and this needs that keys determine statements (`KeyInjective`). `SingleFlightHolds`,
`NoWastedFetchHolds` and `MonotonicReadsHold` assume `LocksHold` (no overrun, no
evicted locks). Single flight is not inductive; `Guarded` is: everyone in
the critical section owns the lock of its key and the lock has time left.
`NoWastedFetch` follows with it, and the proof of monotonic reads needs
`Ordered`, which says of everything read, stored or returned how its version
relates to the floors of the requests still to be answered: an entry is
never older than an answer given before, since whoever is at the warehouse reads
when there is no entry. `NoLockLeftBehind` holds under all faults (`Owned`: whoever a lock belongs to is in
the block of that key), whether or not the backend checks owners.
`OneFetchPerWindowHolds` holds under all faults, overrun and evicted locks included: `Windowed` says that the clock
kept since a key was last stored and the ttl its entry has left add up to no less than the ttl (at least a second), so
that a second look finds nothing only if the window is over or the entry was evicted.

`CacheImplementsSharedFetch` is the refinement, step by step, under `LocksHold`. Abstractly one caller of
a statement fetches while the others wait; `SoleFetcher` says that under `Guarded` this is who is between
the second look and `StoreResult`. The lemmas `Mapped...` take one group of actions each: `StoreResult` ends the fetch with its caller's answer and leaves it to be shared, a hit *shares* it,
`Tick` and eviction are a *lapse* of what is shared, an error or a crash *loses* the
fetch, and the steps at locks stutter. Keys disappear from view since they are as good as statements (`KeyInjective`).

**ServingProofs.** `ServingImplementsCache`: each step of `Serving` is one of `ResultCache` or
leaves it alone, so that all of the above holds of replicas with pools. `Placed` says that who has a
place in a pool is at the warehouse step, `Limited` that no pool is above its
limit, `Opened` what is open at each step of a process. `BurstTakesOnePlace` assumes `OwnedUnlock` and
`LockTimeout > PoolTimeout + QueryTime`. Its invariant `Ahead` adds up what a prompt request has
left to wait and to run, and says that its lock has more. `ServingSharesFetches` carries the
refinement over to replicas. With `>=` `BurstTakesOnePlace` fails; the defaults (both 10 s,
`docs/configuration.md:178`, `docs/caching.md:171`) are far from it, see section 5.

**AccessControlProofs.** One fact about behaviours is needed of the policy: while the server
runs its rules stay the same, so the last answer and all listings are what the rules in
force decide (`Decided`, inductive). Everything else is about the operators
that decide. `DenyShrinksAlways` is an action property and a
statement about any two rule sets that differ in a deny rule (`DenyAddsNothing`).
Row filters are opaque in these proofs: they hold for any filter language. `MasksUnanimousAlways` is about
the values of rows and `DiscoveryAgreesAlways` about the columns `Reads` names: aggregates of masked columns and
array columns are what they do not promise, and section 5 says why.

The filters come in with the second half, for trees of any height and width. `MissingClaimFailsClosedAlways` rests on
an order of information: a caller that lacks a claim gets UNKNOWN or what a caller with that claim
gets (`Vaguer`), which each connective and comparison respects, `_not` and `_nin` included, and so each tree does
(`VaguerTruths`). What is true for the caller without the claim is true with it, whatever
its value. `ServedFiltersValidAlways` shows that the server compiles no tree the validator would refuse, so that the guard
`ValidNode` in `FilteredRows` takes nothing away. `PlainFiltersMeanWhatTheySay` assumes
`PlainTrees` (no node has two column keys, none uses `_iregex`) and then has the very property that
`row_filter_keys` finds violated: these are the only two causes.

**KeyResolverProofs.** `HolderFetches` says that the one who fetches holds the lock.
For staleness the invariant is a budget (`Budget`): an answer on its way that is wrong
about a key has been wrong for at most what its fetch has used of its timeout; a stored set for at
most the timeout and the part of the ttl that is over. The two staleness
theorems assume `Rotating`; the others also cover the resolver that fetches once.

**SchemaGraphProofs**, of the search. `AllShortestPathsFound`, for any relations with any cycles: the
answer is the set of all shortest joins, of whatever length, where a *join* is
defined without the search as a function on `1 .. n` whose steps fit together (`Joins`). Between two rounds
the search knows all joins of `depth` steps to each table it has just reached for the first time (`Levels`);
a join of that length leads nowhere else than to tables already seen (`Reached`);
`shortest` holds those to the end, and there are no shorter ones (`Shortest`); what
has been left behind leads to tables that were seen (`Closed`). The step uses that
a join of `n + 1` steps is one of `n` and an edge (`ExtendJoin`, `SplitJoin`). When the search gives up
there is no join at all: on a join to the end, the first step that leads to an unseen table
would start at a table that was left behind; that there is a first one is
well-foundedness of the natural numbers (`LeastNumber`). `RoundsAlwaysAdvance` says that a round
reaches a new table or is the last; that the search ends in a finite registry follows
from it, but that is liveness and not stated. It and `OneFetchAlways` of
`KeyResolverProofs` (one fetch at a time) are proved and in no run.

**PaginationProofs.** ORDER BY is a strict order of the keys (`PrecedesTransitive`, `PrecedesTotal`, by the
first column in which two rows differ), wherever NULL sorts. From that follows what a single
page says: its rows lie beyond the cursor it was asked with and up to the one it hands out (`Sound`), and a
row it leaves out lies beyond the latter (`Covers`, with the lemma `KeysIdentify`: rows with the same
order_by values are the same item, which is what the uniqueness check of the resolver is for).
`PagesAlwaysAdvance` needs that all cached pages are `Sound` and that what a walk has seen sorts up to its
cursor (`SeenUpTo`); it holds with NULLs as well. `StableRowsAreSeen` needs in addition that a
cached page covers all rows that were in the table when it was read, those with `age + left > Ttl`
(`CacheCovers`), and that each row that stayed has been seen or lies beyond the cursor (`Accounted`). Rows with a NULL in an order_by
column are excepted (`Reachable`), as the docs except them. It assumes
`SelectionIsKept`: the fingerprint of a cursor leaves out the selection, so that a client that asks for
distinct items and changes its selection on the way is handed items of another kind from there on.

**SchemaGraphProofs**, of the merge. Both theorems hold for every project, however its names collide. A declaration is known by its
place, `<<source, index>>`, and a project is finite, so that each set of places has a first and a last one
in the order of priority (`FirstPlace`, `LastPlace`). `ServedAsStatedAlways`: the name of a relationship over one
column is determined by its join, so whatever states the join has that name as well, and what is kept of a name
has no place before it (`KeptIsStrongest`). `StatedJoinsAreFound`: the first place that has the name of the join is kept; when
nothing contests the join, all that is kept for its column is that join, so it is served; and an edge
of the registry is a shortest path of one step, which `find_path` lists by the invariant of the search.

**QueryDocumentsProofs.** The invariant is short: each call is a record (`IsCall`), what was decided about it follows
from its document (`Decided`), and its pages and its status from what was resolved (`Answered`).
The work is in what it has to be compared with, for documents of any size. For `RunsWithinLimitsAlways`: a leaf of a document that was not refused lies no
deeper than the levels of its own part, plus one, plus a whole limit for each fragment in whose place
it may lie (`LeavesNotDeep`, along the heights); leaves in different places are different, so
their number is the sum of those of the parts (`CopiesDiffer`, `LeavesOfAllCount`), and sums are monotone. `FirstIsCapped` is the
cap at run time for variables. For `RefusalsAreDeservedAlways`: each level the guard counts leads to a leaf
(`LevelsLeadToLeaves`), unless a field is hollow, and that leaf is one of the document, since data
fragments are reached from the operation (`DataNodesLeast`, `LeavesInPlace`). It assumes
`MaxDepth > 0`: with a limit of 0 a fragment around introspection is refused as well.

**Only model-checked:** liveness (`EveryCallEnds`, `EveryRequestIsDecided`,
`WalksEnd`), which is beyond the prover: it needs fairness and ENABLED. Everything else that the
passing runs check is stated by a theorem.

## 5. Where code and documentation disagree

Runs that end in a violation:

* `access_union`: rules without a filter are skipped when filters are ORed, so a
  second, filtered role takes rows away. `docs/access-policy.md:449` promises the union.
* `row_filter_keys`: a mapping with two columns passes validation and only its first
  column is compiled (`row_filter.py:193`).
* `array_columns`: array columns of a selection are dropped before the columns are checked (`compiler/query.py:265`),
  so a denied one is null in the answer and not an error. `docs/access-policy.md:261` promises that columns are
  never silently stripped.
* `discovery_visible`: `find_path` looks at both ends only, so the path between two visible tables may
  name tables the caller may not see. `docs/mcp.md:43` says that discovery tools filter their output.
* `query_fragments`: the compiler takes the names right below the first `nodes` for columns
  (`compiler/query.py:214`), so that what stands in a named fragment is not in the SELECT and comes back as null.

Met on the way, without a run:

* `_iregex` of a row filter formats the bind parameter into the pattern (`operators.py:48`), so the pattern is the
  parameter's name and not the value; `docs/compiler.md:156` lists it as a match of the value.
* A column with a relation is taken for a relation field (`compiler/query.py:276`), so that `_aggregate` grouped by a
  foreign key is an error; `docs/graphql.md:67` makes no such exception.
* `docs/caching.md:162` says that a burst of identical queries takes one connection. With
  `lock_safety_timeout` not above pool timeout and query together, as in the defaults, a holder
  at a full pool loses its lock while it waits, and the next one joins the line. `serving` with `LockTimeout = 2` shows it.
* Requests with the same key wait for the pool one after another: each may wait the whole pool
  timeout before its 503 (`docs/configuration.md:83`).
* Limits of depth and of fields hold for each operation and fragment by itself; `docs/configuration.md:102` and
  `docs/usage_guide.md:57` speak of the whole query. `guards.py:62` says spreads are descended into,
  but a spread has no selection set.
* An inline fragment of nothing but `__typename` counts as a level of depth. With `query_max_depth: 0` a fragment
  of introspection is refused, though `docs/configuration.md:101` leaves introspection out of the limits.
* An inline fragment directly in a connection or in `nodes` raises AttributeError; of a repeated `nodes` only the
  first is read.
* Aggregates of a masked column are of its raw values (`compiler/query.py:388`), and `min` and `max` of one row
  are that row's. `tests/integration/test_integration.py:700` wants it so ("mask affects SELECT output, not
  computation"); `docs/access-policy.md:442` says "The runtime never sees values it should not".
* Root fields are not null, so that of their errors only the first is in the answer, and a pool timeout behind
  another one is a 200.
* A NULL in an order_by column takes its row out of every page after the first. `docs/pagination.md:444` says so;
  line 302 ("not whether pagination is correct") does not.
* A step of startup or shutdown that raises leaves the engine, the HTTP client and the cache backend open (`serve/app.py:83`).
* `timed` of `monitoring.py` counts a cancelled call as a success.
* `docs/pagination.md:162` says that a `first` above the limit returns fewer rows; as a literal it is refused.
* `docs/configuration.md:77` and `README.md:50` say introspection is off by default; there is no such setting and
  `graphql/app.py:361` turns it on.

* A `when` clause of a deny rule that raises counts as false: the deny is not applied.
* A column masked with NULL (`~`) is not marked `@masked` in the effective schema, see `docs/graphql.md:114`.
* Boolean order columns: SQLAlchemy refuses `<` and `>` with a Python boolean, so the second page of such an order is an error; so is
  one whose cursor holds a NULL (that one is in `Refusal`).
* With a query slower than `lock_safety_timeout`, *each* waiter in turn outlives the lock and
  runs the query. `docs/caching.md:171` speaks of one wasted roundtrip.
* The generator's map of relationships keeps the last of several for the same columns,
  that is, the one of lowest priority (`graphql/sdl/generator.py:349`). For one join this is
  never seen, as the merge has kept its strongest origin; when a constraint and a join
  of compiled SQL send the same column to different tables, the mined one is served
  (`docs/schema-synthesis.md:31`; `tests/unit/test_pipeline.py:228` covers one join only).
* A foreign key over several columns never reaches the registry, and its name, made of the first columns,
  may keep one over a single column from being served.
* In the older `expression` form only the first of several columns of a foreign key is kept
  (`dbt/processors/constraints.py`), with whatever stands between the parentheses as its target.
* The example of `docs/mcp.md:57` lists paths of different lengths; `find_path` never does.
* The executable schema gives a foreign key a scalar field, so the correlated subqueries
  of `_build_correlated_subquery` are not reached by a query.
* While the provider of a fixed key is down, every request tries to fetch it, one after the other.

## 6. What is not modelled

* Text: SQL per dialect, SDL, the digest behind a key or a fingerprint (taken to be free
  of collisions), base64 and JSON of cursors. Values of a cursor keep their type in the model;
  that dates and decimals become strings on the way is left out.
* Relation fields (correlated subqueries) and the renaming of nested aggregates.
* Claim checks of JWTs (`exp`, `aud`, `iss`): library calls without state.
* simpleeval: a `when` clause is a table. The check of mask expressions for
  forbidden tokens looks at SQL text.
* Rows that change in place between two pages (`docs/pagination.md:419`): rows come and go, which gives the
  same tables, but an update counts as a row that left and one that came, so nothing is promised of it.
* What a lock that is too short costs: how many queries run for one key, and that a slow holder may store an
  older result over a newer one. `MonotonicReads` and `SingleFlight` are about locks that outlive their holders.
* Negative `first`, no maximum limit, cursors that no server made. Aliases and several operations in a document.
* Masked order columns: the cursor holds the mask while the statement compares the column itself
  (`resolvers.py:371`); the rows of `Pagination` have no callers.
* Monitoring: telemetry, no state anything else reads.
* How the artifacts are read: which table an alias of compiled SQL stands for (sqlglot), column
  types, enums, descriptions, lineage, and the cardinality, which nothing reads.
* `list_tables`, `describe_table` and `run_graphql` go through the GraphQL schema that `AccessControl`
  and `Pagination` describe; `trace_column_lineage` lists what the pipeline extracted.
* `execute_text` of the database manager: the same block as `execute`, without a caller. The order in which
  SQLAlchemy serves those who wait, and the overflow it closes: one limit stands for both.

## 7. Plan

In order of importance, with what has been done:

1. Result cache: model, safety proofs, the refinement checked and proved. *Done.*
2. Access control: model, row filters, proofs of both. *Done.*
3. Key resolvers: model, proofs. *Done.*
4. Cursor pagination: model, safety proofs. *Done.*
5. Relationships and MCP discovery: models, composition, proofs of the search and of the merge. *Done.*
6. Pool, lifespan and their composition with the cache (`Serving`): models, proofs. *Done;* left: two apps in
   one process, which share the process-wide cache object.
7. Composition of `Discovery` with `AccessPolicy`: `VisibleTo` from the rules in force, so that
   what `find_path` and the schema show is judged by the same rules.
8. Masked order columns: `Pagination` composed with the masks of `AccessPolicy`.
9. An abstract specification of a walk (each row that stays is handed out once) that
   `Pagination` refines.
10. The query guards and the replies (`QueryDocuments`): model, proofs. *Done;* left: aliases.
