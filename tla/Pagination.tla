------------------------------ MODULE Pagination ------------------------------
(***************************************************************************)
(* Cursor pagination: the connection resolver of a table, the statements   *)
(* it compiles, the cursor it hands out, and clients that walk through a   *)
(* table page by page while the warehouse changes.                         *)
(*                                                                         *)
(* Nothing is kept between two pages: the cursor holds the order_by values *)
(* of the last row and a fingerprint of the query, and the next page is    *)
(* whatever sorts after those values now, or a short while ago, as pages   *)
(* come from the result cache (module ResultCache), which is a keyed store *)
(* with a ttl here.  A page is a set: its rows are known by how they sort. *)
(***************************************************************************)
EXTENDS Naturals, Sequences, FiniteSets

CONSTANTS
  Clients,       \* who walks
  Columns,       \* the scalar columns of the table
  Universe,      \* the rows it can have, functions on Columns
  PrimaryKey,    \* columns marked is_pk
  UniqueCols,    \* columns marked is_unique
  ForeignKeys,   \* columns with a relation to a table of the registry
  Loaded,        \* bound: the tables to begin with
  Null,          \* SQL NULL
  NullsHigh,     \* whether the warehouse sorts NULL as the greatest value
  Queries,       \* what clients ask
  DefaultLimit,  \* query_default_limit
  MaxLimit,      \* query_max_limit
  Ttl,           \* seconds a page stays in the result cache, 0 without cache
  CacheSize,     \* how many pages the result cache holds
  MaxWrites,     \* bound: changes of the table
  None           \* an argument not given, no cursor

(***************************************************************************)
(* `where` is the set of rows that pass it; `order_by` lists column and    *)
(* direction.  An aggregate over nothing but rows is a single item, with   *)
(* no pages, and is left out.                                              *)
(***************************************************************************)
IsQuery(q) ==
  /\ q.order_by \in Seq(Columns \X {"asc", "desc"})
  /\ q.where \subseteq Universe
  /\ q.select \subseteq Columns
  /\ q.distinct \in BOOLEAN /\ q.aggregate \in BOOLEAN /\ q.page_info \in BOOLEAN
  /\ q.aggregate => q.select # {}
  /\ q.first \in Nat \cup {None}

(* A unique column may repeat NULL. *)
Consistent(T) ==
  \A r, s \in T : r # s =>
    /\ \E c \in PrimaryKey : r[c] # s[c]
    /\ \A c \in UniqueCols : r[c] # s[c] \/ r[c] = Null

ASSUME PaginationAssumption ==
  /\ IsFiniteSet(Universe)
  /\ Null \notin Nat
  /\ \A r \in Universe : r \in [Columns -> Nat \cup {Null}]
  /\ PrimaryKey \cup UniqueCols \cup ForeignKeys \subseteq Columns
  /\ \A T \in Loaded : T \subseteq Universe /\ Consistent(T)
  /\ NullsHigh \in BOOLEAN
  /\ \A q \in Queries : IsQuery(q)
  /\ {DefaultLimit, MaxLimit, Ttl, CacheSize, MaxWrites} \subseteq Nat
  /\ DefaultLimit <= MaxLimit

OrderCols(q) == {q.order_by[i][1] : i \in DOMAIN q.order_by}

-----------------------------------------------------------------------------
(* The table and how the warehouse sorts it. *)

SortsBelow(x, y) ==
  CASE x = Null -> ~NullsHigh /\ y # Null
    [] x # Null /\ y = Null -> NullsHigh
    [] OTHER -> x < y

Directed(dir, x, y) == IF dir = "asc" THEN SortsBelow(x, y) ELSE SortsBelow(y, x)

(* ORDER BY puts x before y. *)
Precedes(order, x, y) ==
  \E i \in DOMAIN order :
    /\ \A j \in 1 .. i - 1 : x[order[j][1]] = y[order[j][1]]
    /\ Directed(order[i][2], x[order[i][1]], y[order[i][1]])

(* The sets of up to n items that sort first; ties go either way. *)
Leading(order, S, n) ==
  {P \in SUBSET S :
     /\ Cardinality(P) = IF Cardinality(S) < n THEN Cardinality(S) ELSE n
     /\ \A x \in P, y \in S \ P : ~Precedes(order, y, x)}

(* DISTINCT and GROUP BY leave one item for equal values of the selection. *)
Items(q, T) ==
  IF q.distinct \/ q.aggregate
    THEN {[c \in q.select |-> r[c]] : r \in T \cap q.where}
    ELSE T \cap q.where

-----------------------------------------------------------------------------
(* Cursors. *)

GroupBy(q) == IF q.aggregate THEN q.select ELSE None

(* Mutant: only the ordering is compared. *)
FingerprintOfOrder(q) == <<q.order_by>>

Fingerprint(q) == <<q.order_by, q.where, q.distinct, GroupBy(q)>>

Cursor(q, item) == [v |-> [c \in OrderCols(q) |-> item[c]], d |-> Fingerprint(q)]

(* Mutant: at or beyond the cursor. *)
BeyondOrAt(order, v, r) ==
  \/ \A i \in DOMAIN order : r[order[i][1]] = v[order[i][1]]
  \/ \E i \in DOMAIN order :
       LET c == order[i][1]
       IN  /\ \A j \in 1 .. i - 1 : r[order[j][1]] = v[order[j][1]]
           /\ r[c] # Null
           /\ IF order[i][2] = "desc" THEN r[c] < v[c] ELSE r[c] > v[c]

(***************************************************************************)
(* cursor_where_clause, for a row: its first differing column is beyond    *)
(* the cursor.  A comparison with NULL is not true.                        *)
(***************************************************************************)
Beyond(order, v, r) ==
  \E i \in DOMAIN order :
    LET c == order[i][1]
    IN  /\ \A j \in 1 .. i - 1 : r[order[j][1]] = v[order[j][1]]
        /\ r[c] # Null
        /\ IF order[i][2] = "desc" THEN r[c] < v[c] ELSE r[c] > v[c]

-----------------------------------------------------------------------------
(* What the resolver refuses, in its order. *)

OrderIsUnique(q) ==
  \/ PrimaryKey # {} /\ PrimaryKey \subseteq OrderCols(q)
  \/ UniqueCols \cap OrderCols(q) # {}
  \/ q.aggregate /\ q.select # {} /\ q.select \subseteq OrderCols(q)

(***************************************************************************)
(* _extract_scalar_fields goes by the name: a column with a relation is    *)
(* taken for a relation field, though the schema only knows the scalar.    *)
(***************************************************************************)
SelectsRelation(q) == q.select \cap ForeignKeys # {}

(* SQLAlchemy raises on < or > with None. *)
Comparable(after) == \A c \in DOMAIN after.v : after.v[c] # Null

Refusal(q, after) ==
  IF ~(OrderCols(q) \subseteq q.select) THEN "ORDER_BY_NOT_IN_SELECTION"
  ELSE IF q.order_by = <<>> /\ after # None THEN "CURSOR_REQUIRES_ORDER_BY"
  ELSE IF q.order_by = <<>> /\ q.page_info THEN "ORDER_BY_REQUIRED"
  ELSE IF q.order_by # <<>> /\ ~OrderIsUnique(q) THEN "CURSOR_ORDER_BY_NOT_UNIQUE"
  ELSE IF after # None /\ after.d # Fingerprint(q) THEN "CURSOR_STALE"
  ELSE IF q.aggregate /\ (q.distinct \/ SelectsRelation(q)) THEN "INTERNAL_ERROR"
  ELSE IF after # None /\ ~Comparable(after) THEN "INTERNAL_ERROR"
  ELSE None

Refused == {"ORDER_BY_NOT_IN_SELECTION", "CURSOR_REQUIRES_ORDER_BY", "ORDER_BY_REQUIRED",
            "CURSOR_ORDER_BY_NOT_UNIQUE", "CURSOR_STALE", "INTERNAL_ERROR"}

ASSUME NoneAssumption ==
  /\ None \notin Queries /\ None \notin Refused
  /\ \A S \in SUBSET Columns : S # None
  /\ \A q \in Queries, r \in Universe : Cursor(q, r) # None

-----------------------------------------------------------------------------

VARIABLES
  table,   \* the rows of the table
  age,     \* history: seconds since each row of the table came, up to Ttl
  cached,  \* pages in the result cache: statement, page, seconds left
  walks,   \* what each client is doing
  writes   \* changes so far

vars == <<table, age, cached, walks, writes>>

EffectiveFirst(q) ==
  LET first == IF q.first = None THEN DefaultLimit ELSE q.first
  IN  IF first < MaxLimit THEN first ELSE MaxLimit

Statement(q, after) ==
  [select |-> q.select, order_by |-> q.order_by, where |-> q.where,
   distinct |-> q.distinct, aggregate |-> q.aggregate, limit |-> EffectiveFirst(q),
   after |-> IF after = None THEN {} ELSE {after.v}]

NotWalking ==
  [status |-> "idle", query |-> None, after |-> None, page |-> {}, seen |-> {}, kept |-> {}]

Init ==
  /\ table \in Loaded
  /\ age = [r \in Universe |-> Ttl]
  /\ cached = {}
  /\ walks = [w \in Clients |-> NotWalking]
  /\ writes = 0

(* Mutant: the cursor of the row that only shows there is a next page. *)
PageOfOverfetch(q, nodes, rows) ==
  [nodes |-> nodes,
   more |-> nodes # rows,
   cursors |-> {Cursor(q, x) : x \in {y \in rows : \A z \in rows : ~Precedes(q.order_by, y, z)}}]

(* Rows beyond `first` are cut off; the cursor is that of the last one left. *)
PageOf(q, nodes, rows) ==
  [nodes |-> nodes,
   more |-> nodes # rows,
   cursors |-> {Cursor(q, x) : x \in {y \in nodes : \A z \in nodes : ~Precedes(q.order_by, y, z)}}]

(* Pages the warehouse can answer a statement with; LIMIT is first + 1. *)
Pages(q, after) ==
  LET first == EffectiveFirst(q)
      rest == IF after = None THEN table
              ELSE {r \in table : Beyond(q.order_by, after.v, r)}
  IN  IF q.order_by = <<>>
        THEN {[nodes |-> P, more |-> FALSE, cursors |-> {}] :
                P \in Leading(q.order_by, Items(q, table), first)}
        ELSE UNION {{PageOf(q, nodes, rows) : nodes \in Leading(q.order_by, rows, first)} :
                      rows \in Leading(q.order_by, Items(q, rest), first + 1)}

Entries(q, after) == {e \in cached : e.stmt = Statement(q, after)}

(* Mutant: the size of the cache is not looked at. *)
StoreUnbounded(e) == cached' = cached \cup {e}

(* A full cache drops some page for the new one. *)
Store(e) ==
  IF Cardinality(cached) < CacheSize
    THEN cached' = cached \cup {e}
    ELSE \E f \in cached : cached' = (cached \ {f}) \cup {e}

(* A page from the cache, or one that is read and stored. *)
Answer(q, after, p) ==
  \/ /\ \E e \in Entries(q, after) : p = e.page
     /\ UNCHANGED cached
  \/ /\ Entries(q, after) = {}
     /\ p \in Pages(q, after)
     /\ IF Ttl = 0 \/ CacheSize = 0
          THEN UNCHANGED cached
          ELSE Store([stmt |-> Statement(q, after), page |-> p, left |-> Ttl])

Answers(q, after) == Pages(q, after) \cup {e.page : e \in Entries(q, after)}

-----------------------------------------------------------------------------
(* Clients. *)

Settled == {r \in table : age[r] = Ttl}

(* A client begins a walk without a cursor. *)
Begin(w, q) ==
  /\ walks[w].status = "idle"
  /\ walks' = [walks EXCEPT ![w] =
       [NotWalking EXCEPT !.status = "walking", !.query = q, !.kept = Settled]]
  /\ UNCHANGED <<table, age, cached, writes>>

(* It may send the cursor along with another query. *)
Revise(w, q) ==
  /\ walks[w].status = "walking"
  /\ walks[w].after # None /\ q # walks[w].query
  /\ walks' = [walks EXCEPT ![w].query = q]
  /\ UNCHANGED <<table, age, cached, writes>>

(* resolve_connection raises. *)
PageRefused(w) ==
  LET refusal == Refusal(walks[w].query, walks[w].after)
  IN  /\ walks[w].status = "walking"
      /\ refusal # None
      /\ walks' = [walks EXCEPT ![w].status = refusal]
      /\ UNCHANGED <<table, age, cached, writes>>

(* The client goes on while there is a next page and a cursor to ask for it. *)
Received(w, p) ==
  [walks[w] EXCEPT
     !.page = p.nodes,
     !.seen = @ \cup p.nodes,
     !.after = IF p.cursors = {} THEN None ELSE CHOOSE c \in p.cursors : TRUE,
     !.status = IF walks[w].query.order_by = <<>> THEN "plain"
                ELSE IF ~p.more THEN "complete"
                ELSE IF p.cursors # {} THEN "walking"
                ELSE "stuck"]

FetchPage(w) ==
  LET q == walks[w].query
      after == walks[w].after
  IN  /\ walks[w].status = "walking"
      /\ Refusal(q, after) = None
      /\ \E p \in Answers(q, after) :
           /\ Answer(q, after, p)
           /\ walks' = [walks EXCEPT ![w] = Received(w, p)]
      /\ UNCHANGED <<table, age, writes>>

(* The answer gets lost; the client will ask again. *)
PageLost(w) ==
  LET q == walks[w].query
      after == walks[w].after
  IN  /\ walks[w].status = "walking"
      /\ Refusal(q, after) = None
      /\ \E p \in Answers(q, after) : Answer(q, after, p)
      /\ UNCHANGED <<table, age, walks, writes>>

Finish(w) ==
  /\ walks[w].status \notin {"idle", "walking"}
  /\ walks' = [walks EXCEPT ![w] = NotWalking]
  /\ UNCHANGED <<table, age, cached, writes>>

-----------------------------------------------------------------------------
(* The warehouse and the clock. *)

Insert(r) ==
  /\ writes < MaxWrites /\ writes' = writes + 1
  /\ r \notin table /\ Consistent(table \cup {r})
  /\ table' = table \cup {r}
  /\ age' = [age EXCEPT ![r] = 0]
  /\ UNCHANGED <<cached, walks>>

Delete(r) ==
  /\ writes < MaxWrites /\ writes' = writes + 1
  /\ r \in table
  /\ table' = table \ {r}
  /\ age' = [age EXCEPT ![r] = Ttl]
  /\ walks' = [w \in Clients |-> [walks[w] EXCEPT !.kept = @ \ {r}]]
  /\ UNCHANGED cached

Tick ==
  /\ age' = [r \in Universe |-> IF age[r] < Ttl THEN age[r] + 1 ELSE Ttl]
  /\ cached' = {[e EXCEPT !.left = @ - 1] : e \in {f \in cached : f.left > 1}}
  /\ UNCHANGED <<table, walks, writes>>

-----------------------------------------------------------------------------

Next ==
  \/ \E w \in Clients, q \in Queries : Begin(w, q) \/ Revise(w, q)
  \/ \E w \in Clients : PageRefused(w) \/ FetchPage(w) \/ PageLost(w) \/ Finish(w)
  \/ \E r \in Universe : Insert(r) \/ Delete(r)
  \/ Tick

Spec == Init /\ [][Next]_vars

(* A client asks until it has an answer. *)
FairSpec == Spec /\ \A w \in Clients : WF_vars(PageRefused(w) \/ FetchPage(w))

-----------------------------------------------------------------------------
(* Properties. *)

Statuses == {"idle", "walking", "plain", "complete", "stuck"} \cup Refused

TypeOK ==
  /\ table \subseteq Universe /\ Consistent(table)
  /\ age \in [Universe -> 0 .. Ttl]
  /\ Cardinality(cached) <= CacheSize
  /\ \A e \in cached : e.left \in 1 .. Ttl
  /\ \A e, f \in cached : e.stmt = f.stmt => e = f
  /\ \A w \in Clients :
       /\ walks[w].status \in Statuses
       /\ walks[w].query \in Queries \cup {None}
       /\ walks[w].page \subseteq walks[w].seen
       /\ walks[w].kept \subseteq table
  /\ writes \in 0 .. MaxWrites

(***************************************************************************)
(* A walk only goes forward: whatever a page brings sorts after all that   *)
(* earlier pages brought, so nothing is served twice, also when rows come  *)
(* and go, answers are lost and pages come from the cache.                 *)
(***************************************************************************)
PagesAdvance ==
  [][\A w \in Clients :
       FetchPage(w) =>
         \A x \in walks'[w].page, y \in walks[w].seen :
           Precedes(walks[w].query.order_by, y, x)]_vars

(* Items the cursor can reach: docs/pagination.md:444 excludes the others. *)
Reachable(q, x) == \A c \in OrderCols(q) : x[c] # Null

(***************************************************************************)
(* A walk that ends with hasNextPage = false has served every row of its   *)
(* query that was there all the time, from a ttl before its first page,    *)
(* with whatever page sizes and whatever queries the cursor was sent with, *)
(* but for rows with NULL in a column of its order_by.                     *)
(***************************************************************************)
StableRowsSeen ==
  \A w \in Clients :
    walks[w].status = "complete" =>
      \A x \in Items(walks[w].query, walks[w].kept) :
        Reachable(walks[w].query, x) => x \in walks[w].seen

(***************************************************************************)
(* A client that goes on asking gets its last page, or a refusal, some     *)
(* day; only who asks for pages of no rows is left with a next page and no *)
(* cursor to ask for it.                                                   *)
(***************************************************************************)
WalksEnd ==
  \A w \in Clients :
    walks[w].status = "walking" ~>
      \/ walks[w].status \in {"complete", "plain"} \cup Refused
      \/ walks[w].status = "stuck" /\ walks[w].query.first = 0

=============================================================================
