----------------------------- MODULE AccessPolicy -----------------------------
(***************************************************************************)
(* The access-policy engine of dbt-graphql and the two places that consume *)
(* its decisions: the query compiler, which enforces them, and the         *)
(* effective registry, which shows callers what they may ask for           *)
(* (GraphQL introspection and the MCP discovery tools).                    *)
(*                                                                         *)
(* The operator writes rules into config.yml, the server validates them    *)
(* when it starts and serves requests, or refuses to start.  A rule list   *)
(* is a set here: evaluate() visits it in order but merges by unions,      *)
(* intersections and OR, so neither order nor repetition matters.          *)
(*                                                                         *)
(* Row filters are opaque: ValidFilter and RowsOf say what their           *)
(* validation accepts and which rows they admit (module RowFilter).        *)
(* Rows are the rows of whatever table is asked.                           *)
(***************************************************************************)
EXTENDS Naturals, FiniteSets

CONSTANTS
  Tables,             \* table names a policy can mention
  Columns,            \* column names
  Registry,           \* the columns of each table that exists
  ArrayColumns,       \* those of them that hold arrays
  Subjects,           \* callers, as their JWT payloads describe them
  Exprs,              \* mask expressions, NullMask among them
  NullMask,           \* the mask `~`, SQL NULL
  Raw,                \* a column that is not masked
  Filters,            \* row-filter trees
  ValidFilter(_, _),  \* validate_row_filter accepts a tree for some columns
  Rows,               \* the rows of a table
  RowsOf(_, _),       \* the rows a tree admits for a subject
  Entries,            \* policy entries an operator may write
  MaxRules,           \* bound: how many entries a policy has
  MaxNamed,           \* bound: how many columns a query names, clause by clause
  None                \* a field that is absent, a request not made

(* The shapes pydantic gives a policy entry. *)
IsColumnLevel(l) ==
  /\ l.include_all \in BOOLEAN
  /\ l.includes \subseteq Columns /\ l.excludes \subseteq Columns
  /\ DOMAIN l.mask \subseteq Columns
  /\ \A c \in DOMAIN l.mask : l.mask[c] \in Exprs

IsTablePolicy(tp) ==
  /\ tp.column_level # None => IsColumnLevel(tp.column_level)
  /\ tp.row_filter \in Filters \cup {None}
  /\ tp.deny_all \in BOOLEAN
  /\ tp.deny_columns \subseteq Columns

IsPolicyEntry(e) ==
  /\ e.effect \in {"allow", "deny"}
  /\ e.when \in [Subjects -> {"true", "false", "raises"}]
  /\ DOMAIN e.tables \subseteq Tables
  /\ \A t \in DOMAIN e.tables : IsTablePolicy(e.tables[t])

RegistryTables == DOMAIN Registry

ASSUME PolicyAssumption ==
  /\ RegistryTables \subseteq Tables
  /\ Registry \in [RegistryTables -> SUBSET Columns]
  /\ ArrayColumns \in [RegistryTables -> SUBSET Columns]
  /\ NullMask \in Exprs /\ Raw \notin Exprs
  /\ None \notin Filters /\ None \notin Subjects
  /\ \A e \in Entries : IsPolicyEntry(e)
  /\ \A f \in Filters, u \in Subjects : RowsOf(f, u) \subseteq Rows
  /\ {MaxRules, MaxNamed} \subseteq Nat

-----------------------------------------------------------------------------
(* Loading: what pydantic and the registry check refuse. *)

EffectFieldsOk(effect, tp) ==
  LET allowSet == tp.column_level # None \/ tp.row_filter # None
      denySet == tp.deny_all \/ tp.deny_columns # {}
  IN  IF effect = "allow"
        THEN allowSet /\ ~denySet
        ELSE denySet /\ ~allowSet /\ ~(tp.deny_all /\ tp.deny_columns # {})

ColumnLevelOk(level) ==
  level # None => ~(level.include_all /\ level.includes # {})

KnownToRegistry(t, tp) ==
  IF t \in RegistryTables
    THEN /\ tp.row_filter # None => ValidFilter(tp.row_filter, Registry[t])
         /\ tp.deny_columns \subseteq Registry[t]
    ELSE tp.row_filter = None /\ tp.deny_columns = {}

LoadsOk(e) ==
  \A t \in DOMAIN e.tables :
    /\ EffectFieldsOk(e.effect, e.tables[t])
    /\ ColumnLevelOk(e.tables[t].column_level)
    /\ KnownToRegistry(t, e.tables[t])

-----------------------------------------------------------------------------
(* PolicyEngine.evaluate *)

(* A `when` that raises counts as false, for denies as for allows. *)
Matching(P, t, u, effect) ==
  {e \in P : e.effect = effect /\ e.when[u] = "true" /\ t \in DOMAIN e.tables}

TablePoliciesOf(P, t, u, effect) ==
  {e.tables[t] : e \in Matching(P, t, u, effect)}

Levels(allows) == {p.column_level : p \in allows} \ {None}

RowFilters(allows) == {p.row_filter : p \in allows} \ {None}

(* "allowed_columns is None" is every column. *)
AllowedColumns(levels) ==
  IF levels = {} \/ \E l \in levels : l.include_all
    THEN Columns
    ELSE UNION {l.includes : l \in levels}

BlockedColumns(levels) ==
  {c \in Columns : levels # {} /\ \A l \in levels : c \in l.excludes}

MaskedColumns(levels) ==
  {c \in Columns : levels # {} /\ \A l \in levels : c \in DOMAIN l.mask}

(* Mutant: the first expression is taken. *)
NoConflict(levels) == FALSE

MaskConflict(levels) ==
  \E c \in MaskedColumns(levels) : \E l, m \in levels : l.mask[c] # m.mask[c]

(* Mutant: without a filter from every policy there is no filter at all. *)
RowsIfAllFilter(allows, u) ==
  IF \E p \in allows : p.row_filter = None
    THEN Rows ELSE UNION {RowsOf(f, u) : f \in RowFilters(allows)}

(* The OR of the filters there are; policies without one are skipped. *)
AdmittedRows(allows, u) ==
  IF RowFilters(allows) = {}
    THEN Rows
    ELSE UNION {RowsOf(f, u) : f \in RowFilters(allows)}

DeniedColumns(denies) == UNION {p.deny_columns : p \in denies}

Refusal(c) ==
  [code |-> c, visible |-> {}, masks |-> [x \in {} |-> NullMask],
   filtered |-> FALSE, rows |-> {}]

(* Mutant: deny_columns is only subtracted from an explicit allow-list. *)
ResolveSubtractingOnly(allows, denies, u) ==
  LET levels == Levels(allows)
      denied == IF AllowedColumns(levels) = Columns THEN {} ELSE DeniedColumns(denies)
  IN  [code |-> "ok",
       visible |-> (AllowedColumns(levels) \ BlockedColumns(levels)) \ denied,
       masks |-> [c \in MaskedColumns(levels) \ denied
                    |-> (CHOOSE l \in levels : TRUE).mask[c]],
       filtered |-> RowFilters(allows) # {},
       rows |-> AdmittedRows(allows, u)]

Resolve(allows, denies, u) ==
  LET levels == Levels(allows)
      denied == DeniedColumns(denies)
  IN  [code |-> "ok",
       visible |-> (AllowedColumns(levels) \ BlockedColumns(levels)) \ denied,
       masks |-> [c \in MaskedColumns(levels) \ denied
                    |-> (CHOOSE l \in levels : TRUE).mask[c]],
       filtered |-> RowFilters(allows) # {},
       rows |-> AdmittedRows(allows, u)]

(* Mutant: any matching rule opens the table. *)
EvaluateAnyMatch(P, t, u) ==
  LET allows == TablePoliciesOf(P, t, u, "allow")
      denies == TablePoliciesOf(P, t, u, "deny")
  IN  CASE \E p \in denies : p.deny_all -> Refusal("FORBIDDEN_TABLE")
        [] allows \cup denies = {} -> Refusal("FORBIDDEN_TABLE")
        [] OTHER -> Resolve(allows, denies, u)

Evaluate(P, t, u) ==
  LET allows == TablePoliciesOf(P, t, u, "allow")
      denies == TablePoliciesOf(P, t, u, "deny")
  IN  IF (\E p \in denies : p.deny_all) \/ allows = {}
        THEN Refusal("FORBIDDEN_TABLE")
        ELSE IF MaskConflict(Levels(allows))
               THEN Refusal("POLICY_MASK_CONFLICT")
               ELSE Resolve(allows, denies, u)

(* Without any rule the app has no engine and nothing is restricted. *)
Unenforced ==
  [code |-> "ok", visible |-> Columns, masks |-> [x \in {} |-> NullMask],
   filtered |-> FALSE, rows |-> Rows]

Decide(P, t, u) == IF P = {} THEN Unenforced ELSE Evaluate(P, t, u)

-----------------------------------------------------------------------------
(* The consumers: effective_registry and compile_query. *)

(* Mutant: every column of a surviving table is listed. *)
ListWholeTables(P, u) ==
  [t \in {s \in RegistryTables : Decide(P, s, u).code = "ok"} |->
     [filtered |-> Decide(P, t, u).filtered,
      masked |-> [c \in Registry[t] |-> c \in DOMAIN Decide(P, t, u).masks]]]

(* A mask that is SQL NULL raises no @masked flag. *)
EffectiveRegistry(P, u) ==
  [t \in {s \in RegistryTables : Decide(P, s, u).code = "ok"} |->
     LET resolved == Decide(P, t, u)
     IN  [filtered |-> resolved.filtered,
          masked |-> [c \in Registry[t] \cap resolved.visible |->
                        /\ c \in DOMAIN resolved.masks
                        /\ resolved.masks[c] # NullMask]]]

ScalarColumns(t) == Registry[t] \ ArrayColumns[t]

(* The columns a query selects and aggregates, and those its where and order use. *)
Queries ==
  [table : RegistryTables,
   select : SUBSET Columns, aggregates : SUBSET Columns, uses : SUBSET Columns]

(* For some columns, what stands for them in the SELECT. *)
Projections == UNION {[S -> Exprs \cup {Raw}] : S \in SUBSET Columns}

(* `values` are the columns of the rows, `aggregated` the arguments of min, sum, ... *)
Answers == [code : {"ok", "FORBIDDEN_TABLE", "FORBIDDEN_COLUMN", "POLICY_MASK_CONFLICT"},
            values : Projections, aggregated : Projections,
            filtered : BOOLEAN, rows : SUBSET Rows]

ASSUME AnswersAssumption == None \notin Answers

(* Mutant: the error of the policy engine is not told to the client as such. *)
RefusedUnmapped(c) ==
  [code |-> "INTERNAL_ERROR", values |-> [x \in {} |-> Raw], aggregated |-> [x \in {} |-> Raw],
   filtered |-> FALSE, rows |-> {}]

Refused(c) ==
  [code |-> c, values |-> [x \in {} |-> Raw], aggregated |-> [x \in {} |-> Raw],
   filtered |-> FALSE, rows |-> {}]

Shown(resolved, c) == IF c \in DOMAIN resolved.masks THEN resolved.masks[c] ELSE Raw

(* The columns that get into the statement: array columns are dropped unchecked. *)
Reads(q) == (q.select \cap ScalarColumns(q.table)) \cup q.aggregates \cup q.uses

(***************************************************************************)
(* The rows of an answer are those the policy lets the WHERE clause choose *)
(* from.  Masks replace columns of the rows; aggregate functions get the   *)
(* column itself.                                                          *)
(***************************************************************************)
CompileQuery(P, u, q) ==
  LET resolved == Decide(P, q.table, u)
  IN  IF resolved.code # "ok" THEN Refused(resolved.code)
      ELSE IF ~(Reads(q) \subseteq resolved.visible)
             THEN Refused("FORBIDDEN_COLUMN")
             ELSE [code |-> "ok",
                   values |-> [c \in q.select \cap ScalarColumns(q.table) |-> Shown(resolved, c)],
                   aggregated |-> [c \in q.aggregates |-> Raw],
                   filtered |-> resolved.filtered,
                   rows |-> resolved.rows]

-----------------------------------------------------------------------------

VARIABLES
  phase,     \* "editing" the config, "serving", or "refused" at startup
  policies,  \* the entries of security.policies
  listed,    \* what each caller was last shown of the registry
  asked,     \* the last query: who asked what
  answer     \* and the answer to it

vars == <<phase, policies, listed, asked, answer>>

NotAsked == [by |-> None, query |-> None]

Init ==
  /\ phase = "editing"
  /\ policies = {}
  /\ listed = [u \in Subjects |-> None]
  /\ asked = NotAsked
  /\ answer = None

WriteRule(e) ==
  /\ phase = "editing"
  /\ Cardinality(policies) < MaxRules
  /\ policies' = policies \cup {e}
  /\ UNCHANGED <<phase, listed, asked, answer>>

(* `serve` parses the config and checks it against the registry. *)
Start ==
  /\ phase = "editing"
  /\ phase' = IF \A e \in policies : LoadsOk(e) THEN "serving" ELSE "refused"
  /\ UNCHANGED <<policies, listed, asked, answer>>

Discover(u) ==
  /\ phase = "serving"
  /\ listed' = [listed EXCEPT ![u] = EffectiveRegistry(policies, u)]
  /\ UNCHANGED <<phase, policies, asked, answer>>

(* GraphQL only lets columns of the schema through; arrays can only be selected. *)
Query(u, q) ==
  /\ phase = "serving"
  /\ q.select \subseteq Registry[q.table]
  /\ q.aggregates \cup q.uses \subseteq ScalarColumns(q.table)
  /\ Cardinality(q.select) + Cardinality(q.aggregates) + Cardinality(q.uses) <= MaxNamed
  /\ asked' = [by |-> u, query |-> q]
  /\ answer' = CompileQuery(policies, u, q)
  /\ UNCHANGED <<phase, policies, listed>>

(* The operator rewrites the config; callers start afresh. *)
Stop ==
  /\ phase \in {"serving", "refused"}
  /\ phase' = "editing"
  /\ policies' = {}
  /\ listed' = [u \in Subjects |-> None]
  /\ asked' = NotAsked
  /\ answer' = None

Next ==
  \/ \E e \in Entries : WriteRule(e)
  \/ Start
  \/ \E u \in Subjects : Discover(u)
  \/ \E u \in Subjects, q \in Queries : Query(u, q)
  \/ Stop

Spec == Init /\ [][Next]_vars

-----------------------------------------------------------------------------
(* Properties. *)

TypeOK ==
  /\ phase \in {"editing", "serving", "refused"}
  /\ policies \subseteq Entries
  /\ asked = NotAsked \/ asked \in [by : Subjects, query : Queries]
  /\ answer \in Answers \cup {None}
  /\ answer = None <=> asked = NotAsked
  /\ phase # "serving" => answer = None

Granted == answer # None /\ answer.code = "ok"

(***************************************************************************)
(* A deny always wins over an allow (docs/access-policy.md:105): whatever  *)
(* allow rules match, a granted query uses no table and no column that a   *)
(* matching deny names, not even in an aggregate, a filter or an ordering. *)
(***************************************************************************)
DenyWins ==
  Granted =>
    \A e \in Matching(policies, asked.query.table, asked.by, "deny") :
      LET tp == e.tables[asked.query.table]
      IN  ~tp.deny_all /\ tp.deny_columns \cap Reads(asked.query) = {}

(***************************************************************************)
(* Default-deny: a granted query has a matching allow rule, and each       *)
(* column it uses is included by one, unless none of them restricts        *)
(* columns.  A matching deny never stands in for a grant.  (An empty       *)
(* policy enforces nothing, cli.py:122-127.)                               *)
(***************************************************************************)
GrantedByAllow ==
  Granted /\ policies # {} =>
    LET allows == TablePoliciesOf(policies, asked.query.table, asked.by, "allow")
    IN  /\ allows # {}
        /\ Levels(allows) # {} =>
             \A c \in Reads(asked.query) :
               \E l \in Levels(allows) : l.include_all \/ c \in l.includes

(***************************************************************************)
(* Mask conflicts raise rather than pick an expression: a value in a row   *)
(* is masked only as every matching column policy asks, and raw only if    *)
(* one of them leaves the column unmasked.  It is about the rows alone:    *)
(* an aggregate of a masked column is of its raw values, whatever the      *)
(* masks (query.py:388-401; test_integration.py:700 asks for it).          *)
(***************************************************************************)
MasksUnanimous ==
  Granted =>
    LET levels == Levels(TablePoliciesOf(policies, asked.query.table, asked.by, "allow"))
    IN  \A c \in DOMAIN answer.values :
          IF answer.values[c] = Raw
            THEN levels = {} \/ \E l \in levels : c \notin DOMAIN l.mask
            ELSE \A l \in levels : c \in DOMAIN l.mask /\ l.mask[c] = answer.values[c]

(***************************************************************************)
(* Once a matching allow rule declares a row filter, every row the query   *)
(* can reach passes the filter of some matching rule, also when another    *)
(* matching rule declares none.                                            *)
(***************************************************************************)
RowsPassAFilter ==
  Granted =>
    LET allows == TablePoliciesOf(policies, asked.query.table, asked.by, "allow")
    IN  RowFilters(allows) # {} =>
          \A r \in answer.rows : \E f \in RowFilters(allows) : r \in RowsOf(f, asked.by)

(***************************************************************************)
(* Discovery and enforcement agree (policy.py:240-242, effective.py): a    *)
(* query by a caller that has looked at its view of the registry is        *)
(* granted exactly when the view lists its table and every scalar column   *)
(* it names (an array column is never refused, see StrictColumns), and     *)
(* it gets what the view announces: the rows are cut exactly when the view *)
(* says so, a column comes as an expression exactly when it is @masked,    *)
(* but for masks that are NULL.                                            *)
(***************************************************************************)
DiscoveryAgrees ==
  answer # None /\ listed[asked.by] # None =>
    LET view == listed[asked.by]
        q == asked.query
    IN  /\ Granted <=> q.table \in DOMAIN view /\ Reads(q) \subseteq DOMAIN view[q.table].masked
        /\ Granted =>
             /\ answer.filtered <=> view[q.table].filtered
             /\ \A c \in DOMAIN answer.values :
                  view[q.table].masked[c] <=> answer.values[c] \notin {Raw, NullMask}

(***************************************************************************)
(* docs/access-policy.md:261-265, "Strict columns": a request that selects *)
(* a column the merged policy does not allow is rejected, "Columns are     *)
(* never silently stripped from the response".                             *)
(***************************************************************************)
StrictColumns ==
  Granted =>
    asked.query.select \subseteq Decide(policies, asked.query.table, asked.by).visible

(* What a rule set lets a caller see of a table. *)
Cells(P, t, u) ==
  LET resolved == Decide(P, t, u)
  IN  {<<r, c, Shown(resolved, c)>> :
         r \in resolved.rows, c \in resolved.visible \cap ScalarColumns(t)}

(***************************************************************************)
(* Denies are subtractive (docs/access-policy.md:117): writing one more    *)
(* deny rule never lets any caller see a row, a column or an unmasked      *)
(* value it did not see before.                                            *)
(***************************************************************************)
DenyShrinks ==
  [][\A e \in Entries :
       WriteRule(e) /\ e.effect = "deny" =>
         \A u \in Subjects, t \in RegistryTables :
           Cells(policies', t, u) \subseteq Cells(policies, t, u)]_vars

(***************************************************************************)
(* docs/access-policy.md:449: "users with multiple applicable roles get    *)
(* the union": what one matching allow rule alone lets a caller see, it    *)
(* also sees when further allow rules match.                               *)
(***************************************************************************)
UnionOfRoles ==
  phase = "serving" =>
    \A u \in Subjects, t \in RegistryTables :
      Matching(policies, t, u, "deny") = {} =>
        \A e \in policies :
          \A cell \in Cells({e}, t, u) :
            \E other \in Cells(policies, t, u) :
              other[1] = cell[1] /\ other[2] = cell[2]

=============================================================================
