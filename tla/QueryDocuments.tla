---------------------------- MODULE QueryDocuments ----------------------------
(***************************************************************************)
(* What becomes of a GraphQL document: the query guards                    *)
(* (src/src/dbt_graphql/graphql/guards.py) that limit its shape, the two   *)
(* ways to send it (POST /graphql and the MCP tool run_graphql), what a    *)
(* connection resolver takes from its syntax tree, and the reply.          *)
(*                                                                         *)
(* A document is one operation and its fragments.  A selection set is a    *)
(* sequence of nodes [kind, name, first, order, sel]: a field with its     *)
(* arguments `first` and `order_by` (its columns), whose `sel` is empty    *)
(* when it has no selection set, an inline fragment, or the spread of the  *)
(* fragment `name`.  Documents are valid by GraphQL's own rules; aliases   *)
(* and several operations are left out.                                    *)
(***************************************************************************)
EXTENDS Naturals, Sequences, FiniteSets, SequencesExt

CONSTANTS
  Calls,         \* calls of the two interfaces
  Documents,     \* what clients send, [op, frags]
  Heights,       \* how deep each node of each document goes, fragments put in place
  MaxDepth,      \* query_max_depth
  MaxFields,     \* query_max_fields
  MaxLimit,      \* query_max_limit
  DefaultLimit,  \* query_default_limit
  Variables,     \* values clients bind to the variable of `first`
  Variable,      \* `first` is a variable
  None           \* no argument, no refusal

NodesOf(d) == DOMAIN Heights[d]

(* The nodes that a node stands for or holds. *)
Below(d, n) == IF n.kind = "spread" THEN d.frags[n.name].sel ELSE n.sel

IsMeta(n) == n.kind = "field" /\ n.name \in {"__schema", "__type", "__typename"}

NotMeta(n) == ~IsMeta(n)

(* Nodes that are reached without passing through a field of introspection. *)
DataNodes(d) ==
  {n \in NodesOf(d) :
     \A S \in SUBSET NodesOf(d) :
       /\ ToSet(d.op) \subseteq S
       /\ \A m \in S : NotMeta(m) => ToSet(Below(d, m)) \subseteq S
       => n \in S}

IsSequence(s) == s \in Seq(ToSet(s))

ASSUME DocumentsAssumption ==
  /\ {MaxDepth, MaxFields, MaxLimit, DefaultLimit} \subseteq Nat
  /\ DefaultLimit <= MaxLimit
  /\ Variables \subseteq Nat \cup {None}
  /\ None \notin Documents /\ None \notin {"503", "success"}

(* Syntax trees are finite. *)
ASSUME TreesAssumption ==
  \A d \in Documents :
    /\ Heights[d] \in [NodesOf(d) -> Nat]
    /\ IsSequence(d.op) /\ IsFiniteSet(DOMAIN d.frags)
    /\ \A f \in DOMAIN d.frags : IsSequence(d.frags[f].sel)
    /\ NodesOf(d) = UNION ({ToSet(d.op)} \cup {ToSet(d.frags[f].sel) : f \in DOMAIN d.frags}
                                         \cup {ToSet(n.sel) : n \in NodesOf(d)})
    /\ \A n \in NodesOf(d) :
         /\ n.kind \in {"field", "inline", "spread"} /\ IsSequence(n.sel)
         /\ n.first \in Nat \cup {None, Variable}
         /\ \A m \in ToSet(n.sel) : Heights[d][m] < Heights[d][n]

(* GraphQL's rules for fragments: they are defined, used, do not contain   *)
(* themselves, and data is not selected on types of introspection.         *)
ASSUME FragmentsAssumption ==
  \A d \in Documents :
    /\ \A n \in NodesOf(d) : n.kind = "spread" =>
         /\ n.name \in DOMAIN d.frags
         /\ \A m \in ToSet(Below(d, n)) : Heights[d][m] < Heights[d][n]
         /\ n \in DataNodes(d) => d.frags[n.name].on = "data"
    /\ \A f \in DOMAIN d.frags : d.frags[f].on = "data" =>
         \E n \in DataNodes(d) : n.kind = "spread" /\ n.name = f

-----------------------------------------------------------------------------
(* Query guards. *)

Sum(s) ==
  LET upTo[i \in 0 .. Len(s)] == IF i = 0 THEN 0 ELSE upTo[i - 1] + s[i]
  IN  upTo[Len(s)]

IsLeaf(n) == n.kind = "field" /\ NotMeta(n) /\ \A m \in ToSet(n.sel) : IsMeta(m)

(***************************************************************************)
(* _walk: the levels of fields below a selection set, given those below    *)
(* its nodes, and its leaves.  A spread is passed over, having no          *)
(* selection set of its own.                                               *)
(***************************************************************************)
LevelsOfAll(sel, levels) == Max({0} \cup {levels[n] : n \in ToSet(sel)})

LevelsOf(n, levels) ==
  CASE n.kind = "spread" \/ IsMeta(n) \/ IsLeaf(n) -> 0
    [] n.kind = "inline" -> LevelsOfAll(n.sel, levels)
    [] OTHER -> LevelsOfAll(n.sel, levels) + 1

Levels ==
  [d \in Documents |-> LET levels[n \in NodesOf(d)] == LevelsOf(n, levels) IN levels]

FieldsOfAll(sel, fields) == Sum([i \in DOMAIN sel |-> fields[sel[i]]])

FieldsOf(n, fields) ==
  CASE n.kind = "spread" \/ IsMeta(n) -> 0
    [] IsLeaf(n) -> 1
    [] OTHER -> FieldsOfAll(n.sel, fields)

Fields ==
  [d \in Documents |-> LET fields[n \in NodesOf(d)] == FieldsOf(n, fields) IN fields]

(***************************************************************************)
(* _check, of an operation or a fragment, whose first level counts.  What  *)
(* is introspection adds nothing; when all is, there is nothing to check.  *)
(***************************************************************************)
Check(d, sel) ==
  {code \in {"MAX_DEPTH_EXCEEDED", "MAX_FIELDS_EXCEEDED"} :
     /\ \E n \in ToSet(sel) : NotMeta(n)
     /\ \/ code = "MAX_DEPTH_EXCEEDED" /\ LevelsOfAll(sel, Levels[d]) + 1 > MaxDepth
        \/ code = "MAX_FIELDS_EXCEEDED" /\ FieldsOfAll(sel, Fields[d]) > MaxFields}

(* Mutant: fragments on __Type and the like are walked as well. *)
ShapeErrorsEverywhere(d) ==
  Check(d, d.op) \cup UNION {Check(d, d.frags[f].sel) : f \in DOMAIN d.frags}

(* Mutant: fragment definitions are not looked at. *)
ShapeErrorsOfOperation(d) == Check(d, d.op)

(* QueryShapeRule; fragments on introspection types are exempt. *)
ShapeErrors(d) ==
  Check(d, d.op) \cup
  UNION {Check(d, d.frags[f].sel) : f \in {g \in DOMAIN d.frags : d.frags[g].on = "data"}}

(* LimitRule: literals only; a variable has no value yet. *)
LimitErrors(d) ==
  {"MAX_LIMIT_EXCEEDED" : n \in {m \in NodesOf(d) : m.first \in Nat /\ m.first > MaxLimit}}

GuardErrors(d) == ShapeErrors(d) \cup LimitErrors(d)

(* Mutant: run_graphql validates by GraphQL's own rules alone. *)
GuardErrorsOfHttp(call) == IF call.via = "http" THEN GuardErrors(call.doc) ELSE {}

(* Both interfaces validate by the rules of the one bundle. *)
ValidationErrors(call) == GuardErrors(call.doc)

-----------------------------------------------------------------------------
(* What a connection resolver reads from the tree. *)

(* The fields of a selection set, as the executor collects them. *)
CollectedFrom(d, n, fields) ==
  IF n.kind = "field" THEN <<n>>
  ELSE FlattenSeq([i \in DOMAIN Below(d, n) |-> fields[Below(d, n)[i]]])

Collected ==
  [d \in Documents |-> LET fields[n \in NodesOf(d)] == CollectedFrom(d, n, fields) IN fields]

Collect(d, sel) == FlattenSeq([i \in DOMAIN sel |-> Collected[d][sel[i]]])

NamesOf(S) == {n.name : n \in S}

(* Where children of a name stand, fields or spreads, and the first of them. *)
Found(sel, name) == {i \in DOMAIN sel : sel[i].kind # "inline" /\ sel[i].name = name}

First(sel, name) == sel[Min(Found(sel, name))]

Roots(d) == NamesOf({n \in ToSet(Collect(d, d.op)) : NotMeta(n)})

(* info.field_nodes[0]: of several nodes for one field, the first. *)
Top(d, t) == First(Collect(d, d.op), t)

(* The children looked at until one has this name. *)
UpTo(sel, name) ==
  IF Found(sel, name) = {} THEN sel ELSE SubSeq(sel, 1, Min(Found(sel, name)))

(* Taking the name of an inline fragment raises AttributeError. *)
HasInline(sel) == \E n \in ToSet(sel) : n.kind = "inline"

(* resolve_connection's refusals that only depend on the tree, in order.   *)
(* A spread of a fragment named `nodes` has no selection set to look at.   *)
Unreadable(top) ==
  LET nodes == First(top.sel, "nodes")
      paged == Found(top.sel, "pageInfo") # {}
  IN  IF HasInline(UpTo(top.sel, "nodes")) THEN "INTERNAL_ERROR"
      ELSE IF Found(top.sel, "nodes") = {} THEN "MISSING_NODES_SELECTION"
      ELSE IF nodes.kind = "spread" THEN "INTERNAL_ERROR"
      ELSE IF top.order # {} /\ HasInline(nodes.sel) THEN "INTERNAL_ERROR"
      ELSE IF ~(top.order \subseteq NamesOf(ToSet(nodes.sel))) THEN "ORDER_BY_NOT_IN_SELECTION"
      ELSE IF HasInline(UpTo(top.sel, "pageInfo")) THEN "INTERNAL_ERROR"
      ELSE IF paged /\ top.order = {} THEN "ORDER_BY_REQUIRED"
      ELSE IF HasInline(nodes.sel) THEN "INTERNAL_ERROR"
      ELSE None

(* Mutant: the cap is left to the guards. *)
EffectiveFirstOfGuards(first) == IF first = None THEN DefaultLimit ELSE first

EffectiveFirst(first) ==
  LET asked == IF first = None THEN DefaultLimit ELSE first
  IN  Min({asked, MaxLimit})

Bound(first, variable) == IF first = Variable THEN variable ELSE first

(* Columns of the SELECT, by the names right below the first `nodes`; the  *)
(* name of a fragment counts too.  A name of no column adds none.          *)
Columns(top) == NamesOf({n \in ToSet(First(top.sel, "nodes").sel) : NotMeta(n)})

-----------------------------------------------------------------------------

VARIABLE calls

NotSent ==
  [stage |-> "idle", doc |-> None, via |-> "http", validate_only |-> FALSE,
   variable |-> None, fields |-> <<>>, errors |-> {}, status |-> None]

Init == calls = [c \in Calls |-> NotSent]

(* A client sends a document; validate_only is an argument of run_graphql. *)
Send(c, d, via, only, v) ==
  /\ calls[c].stage = "idle"
  /\ only => via = "mcp"
  /\ v # None => \E n \in NodesOf(d) : n.first = Variable
  /\ calls' = [calls EXCEPT ![c] =
       [NotSent EXCEPT !.stage = "sent", !.doc = d, !.via = via,
                       !.validate_only = only, !.variable = v]]

(* Validation fails: 400, or a payload of errors. *)
Refuse(c) ==
  /\ calls[c].stage = "sent"
  /\ ValidationErrors(calls[c]) # {}
  /\ calls' = [calls EXCEPT ![c].stage = "refused", ![c].errors = ValidationErrors(calls[c]),
                            ![c].status = IF calls[c].via = "http" THEN "400" ELSE "error"]

Approve(c) ==
  /\ calls[c].stage = "sent"
  /\ ValidationErrors(calls[c]) = {}
  /\ calls[c].validate_only
  /\ calls' = [calls EXCEPT ![c].stage = "approved", ![c].status = "success"]

Execute(c) ==
  /\ calls[c].stage = "sent"
  /\ ValidationErrors(calls[c]) = {}
  /\ ~calls[c].validate_only
  /\ calls' = [calls EXCEPT ![c].stage = "running"]

Resolved(c) == DOMAIN calls[c].fields

(***************************************************************************)
(* What becomes of a root field: the rows of a page, all values as their   *)
(* columns declare them or, in a nullable column, some that do not         *)
(* serialize and are null ("partial"); or an error, of the resolver or of  *)
(* such a value in a column that is not nullable.                          *)
(***************************************************************************)
Outcomes(top) ==
  IF Unreadable(top) # None THEN {Unreadable(top)}
  ELSE {"rows", "partial", "POOL_TIMEOUT", "FORBIDDEN_COLUMN", "INTERNAL_ERROR", "BAD_VALUE"}

WithPage(fields, t, page) ==
  [u \in DOMAIN fields \cup {t} |-> IF u = t THEN page ELSE fields[u]]

(* An answer that an error has left without data. *)
Emptied(call) == call.errors # {} /\ DOMAIN call.fields = {}

Resolves(c, t, outcome) ==
  /\ calls[c].stage = "running"
  /\ ~Emptied(calls[c])
  /\ t \in Roots(calls[c].doc) \ Resolved(c)
  /\ outcome \in Outcomes(Top(calls[c].doc, t))

(* A page joins the answer, with the error of its bad values if it has any. *)
ResolveToPage(c, t, outcome) ==
  LET top == Top(calls[c].doc, t)
      page == [limit |-> EffectiveFirst(Bound(top.first, calls[c].variable)),
               columns |-> Columns(top),
               whole |-> outcome = "rows"]
  IN  /\ Resolves(c, t, outcome)
      /\ outcome \in {"rows", "partial"}
      /\ calls' = [calls EXCEPT ![c].fields = WithPage(@, t, page),
                               ![c].errors = @ \cup (IF page.whole THEN {} ELSE {"BAD_VALUE"})]

(* Mutant: a root field may be null, and the others are kept. *)
ResolveToNull(c, t, outcome) ==
  /\ Resolves(c, t, outcome)
  /\ outcome \notin {"rows", "partial"}
  /\ calls' = [calls EXCEPT ![c].errors = @ \cup {outcome}]

(* No root field may be null: an error takes the data of the others along  *)
(* and ends the execution; errors of bad values are kept beside it.        *)
ResolveToError(c, t, outcome) ==
  /\ Resolves(c, t, outcome)
  /\ outcome \notin {"rows", "partial"}
  /\ calls' = [calls EXCEPT ![c].fields = <<>>, ![c].errors = @ \cup {outcome}]

(* Root fields resolve in any order. *)
Resolve(c, t, outcome) == ResolveToPage(c, t, outcome) \/ ResolveToError(c, t, outcome)

(* Mutant: run_graphql returns what execution returned, errors or not. *)
StatusOfReturn(call) ==
  CASE call.via = "mcp" -> "success"
    [] call.via = "http" /\ "POOL_TIMEOUT" \in call.errors -> "503"
    [] OTHER -> "200"

(* PoolAwareHandler, and how _instrument_tool counts the call. *)
Status(call) ==
  CASE call.via = "mcp" -> IF call.errors = {} THEN "success" ELSE "error"
    [] call.via = "http" /\ "POOL_TIMEOUT" \in call.errors -> "503"
    [] OTHER -> "200"

Reply(c) ==
  /\ calls[c].stage = "running"
  /\ Emptied(calls[c]) \/ Resolved(c) = Roots(calls[c].doc)
  /\ calls' = [calls EXCEPT ![c].stage = "replied", ![c].status = Status(calls[c])]

Next ==
  \E c \in Calls :
    \/ \E d \in Documents, via \in {"http", "mcp"}, only \in BOOLEAN, v \in Variables :
         Send(c, d, via, only, v)
    \/ Refuse(c)
    \/ Approve(c)
    \/ Execute(c)
    \/ calls[c].stage = "running" /\
         \E t \in Roots(calls[c].doc) : \E o \in Outcomes(Top(calls[c].doc, t)) : Resolve(c, t, o)
    \/ Reply(c)

Spec == Init /\ [][Next]_calls

-----------------------------------------------------------------------------
(* Properties. *)

Ran(c) == calls[c].stage \in {"running", "replied"}

(***************************************************************************)
(* The data leaves of a document, its fragments put in place: where each   *)
(* stands, and how many fields lead to it.                                 *)
(***************************************************************************)
LeavesOfAll(sel, leaves, level) ==
  UNION {{[at |-> <<i>> \o l.at, depth |-> l.depth + level] : l \in leaves[sel[i]]}
           : i \in DOMAIN sel}

LeavesOf(d, n, leaves) ==
  CASE IsMeta(n) -> {}
    [] IsLeaf(n) -> {[at |-> <<>>, depth |-> 1]}
    [] OTHER -> LeavesOfAll(Below(d, n), leaves, IF n.kind = "field" THEN 1 ELSE 0)

LeavesBelow ==
  [d \in Documents |-> LET leaves[n \in NodesOf(d)] == LeavesOf(d, n, leaves) IN leaves]

Leaves(d) == LeavesOfAll(d.op, LeavesBelow[d], 0)

Depth(d) == Max({0} \cup {l.depth : l \in Leaves(d)})

DataFragments(d) == {f \in DOMAIN d.frags : d.frags[f].on = "data"}

(***************************************************************************)
(* What runs is within the limits: the document is neither deeper nor      *)
(* wider, and no page has more than query_max_limit rows, whether `first`  *)
(* was a literal, which the guards see, or a variable, which they do not.  *)
(* Named fragments are limited on their own: put in place they make a      *)
(* document deeper by at most one limit each.                              *)
(***************************************************************************)
RunsWithinLimits ==
  \A c \in Calls : Ran(c) =>
    LET d == calls[c].doc
    IN  /\ Depth(d) <= MaxDepth * (1 + Cardinality(DataFragments(d)))
        /\ DataFragments(d) = {} => Cardinality(Leaves(d)) <= MaxFields
        /\ \A t \in Resolved(c) : calls[c].fields[t].limit <= MaxLimit

(* A field of data with a selection, but of nothing except __typename. *)
Hollow(d) ==
  \E n \in DataNodes(d) :
    n.kind = "field" /\ NotMeta(n) /\ ~IsLeaf(n) /\ LeavesBelow[d][n] = {}

(***************************************************************************)
(* A document is only refused for its shape when it is too deep or too     *)
(* wide: introspection alone never is, however deep and through whatever   *)
(* fragments (docs/configuration.md:101).                                  *)
(***************************************************************************)
RefusalsAreDeserved ==
  \A c \in Calls : calls[c].stage = "refused" =>
    LET d == calls[c].doc
    IN  /\ "MAX_DEPTH_EXCEEDED" \in calls[c].errors => Depth(d) > MaxDepth \/ Hollow(d)
        /\ "MAX_FIELDS_EXCEEDED" \in calls[c].errors => Cardinality(Leaves(d)) > MaxFields

(***************************************************************************)
(* The two interfaces refuse the same documents for the same reasons, and  *)
(* a document that validate_only approved is not refused when it is run.   *)
(***************************************************************************)
InterfacesAgree ==
  \A b, c \in Calls :
    calls[b].doc = calls[c].doc /\ calls[b].stage = "refused" =>
      /\ calls[c].stage \in {"sent", "refused"}
      /\ calls[c].stage = "refused" => calls[b].errors = calls[c].errors

(* Every table asked for was read, and every value of it could be shown. *)
Complete(c) ==
  Resolved(c) = Roots(calls[c].doc) /\ \A t \in Resolved(c) : calls[c].fields[t].whole

(***************************************************************************)
(* Failures are told.  An answer without errors is complete, and one with  *)
(* errors is not; it has the tables all together or none of them, so that  *)
(* a table is never missing beside others.  503 is the answer over HTTP    *)
(* if a pool was full (docs/configuration.md:83), whatever other errors    *)
(* there are, and in no other case.  A call of run_graphql is counted as a *)
(* success if it is complete, which partial success (mcp/server.py:477) is *)
(* not, or if it was only to validate a document that can be run.          *)
(***************************************************************************)
RepliesTellFailures ==
  \A c \in Calls :
    /\ calls[c].stage = "replied" =>
         /\ calls[c].errors = {} <=> Complete(c)
         /\ Resolved(c) \in {{}, Roots(calls[c].doc)}
    /\ calls[c].status = "503" <=>
         /\ calls[c].stage = "replied" /\ calls[c].via = "http"
         /\ "POOL_TIMEOUT" \in calls[c].errors
    /\ calls[c].status = "success" =>
         \/ calls[c].stage = "replied" /\ Complete(c)
         \/ calls[c].validate_only /\ GuardErrors(calls[c].doc) = {}

(***************************************************************************)
(* docs/compiler.md:3: the compiler "translates a GraphQL selection into a *)
(* single warehouse SQL SELECT": the columns that a document asks of a     *)
(* table, in whatever way GraphQL lets it ask, are in the SELECT.          *)
(***************************************************************************)
AskedColumns(d, t) ==
  LET Under(S, name) == UNION {ToSet(Collect(d, n.sel)) : n \in {m \in S : m.name = name}}
  IN  NamesOf({n \in Under(Under(ToSet(Collect(d, d.op)), t), "nodes") : NotMeta(n)})

AskedForIsRead ==
  \A c \in Calls : \A t \in Resolved(c) :
    AskedColumns(calls[c].doc, t) \subseteq calls[c].fields[t].columns

=============================================================================
