------------------------------ MODULE RowFilter ------------------------------
(***************************************************************************)
(* The row-filter DSL of access policies: what validate_row_filter accepts *)
(* when the policy is loaded, and what compile_row_filter makes of an      *)
(* accepted tree for one caller, run by the warehouse in SQL's             *)
(* three-valued logic.                                                     *)
(*                                                                         *)
(* A node is the mapping the YAML file holds: its logical operators with   *)
(* their sub-trees and its column keys with their comparisons, each in     *)
(* file order.  A comparison has one operator; its right-hand side is a    *)
(* list of literals and JWT references (one, but for _in and _nin).        *)
(***************************************************************************)
EXTENDS Integers, Sequences, SequencesExt

CONSTANTS
  Null,     \* SQL NULL, and a claim the JWT does not carry
  Height    \* the height of every tree in the policy file, sub-trees included

Nodes == DOMAIN Height

Kids(n) == UNION {ToSet(o.kids) : o \in ToSet(n.ops)}

IsSequence(s) == s \in Seq(ToSet(s))

(* YAML holds lists and mappings in each other, to a finite depth. *)
ASSUME TreesAssumption ==
  /\ Height \in [Nodes -> Nat]
  /\ \A n \in Nodes :
       /\ IsSequence(n.ops) /\ \A o \in ToSet(n.ops) : IsSequence(o.kids)
       /\ IsSequence(n.keys) /\ \A c \in ToSet(n.keys) : IsSequence(c.values)
       /\ \A kid \in Kids(n) : kid \in Nodes /\ Height[kid] < Height[n]

TRUE3 == "T"
FALSE3 == "F"
UNKNOWN == "U"

Comparison(col, op, values) == [col |-> col, op |-> op, values |-> values]

Literal(v) == [jwt |-> Null, literal |-> v]
Jwt(claim) == [jwt |-> claim, literal |-> Null]

Column(c) == [ops |-> <<>>, keys |-> <<c>>]
Logical(op, kids) == [ops |-> <<[op |-> op, kids |-> kids]>>, keys |-> <<>>]

ListOps == {"_in", "_nin"}

-----------------------------------------------------------------------------
(* validate_row_filter *)

ValidComparison(c) ==
  IF c.op \in ListOps
    THEN c.values # <<>> /\ \A v \in ToSet(c.values) : v.jwt # Null \/ v.literal # Null
    ELSE /\ c.op \in {"_eq", "_neq", "_gt", "_is_null", "_iregex"}
         /\ Len(c.values) = 1
         /\ c.op = "_is_null" => c.values[1].literal \in BOOLEAN

(* A node, given which sub-trees are valid. *)
WellFormedNode(n, valid, columns) ==
  /\ Len(n.ops) + Len(n.keys) > 0
  /\ n.ops = <<>> \/ n.keys = <<>>
  /\ Len(n.ops) <= 1
  /\ \A o \in ToSet(n.ops) :
       /\ o.op \in {"_and", "_or", "_not"}
       /\ o.kids # <<>>
       /\ o.op = "_not" => Len(o.kids) = 1
       /\ \A kid \in ToSet(o.kids) : valid[kid]
  /\ \A c \in ToSet(n.keys) : c.col \in columns /\ ValidComparison(c)

ValidNodes(columns) ==
  LET valid[n \in Nodes] == WellFormedNode(n, valid, columns) IN valid

ValidNode(n, columns) == ValidNodes(columns)[n]

-----------------------------------------------------------------------------
(* SQL's three-valued logic. *)

Truth(b) == IF b THEN TRUE3 ELSE FALSE3

Not3(a) == CASE a = TRUE3 -> FALSE3 [] a = FALSE3 -> TRUE3 [] OTHER -> UNKNOWN

And3(S) == IF FALSE3 \in S THEN FALSE3 ELSE IF UNKNOWN \in S THEN UNKNOWN ELSE TRUE3

Or3(S) == Not3(And3({Not3(a) : a \in S}))

(* x op y for one right-hand side. *)
Compare(op, x, y) ==
  IF x = Null \/ y = Null THEN UNKNOWN
  ELSE Truth(CASE op = "_eq" -> x = y
               [] op = "_neq" -> x # y
               [] op = "_gt" -> x > y
               [] op = "_iregex" -> x = y)   \* a pattern that matches itself

-----------------------------------------------------------------------------
(* compile_row_filter, evaluated on a row. *)

(* Mutant: a missing claim gets a default value. *)
MissingClaimAsZero(v, claims) ==
  IF v.jwt = Null THEN v.literal ELSE IF claims[v.jwt] = Null THEN 0 ELSE claims[v.jwt]

(* A JWT path is resolved when the filter is compiled; a missing claim is NULL. *)
ResolveJwtPath(v, claims) == IF v.jwt = Null THEN v.literal ELSE claims[v.jwt]

(***************************************************************************)
(* apply_comparison on bound values.  For _iregex it formats the bind      *)
(* parameter into the pattern, so the pattern is the parameter's name: no  *)
(* value in this model.                                                    *)
(***************************************************************************)
ApplyComparison(c, row, claims) ==
  LET x == row[c.col]
      bound == [i \in DOMAIN c.values |-> ResolveJwtPath(c.values[i], claims)]
      isIn == Or3({Compare("_eq", x, y) : y \in ToSet(bound)})
  IN  CASE c.op = "_in" -> isIn
        [] c.op = "_nin" -> Not3(isIn)
        [] c.op = "_is_null" -> Truth((x = Null) = c.values[1].literal)
        [] c.op = "_iregex" -> IF x = Null THEN UNKNOWN ELSE FALSE3
        [] OTHER -> Compare(c.op, x, bound[1])

Connect(op, kids) ==
  CASE op = "_and" -> And3(kids)
    [] op = "_or" -> Or3(kids)
    [] OTHER -> Not3(CHOOSE a \in kids : TRUE)

(* A node, given the truth of its sub-trees; of column keys, the first. *)
CompiledNode(n, truth, row, claims) ==
  IF n.ops = <<>>
    THEN ApplyComparison(Head(n.keys), row, claims)
    ELSE Connect(n.ops[1].op, {truth[k] : k \in ToSet(n.ops[1].kids)})

CompiledTruths(row, claims) ==
  LET truth[n \in Nodes] == CompiledNode(n, truth, row, claims) IN truth

CompiledTruth(n, row, claims) == CompiledTruths(row, claims)[n]

-----------------------------------------------------------------------------
(* What a tree says: every key of a node is a condition, each on its value. *)

StatedNode(n, truth, row, claims) ==
  LET keys == {IF c.op = "_iregex"
                 THEN Compare("_iregex", row[c.col], ResolveJwtPath(c.values[1], claims))
                 ELSE ApplyComparison(c, row, claims) : c \in ToSet(n.keys)}
  IN  IF n.ops = <<>> THEN And3(keys)
      ELSE Connect(n.ops[1].op, {truth[k] : k \in Kids(n)})

StatedTruths(row, claims) ==
  LET truth[n \in Nodes] == StatedNode(n, truth, row, claims) IN truth

StatedTruth(n, row, claims) == StatedTruths(row, claims)[n]

=============================================================================
