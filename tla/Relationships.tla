---------------------------- MODULE Relationships ----------------------------
(***************************************************************************)
(* From a dbt project to the relations the API serves: foreign-key         *)
(* constraints, `relationships` tests and the joins of compiled SQL each    *)
(* declare relationships (dbt/processors/), extract_project merges them by  *)
(* name, and the generator gives each column at most one of them.          *)
(*                                                                         *)
(* Names of models and columns are sequences of words: the code puts names  *)
(* together with "_", and two relationships may come to the same name.     *)
(*                                                                         *)
(* A project is a record                                                   *)
(*   models:      the columns of each model kept, from the catalog         *)
(*   constraints: foreign keys, as [from, form, columns, to, to_columns]    *)
(*   tests:       as [from, column, to, field]                             *)
(*   joins:       equalities of ON clauses, as [model, left, right], where  *)
(*                left and right are [table, column] and `model` is the     *)
(*                model whose SQL it is                                    *)
(* each list in the order of the manifest.                                 *)
(***************************************************************************)
EXTENDS Naturals, Sequences

CONSTANT Unknown  \* a table reference that resolves to nothing

(* Mutant: named by its tables alone. *)
RelNamedByTables(from, cols, to, to_cols, origin) ==
  [name |-> from \o to, origin |-> origin,
   from_model |-> from, from_columns |-> cols, to_model |-> to, to_columns |-> to_cols]

(* ProcessorRelationship.  Only the first columns are in its name. *)
Rel(from, cols, to, to_cols, origin) ==
  [name |-> from \o cols[1] \o to \o to_cols[1], origin |-> origin,
   from_model |-> from, from_columns |-> cols, to_model |-> to, to_columns |-> to_cols]

-----------------------------------------------------------------------------
(* The three sources. *)

(* `to` must be the relation of some node, and an `expression` (the older   *)
(* form) must read table(column).                                          *)
IsForeignKey(c) == c.to # Unknown

(* Mutant: of a foreign key over several columns the first is kept. *)
FirstColumnOnly(c) ==
  Rel(c.from, <<c.columns[1]>>, c.to, <<c.to_columns[1]>>, "constraint")

(* `expression` gives one column, `to_columns` as many as there are. *)
ForeignKey(c) ==
  IF c.form = "expression"
    THEN Rel(c.from, <<c.columns[1]>>, c.to, <<c.to_columns[1]>>, "constraint")
    ELSE Rel(c.from, c.columns, c.to, c.to_columns, "constraint")

RelationshipTest(t) == Rel(t.from, <<t.column>>, t.to, <<t.field>>, "data_test")

(* Joins of two other tables, of unknown ones and of a column with itself   *)
(* say nothing.                                                            *)
IsMined(j) ==
  /\ Unknown \notin {j.left.table, j.right.table}
  /\ j.left # j.right
  /\ j.model \in {j.left.table, j.right.table}

Mined(l, r) == Rel(l.table, <<l.column>>, r.table, <<r.column>>, "lineage")

(* The model whose SQL it is comes first. *)
MinedJoin(j) ==
  IF j.left.table = j.model THEN Mined(j.left, j.right) ELSE Mined(j.right, j.left)

(* The entries of each list that declare a relationship. *)
Constraints(p) == {i \in DOMAIN p.constraints : IsForeignKey(p.constraints[i])}

Tests(p) == DOMAIN p.tests

MinedJoins(p) == {i \in DOMAIN p.joins : IsMined(p.joins[i])}

(***************************************************************************)
(* The places of a project that declare a relationship: <<source, index>>, *)
(* where 1 are the constraints, 2 the tests and 3 the joins.               *)
(***************************************************************************)
Places(p) ==
  ({1} \X Constraints(p)) \cup ({2} \X Tests(p)) \cup ({3} \X MinedJoins(p))

Declared(p, x) ==
  CASE x[1] = 1 -> ForeignKey(p.constraints[x[2]])
    [] x[1] = 2 -> RelationshipTest(p.tests[x[2]])
    [] x[1] = 3 -> MinedJoin(p.joins[x[2]])

-----------------------------------------------------------------------------
(* The merge and the map of the generator. *)

(* Mutant: the weakest source comes first. *)
JoinsFirst(x, y) == x[1] > y[1] \/ (x[1] = y[1] /\ x[2] < y[2])

(* In order of priority. *)
Before(x, y) == x[1] < y[1] \/ (x[1] = y[1] /\ x[2] < y[2])

(* The first of each name stays. *)
Kept(p) ==
  {x \in Places(p) :
     \A y \in Places(p) : Before(y, x) => Declared(p, y).name # Declared(p, x).name}

(* _build_rel_map: a column is served the last relationship that has it for *)
(* its only column, if any.                                                *)
RelationOf(p, m, c) ==
  LET of == {x \in Kept(p) : /\ Declared(p, x).from_model = m
                             /\ Declared(p, x).from_columns = <<c>>}
  IN  {Declared(p, x) : x \in {y \in of : \A z \in of : ~Before(y, z)}}

Served(p) == UNION {UNION {RelationOf(p, m, c) : c \in p.models[m]} : m \in DOMAIN p.models}

(* What SchemaDiscovery makes of the relation of a column. *)
JoinOf(r) ==
  [from_table |-> r.from_model, from_column |-> r.from_columns[1],
   to_table |-> r.to_model, to_column |-> r.to_columns[1]]

Relations(p) == {JoinOf(r) : r \in Served(p)}

=============================================================================
