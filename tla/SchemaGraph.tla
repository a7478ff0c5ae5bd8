----------------------------- MODULE SchemaGraph -----------------------------
(***************************************************************************)
(* The graph that find_path walks, from the dbt project it is made of: the *)
(* relationships of the project (Relationships), one for each column at     *)
(* most, are the edges of the search (Discovery).                          *)
(***************************************************************************)
EXTENDS Discovery, Relationships

CONSTANT Projects  \* the dbt projects the server may be started with

(***************************************************************************)
(* What dbt writes into manifest and catalog.  A foreign key in the older  *)
(* form, table(column), is one of a single column.                         *)
(***************************************************************************)
IsProject(p) ==
  LET refs == [table : Tables \cup {Unknown}, column : Columns]
      columns == Seq(Columns) \ {<<>>}
  IN  /\ DOMAIN p.models \subseteq Tables
      /\ p.constraints \in Seq([from : Tables, form : {"to", "expression"}, columns : columns,
                                to : Tables \cup {Unknown}, to_columns : columns])
      /\ \A i \in DOMAIN p.constraints :
           p.constraints[i].form = "expression" => Len(p.constraints[i].columns) = 1
      /\ p.tests \in Seq([from : Tables, column : Columns, to : Tables, field : Columns])
      /\ p.joins \in Seq([model : Tables, left : refs, right : refs])

ASSUME ProjectsAssumption ==
  /\ Unknown \notin Tables
  /\ \A p \in Projects : IsProject(p)

VARIABLE project

GraphInit == project \in Projects /\ registry = Relations(project) /\ Init

GraphNext == Next /\ UNCHANGED project

GraphSpec == GraphInit /\ [][GraphNext]_<<project, vars>>

-----------------------------------------------------------------------------
(* What a project states, read off its files. *)

(* A foreign key over one column. *)
Constrained(p, j) ==
  \E i \in DOMAIN p.constraints :
    LET c == p.constraints[i]
    IN  /\ c.from = j.from_table /\ c.columns = <<j.from_column>>
        /\ c.to = j.to_table /\ c.to_columns[1] = j.to_column

Tested(p, j) ==
  \E i \in DOMAIN p.tests :
    p.tests[i] = [from |-> j.from_table, column |-> j.from_column,
                  to |-> j.to_table, field |-> j.to_column]

(* The SQL of a model joins the model itself with another table. *)
JoinedBy(p, j) ==
  \E i \in DOMAIN p.joins :
    LET own == [table |-> j.from_table, column |-> j.from_column]
        other == [table |-> j.to_table, column |-> j.to_column]
    IN  /\ own # other
        /\ p.joins[i].model = own.table
        /\ \/ p.joins[i].left = own /\ p.joins[i].right = other
           \/ p.joins[i].left = other /\ p.joins[i].right = own

Stated(p, j) == Constrained(p, j) \/ Tested(p, j) \/ JoinedBy(p, j)

StrongestOrigin(p, j) ==
  IF Constrained(p, j) THEN "constraint"
  ELSE IF Tested(p, j) THEN "data_test" ELSE "lineage"

(* Something else claims the name of the relationship or the column. *)
Contested(p, j) ==
  \E x \in Places(p) :
    LET r == Declared(p, x)
    IN  /\ JoinOf(r) # j \/ Len(r.from_columns) > 1
        /\ \/ r.name = j.from_table \o j.from_column \o j.to_table \o j.to_column
           \/ r.from_model = j.from_table /\ r.from_columns = <<j.from_column>>

(***************************************************************************)
(* Priority (docs/schema-synthesis.md:31 and 101): each relation that is   *)
(* served is one the project states, with the strongest origin that states *)
(* it: "an explicit constraint or `relationships` test on the same pair    *)
(* always wins" over a mined join.  A foreign key over several columns,    *)
(* given with `to_columns`, is never served as one over its first column.  *)
(***************************************************************************)
ServedAsStated ==
  \A r \in Served(project) :
    /\ Stated(project, JoinOf(r))
    /\ r.origin = StrongestOrigin(project, JoinOf(r))

(***************************************************************************)
(* No declaration gets lost on the way from the files to an agent: when    *)
(* the project relates a column to a table and nothing else it states      *)
(* claims that column or the name of the relationship, find_path lists the *)
(* join between the two tables, in either direction.                       *)
(***************************************************************************)
StatedJoinsFound ==
  status = "answered" /\ Permitted =>
    \A c, d \in Columns :
      LET j == [from_table |-> asked.from_table, from_column |-> c,
                to_table |-> asked.to_table, to_column |-> d]
      IN  \A e \in {j, Reversed(j)} :
            /\ e.from_table # e.to_table
            /\ e.from_table \in DOMAIN project.models
            /\ e.from_column \in project.models[e.from_table]
            /\ Stated(project, e)
            /\ ~Contested(project, e)
            => <<j>> \in found

(***************************************************************************)
(* docs/mcp.md:43: discovery tools, find_path among them, "filter their    *)
(* output to tables and columns the caller is authorized to see".          *)
(***************************************************************************)
OnlyVisibleTables ==
  status = "answered" =>
    \A p \in found : \A i \in DOMAIN p : Visible(asked.by, p[i].to_table)

=============================================================================
