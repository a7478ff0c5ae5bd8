----------------------------- MODULE MCSchemaGraph -----------------------------
(***************************************************************************)
(* Model checking of SchemaGraph: a shop with orders, their items,         *)
(* customers, and regions, which are a seed and so not among the models.   *)
(* "order" with "item_id" and "order_item" with "id" come to one name.     *)
(***************************************************************************)
EXTENDS SchemaGraph, SequencesExt

order == <<"order">>
order_item == <<"order", "item">>
customer == <<"customer">>
region == <<"region">>
id == <<"id">>
item_id == <<"item", "id">>
customer_id == <<"customer", "id">>
region_id == <<"region", "id">>

Models == order :> {id, item_id, customer_id} @@ order_item :> {id} @@ customer :> {id, region_id}

MCTables == DOMAIN Models \cup {region}
MCColumns == {id, item_id, customer_id, region_id}

ForeignKeyTo(form, from, cols, to, to_cols) ==
  [from |-> from, form |-> form, columns |-> cols, to |-> to, to_columns |-> to_cols]

AllConstraints == <<
  ForeignKeyTo("to", order, <<customer_id, id>>, customer, <<id, region_id>>),
  ForeignKeyTo("to", order, <<customer_id>>, customer, <<id>>),
  ForeignKeyTo("to", order, <<item_id>>, customer, <<id>>),
  ForeignKeyTo("to", order_item, <<id>>, Unknown, <<id>>),
  ForeignKeyTo("expression", order_item, <<id>>, customer, <<id>>)>>

Test(from, col, to, field) == [from |-> from, column |-> col, to |-> to, field |-> field]

AllTests == <<
  Test(order, customer_id, customer, id),
  Test(order, customer_id, order_item, id),
  Test(order_item, id, order, id),
  Test(customer, region_id, region, id)>>

Join(model, table, col, table2, col2) ==
  [model |-> model, left |-> [table |-> table, column |-> col],
   right |-> [table |-> table2, column |-> col2]]

AllJoins == <<
  Join(order, customer, id, order, customer_id),
  Join(order, customer, id, order_item, id),
  Join(order, order, id, order, item_id),
  Join(order, order, id, order, id),
  Join(order, Unknown, id, order, id),
  Join(customer, customer, id, order, customer_id)>>

(* Up to three declarations (there are not six of every kind), and a few    *)
(* larger sets that make a graph with cycles.                              *)
Few == kSubset(3, {"constraint", "test", "join"} \X (1 .. 6))

Among(kind, all, chosen) ==
  FoldLeft(LAMBDA s, i : IF <<kind, i>> \in chosen THEN Append(s, all[i]) ELSE s,
           <<>>, [i \in DOMAIN all |-> i])

Cyclic ==
  { {<<"constraint", 2>>, <<"constraint", 5>>, <<"test", 3>>, <<"test", 4>>},
    {<<"constraint", 2>>, <<"constraint", 3>>, <<"test", 3>>, <<"test", 4>>},
    {<<"test", 2>>, <<"constraint", 3>>, <<"constraint", 5>>, <<"test", 4>>, <<"join", 6>>} }

MCProjects ==
  {[models |-> Models,
    constraints |-> Among("constraint", AllConstraints, chosen),
    tests |-> Among("test", AllTests, chosen),
    joins |-> Among("join", AllJoins, chosen)] : chosen \in Few \cup Cyclic}

(* One caller sees all of the models, one does not see the customers. *)
MCVisibleTo == "all" :> DOMAIN Models \cup {region} @@ "some" :> {order, order_item, region}

=============================================================================
