--------------------------- MODULE MCQueryDocuments ---------------------------
(***************************************************************************)
(* Model checking of QueryDocuments: two tables, t and u, and documents of *)
(* every shape the guards and the resolvers tell apart.                    *)
(***************************************************************************)
EXTENDS QueryDocuments

Node(kind, name, sel) == [kind |-> kind, name |-> name, first |-> None, order |-> {}, sel |-> sel]

F(name, sel) == Node("field", name, sel)

Leaf(name) == F(name, <<>>)

Inline(sel) == Node("inline", "", sel)

Spread(name) == Node("spread", name, <<>>)

Paged(n, first) == [n EXCEPT !.first = first]

By(n, order) == [n EXCEPT !.order = order]

Nodes(sel) == F("nodes", sel)

Info == F("pageInfo", <<Leaf("endCursor")>>)

Op(sel) == [op |-> sel, frags |-> <<>>]

With(sel, name, on, body) == [op |-> sel, frags |-> name :> [on |-> on, sel |-> body]]

Table(t) == F(t, <<Nodes(<<Leaf("a")>>)>>)

ByFirst == {Op(<<Paged(Table("t"), n)>>) : n \in {None, 0, 2, 3, Variable}}

Plain ==
  { Op(<<Table("t"), Table("u")>>),
    Op(<<Paged(Table("t"), Variable), Table("u"), F("__schema", <<Leaf("types")>>)>>),
    Op(<<F("t", <<Nodes(<<Leaf("a"), Leaf("b"), Leaf("c"), Leaf("e")>>)>>)>>),
    Op(<<F("t", <<Nodes(<<F("_aggregate", <<F("sum", <<Leaf("a")>>)>>)>>)>>)>>),
    Op(<<By(F("t", <<Nodes(<<Leaf("a"), Leaf("__typename")>>), Info>>), {"a"})>>),
    Op(<<F("t", <<Info, Nodes(<<Leaf("a")>>)>>)>>),
    Op(<<F("t", <<Info>>)>>) }

Meta ==
  { Op(<<F("__schema", <<F("types", <<F("fields", <<F("type", <<Leaf("name")>>)>>)>>)>>)>>),
    With(<<F("__schema", <<Spread("T")>>)>>, "T", "meta",
         <<F("types", <<F("ofType", <<F("ofType", <<Leaf("name")>>)>>)>>)>>),
    With(<<Spread("Q")>>, "Q", "data", <<F("__schema", <<F("types", <<F("fields", <<Leaf("name")>>)>>)>>)>>) }

Inlined ==
  { Op(<<Inline(<<Table("t")>>)>>),
    Op(<<Inline(<<F("t", <<Nodes(<<F("_aggregate", <<F("sum", <<Leaf("a")>>)>>)>>)>>)>>)>>),
    Op(<<F("t", <<Nodes(<<Inline(<<Leaf("a")>>)>>)>>)>>),
    Op(<<By(F("t", <<Nodes(<<Inline(<<Leaf("a")>>)>>)>>), {"a"})>>),
    Op(<<F("t", <<Nodes(<<Leaf("a")>>), Inline(<<Info>>)>>)>>),
    Op(<<F("t", <<Inline(<<Nodes(<<Leaf("a")>>)>>)>>)>>) }

(* The same through named fragments; the last is too deep in its fragment. *)
Spreads ==
  { With(<<Spread("Q")>>, "Q", "data", <<Table("t"), Table("u")>>),
    With(<<F("t", <<Nodes(<<Leaf("a"), Spread("P")>>)>>)>>, "P", "data", <<Leaf("b")>>),
    With(<<By(F("t", <<Nodes(<<Spread("P")>>)>>), {"b"})>>, "P", "data", <<Leaf("b")>>),
    With(<<F("t", <<Spread("nodes")>>)>>, "nodes", "data", <<Nodes(<<Leaf("a")>>)>>),
    With(<<F("t", <<Nodes(<<Spread("A")>>)>>)>>, "A", "data",
         <<F("_aggregate", <<F("sum", <<Leaf("a")>>), F("avg", <<Leaf("a")>>)>>)>>),
    With(<<Spread("Q")>>, "Q", "data",
         <<F("t", <<Nodes(<<F("_aggregate", <<F("sum", <<F("a", <<F("b", <<Leaf("c")>>)>>)>>)>>)>>)>>)>>) }

(* One field asked for twice. *)
Merged == {Op(<<F("t", <<Nodes(<<Leaf("a")>>), Nodes(<<Leaf("b")>>)>>)>>)}

MCDocuments == ByFirst \cup Plain \cup Meta \cup Inlined \cup Spreads \cup Merged

(* A column asked for through a fragment, among plain documents. *)
FragmentDocuments ==
  Plain \cup {With(<<F("t", <<Nodes(<<Leaf("a"), Spread("P")>>)>>)>>, "P", "data", <<Leaf("b")>>)}

RECURSIVE NodesIn(_)
NodesIn(sel) == ToSet(sel) \cup UNION {NodesIn(n.sel) : n \in ToSet(sel)}

RECURSIVE HeightOf(_, _)
HeightOf(d, n) == 1 + Max({0} \cup {HeightOf(d, m) : m \in ToSet(Below(d, n))})

HeightsIn(d) ==
  [n \in NodesIn(d.op) \cup UNION {NodesIn(d.frags[f].sel) : f \in DOMAIN d.frags} |-> HeightOf(d, n)]

MCHeights == [d \in MCDocuments \cup FragmentDocuments |-> HeightsIn(d)]

Symmetry == Permutations(Calls)

=============================================================================
