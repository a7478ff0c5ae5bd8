----------------------------- MODULE MCPagination -----------------------------
(***************************************************************************)
(* Model checking of Pagination: a table with a key `id` and a column `a`  *)
(* that repeats, up to three rows of it, and walks of every shape.         *)
(***************************************************************************)
EXTENDS Pagination

CONSTANTS id, a

Row(i, x) == [c \in {id, a} |-> IF c = id THEN i ELSE x]

MCUniverse == {Row(1, 1), Row(2, 1), Row(3, 2), Row(4, Null)}

MCLoaded == {{Row(1, 1), Row(2, 1), Row(4, Null)}}

Ask(order, where, first) ==
  [order_by |-> order, where |-> where, select |-> {id, a}, distinct |-> FALSE,
   aggregate |-> FALSE, page_info |-> TRUE, first |-> first]

ByAId == <<<<a, "desc">>, <<id, "asc">>>>

ById == <<<<id, "asc">>>>

Walks(U) ==
  { Ask(ByAId, U, 1), Ask(ByAId, U, None),
    Ask(ByAId, {r \in U : r[id] # 3}, 1),
    [Ask(ByAId, U, 1) EXCEPT !.distinct = TRUE] }

Groups(U) ==
  {[Ask(<<<<a, "asc">>>>, U, 1) EXCEPT !.aggregate = TRUE, !.select = {a}]}

(* Pages of no rows, an order that is no key, no order. *)
Odd(U) ==
  { Ask(ById, U, 0), Ask(<<<<a, "asc">>>>, U, 1),
    [Ask(<<>>, U, 2) EXCEPT !.page_info = FALSE] }

MCQueries == Walks(MCUniverse) \cup Groups(MCUniverse) \cup Odd(MCUniverse)

=============================================================================
