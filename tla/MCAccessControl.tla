---------------------------- MODULE MCAccessControl ----------------------------
(***************************************************************************)
(* Model checking of AccessControl: two tables of two columns, of which    *)
(* `contact` holds arrays in `orders`, a table the registry does not know, *)
(* two callers of whom one lacks the claim the filters use, and rules of   *)
(* every kind.                                                             *)
(***************************************************************************)
EXTENDS AccessControl

CONSTANTS customers, orders, ghost, org, contact, alice, bob, org_claim, hash

MCRegistry == [t \in {customers, orders} |-> {org, contact}]

MCArrayColumns == [t \in {customers, orders} |-> IF t = orders THEN {contact} ELSE {}]

MCClaims == [u \in {alice, bob} |-> [c \in {org_claim} |-> IF u = alice THEN 1 ELSE Null]]

OwnOrg == Column(Comparison(org, "_eq", <<Jwt(org_claim)>>))

NotIn == Logical("_not", <<Column(Comparison(org, "_in", <<Jwt(org_claim), Literal(2)>>))>>)

OtherOrNone ==
  Logical("_or", <<Column(Comparison(org, "_is_null", <<Literal(TRUE)>>)),
                   Logical("_and", <<Column(Comparison(org, "_neq", <<Jwt(org_claim)>>)),
                                     Column(Comparison(contact, "_gt", <<Literal(1)>>))>>)>>)

Unknown == Logical("_not", <<Column(Comparison(hash, "_eq", <<Literal(1)>>))>>)

Mixed == [ops |-> OwnOrg.ops \o <<[op |-> "_not", kids |-> <<OwnOrg>>]>>, keys |-> OwnOrg.keys]

(* Two columns in one mapping; a pattern. *)
TwoKeys == [ops |-> <<>>, keys |-> <<Comparison(org, "_eq", <<Jwt(org_claim)>>),
                                     Comparison(contact, "_eq", <<Literal(1)>>)>>]

Pattern == Column(Comparison(contact, "_iregex", <<Literal(1)>>))

MCFilters == {OwnOrg, NotIn, OtherOrNone, Unknown, Mixed, TwoKeys, Pattern}

(* FilteredRows, evaluated once. *)
RowsTable == [f \in MCFilters, u \in {alice, bob} |-> FilteredRows(f, u)]
MCRowsOf(f, u) == RowsTable[f, u]

RECURSIVE HeightOf(_)
HeightOf(n) == 1 + Max({0} \cup {HeightOf(k) : k \in Kids(n)})

RECURSIVE SubTrees(_)
SubTrees(n) == {n} \cup UNION {SubTrees(k) : k \in Kids(n)}

MCHeight == [n \in UNION {SubTrees(f) : f \in MCFilters} |-> HeightOf(n)]

-----------------------------------------------------------------------------

NoMask == [c \in {} |-> hash]
Mask(c, e) == [x \in {c} |-> e]

Level(all, includes, excludes, mask) ==
  [include_all |-> all, includes |-> includes, excludes |-> excludes, mask |-> mask]

Grant(level, filter) ==
  [column_level |-> level, row_filter |-> filter, deny_all |-> FALSE, deny_columns |-> {}]

Forbid(all, cols) ==
  [column_level |-> None, row_filter |-> None, deny_all |-> all, deny_columns |-> cols]

Entry(effect, a, b, tables) ==
  [effect |-> effect, when |-> [u \in {alice, bob} |-> IF u = alice THEN a ELSE b],
   tables |-> tables]

On(t, tp) == [x \in {t} |-> tp]

AllOf(mask) == Level(TRUE, {}, {}, mask)

GoodEntries ==
  { Entry("allow", "true", "true", On(customers, Grant(AllOf(Mask(contact, hash)), OwnOrg))),
    Entry("allow", "true", "false", On(customers, Grant(Level(FALSE, {org}, {}, NoMask), None))),
    Entry("allow", "true", "true",
          [t \in {customers, orders} |-> IF t = orders THEN Grant(AllOf(NoMask), None)
                                         ELSE Grant(Level(TRUE, {}, {contact}, NoMask), None)]),
    Entry("allow", "true", "true", On(customers, Grant(None, NotIn))),
    Entry("allow", "raises", "true", On(customers, Grant(AllOf(Mask(contact, NullMask)), None))),
    Entry("allow", "true", "true", On(customers, Grant(AllOf(Mask(contact, hash)), OtherOrNone))),
    Entry("deny", "false", "true", On(customers, Forbid(FALSE, {contact}))),
    Entry("deny", "true", "raises", On(orders, Forbid(TRUE, {}))),
    Entry("deny", "true", "true",
          [t \in {customers, orders} |-> Forbid(FALSE, {IF t = orders THEN contact ELSE org})]) }

BadEntries ==
  { Entry("deny", "true", "true", On(orders, Grant(AllOf(NoMask), None))),
    Entry("allow", "true", "true", On(customers, Grant(Level(TRUE, {org}, {}, NoMask), None))),
    Entry("allow", "true", "true", On(ghost, Grant(None, OwnOrg))),
    Entry("allow", "true", "true", On(orders, Grant(None, Unknown))),
    Entry("allow", "true", "true", On(customers, Grant(None, Mixed))) }

MCEntries == GoodEntries \cup BadEntries

TwoKeyEntries ==
  { Entry("allow", "true", "true", On(customers, Grant(AllOf(NoMask), f)))
      : f \in {OwnOrg, NotIn, OtherOrNone, TwoKeys} }

(* An allow rule and a deny rule for the table with an array column. *)
ArrayEntries ==
  { Entry("allow", "true", "true", On(orders, Grant(AllOf(NoMask), None))),
    Entry("deny", "true", "false", On(orders, Forbid(FALSE, {contact}))),
    Entry("allow", "true", "true", On(customers, Grant(AllOf(Mask(contact, hash)), OwnOrg))) }

=============================================================================
