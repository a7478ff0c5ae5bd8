--------------------------- MODULE PaginationProofs ---------------------------
(***************************************************************************)
(* Proofs about Pagination, for any table, order, page size and cache: a   *)
(* walk only goes forward (PagesAdvance), and a walk that ends has served  *)
(* every row that stayed, but for NULLs in the order (StableRowsSeen).     *)
(*                                                                         *)
(* Both rest on ORDER BY being a strict order of the keys, and on what a   *)
(* page says of the rows around it: Sound (its rows lie beyond the cursor  *)
(* it was asked with and up to the one it hands out) and Covers (a row it  *)
(* leaves out lies beyond the cursor it hands out).                        *)
(***************************************************************************)
EXTENDS Pagination, Trees

Values == Nat \cup {Null}

(* Rows of a table, and what DISTINCT and GROUP BY make of them. *)
Rows == UNION {[S -> Values] : S \in SUBSET Columns}

ItemOf(q, r) ==
  IF q.distinct \/ q.aggregate THEN [c \in q.select |-> r[c]] ELSE r

Sortable(order, x) == \A i \in DOMAIN order : x[order[i][1]] \in Values

SameKey(order, x, y) == \A i \in DOMAIN order : x[order[i][1]] = y[order[i][1]]

AtOrBefore(order, x, y) == Precedes(order, x, y) \/ SameKey(order, x, y)

Orders == Seq(Columns \X {"asc", "desc"})

-----------------------------------------------------------------------------
(* ORDER BY is a strict order of the keys. *)

LEMMA DirectedStrict ==
  ASSUME NEW dir \in {"asc", "desc"},
         NEW x \in Values, NEW y \in Values, NEW z \in Values
  PROVE  /\ Directed(dir, x, y) /\ Directed(dir, y, z) => Directed(dir, x, z)
         /\ Directed(dir, x, y) \/ x = y \/ Directed(dir, y, x)
BY PaginationAssumption DEF Directed, SortsBelow, Values

LEMMA OrderIsTyped ==
  ASSUME NEW order \in Orders, NEW i \in DOMAIN order
  PROVE  /\ DOMAIN order = 1 .. Len(order)
         /\ i \in Nat
         /\ order[i][1] \in Columns
         /\ order[i][2] \in {"asc", "desc"}
BY DEF Orders

LEMMA PrecedesTransitive ==
  ASSUME NEW order \in Orders, NEW x, NEW y, NEW z,
         Sortable(order, x), Sortable(order, y), Sortable(order, z),
         Precedes(order, x, y), Precedes(order, y, z)
  PROVE  Precedes(order, x, z)
<1>1. PICK i \in DOMAIN order :
        /\ \A j \in 1 .. i - 1 : x[order[j][1]] = y[order[j][1]]
        /\ Directed(order[i][2], x[order[i][1]], y[order[i][1]])
  BY DEF Precedes
<1>2. PICK k \in DOMAIN order :
        /\ \A j \in 1 .. k - 1 : y[order[j][1]] = z[order[j][1]]
        /\ Directed(order[k][2], y[order[k][1]], z[order[k][1]])
  BY DEF Precedes
<1>3. DOMAIN order = 1 .. Len(order) /\ i \in Nat /\ k \in Nat /\ Len(order) \in Nat
  BY OrderIsTyped DEF Orders
<1>4. CASE i < k
  <2>1. /\ \A j \in 1 .. i - 1 : x[order[j][1]] = z[order[j][1]]
        /\ y[order[i][1]] = z[order[i][1]]
    BY <1>1, <1>2, <1>3, <1>4
  <2> QED
    BY <1>1, <2>1 DEF Precedes
<1>5. CASE k < i
  <2>1. /\ \A j \in 1 .. k - 1 : x[order[j][1]] = z[order[j][1]]
        /\ x[order[k][1]] = y[order[k][1]]
    BY <1>1, <1>2, <1>3, <1>5
  <2> QED
    BY <1>2, <2>1 DEF Precedes
<1>6. CASE i = k
  <2>1. \A j \in 1 .. i - 1 : x[order[j][1]] = z[order[j][1]]
    BY <1>1, <1>2, <1>6
  <2>2. Directed(order[i][2], x[order[i][1]], z[order[i][1]])
    BY <1>1, <1>2, <1>6, DirectedStrict, OrderIsTyped DEF Sortable
  <2> QED
    BY <2>1, <2>2 DEF Precedes
<1> QED
  BY <1>3, <1>4, <1>5, <1>6

(* Of two keys that differ one comes first: at the first difference. *)
LEMMA PrecedesTotal ==
  ASSUME NEW order \in Orders, NEW x, NEW y, Sortable(order, x), Sortable(order, y)
  PROVE  Precedes(order, x, y) \/ SameKey(order, x, y) \/ Precedes(order, y, x)
<1> DEFINE D == {i \in DOMAIN order : x[order[i][1]] # y[order[i][1]]}
<1>1. CASE D = {}
  BY <1>1 DEF SameKey
<1>2. CASE D # {}
  <2>1. D \in SUBSET Nat
    BY OrderIsTyped
  <2>2. PICK i \in D : \A j \in D : ~(j < i)
    <3> HIDE DEF D
    <3> QED BY <1>2, <2>1, LeastNumber
  <2>3. /\ i \in DOMAIN order /\ i \in Nat /\ Len(order) \in Nat
        /\ DOMAIN order = 1 .. Len(order)
    BY OrderIsTyped DEF Orders
  <2>4. \A j \in 1 .. i - 1 : x[order[j][1]] = y[order[j][1]]
    BY <2>2, <2>3
  <2>5. \/ Directed(order[i][2], x[order[i][1]], y[order[i][1]])
        \/ Directed(order[i][2], y[order[i][1]], x[order[i][1]])
    BY <2>2, <2>3, DirectedStrict, OrderIsTyped DEF Sortable
  <2> QED
    BY <2>3, <2>4, <2>5 DEF Precedes
<1> QED
  BY <1>1, <1>2

LEMMA SameKeyPrecedes ==
  ASSUME NEW order \in Orders, NEW x, NEW y, NEW z, SameKey(order, x, y)
  PROVE  /\ Precedes(order, y, z) => Precedes(order, x, z)
         /\ Precedes(order, z, y) => Precedes(order, z, x)
         /\ \A v : Beyond(order, v, y) => Beyond(order, v, x)
         /\ \A r : Beyond(order, y, r) => Beyond(order, x, r)
<1>1. /\ DOMAIN order = 1 .. Len(order) /\ Len(order) \in Nat
      /\ \A i \in DOMAIN order : \A j \in 1 .. i - 1 : j \in DOMAIN order
  BY DEF Orders
<1>2. \A i \in DOMAIN order : /\ x[order[i][1]] = y[order[i][1]]
                              /\ \A j \in 1 .. i - 1 : x[order[j][1]] = y[order[j][1]]
  BY <1>1 DEF SameKey
<1>3. Precedes(order, y, z) => Precedes(order, x, z)
  BY <1>2 DEF Precedes
<1>4. Precedes(order, z, y) => Precedes(order, z, x)
  BY <1>2 DEF Precedes
<1>5. \A v : Beyond(order, v, y) => Beyond(order, v, x)
  BY <1>2 DEF Beyond
<1>6. \A r : Beyond(order, y, r) => Beyond(order, x, r)
  BY <1>2 DEF Beyond
<1> QED
  BY <1>3, <1>4, <1>5, <1>6

(* What the cursor clause lets through sorts after the cursor ... *)
LEMMA BeyondSortsAfter ==
  ASSUME NEW order \in Orders, NEW v, NEW r, Sortable(order, v), Sortable(order, r),
         \A i \in DOMAIN order : v[order[i][1]] # Null,
         Beyond(order, v, r)
  PROVE  Precedes(order, v, r)
<1>1. PICK i \in DOMAIN order :
        /\ \A j \in 1 .. i - 1 : r[order[j][1]] = v[order[j][1]]
        /\ r[order[i][1]] # Null
        /\ IF order[i][2] = "desc" THEN r[order[i][1]] < v[order[i][1]]
                                   ELSE r[order[i][1]] > v[order[i][1]]
  BY DEF Beyond
<1>2. /\ r[order[i][1]] \in Nat /\ v[order[i][1]] \in Nat
      /\ order[i][2] \in {"asc", "desc"}
  BY <1>1, OrderIsTyped DEF Sortable, Values
<1>3. Directed(order[i][2], v[order[i][1]], r[order[i][1]])
  BY <1>1, <1>2, PaginationAssumption DEF Directed, SortsBelow
<1> QED
  BY <1>1, <1>3 DEF Precedes

(* ... and where there is no NULL it lets through all that does. *)
LEMMA SortsAfterIsBeyond ==
  ASSUME NEW order \in Orders, NEW v, NEW r, Sortable(order, v), Sortable(order, r),
         \A i \in DOMAIN order : v[order[i][1]] # Null /\ r[order[i][1]] # Null,
         Precedes(order, v, r)
  PROVE  Beyond(order, v, r)
<1>1. PICK i \in DOMAIN order :
        /\ \A j \in 1 .. i - 1 : v[order[j][1]] = r[order[j][1]]
        /\ Directed(order[i][2], v[order[i][1]], r[order[i][1]])
  BY DEF Precedes
<1>2. /\ r[order[i][1]] \in Nat /\ v[order[i][1]] \in Nat
      /\ order[i][2] \in {"asc", "desc"}
      /\ r[order[i][1]] # Null
  BY <1>1, OrderIsTyped DEF Sortable, Values
<1>3. IF order[i][2] = "desc" THEN r[order[i][1]] < v[order[i][1]]
                              ELSE r[order[i][1]] > v[order[i][1]]
  BY <1>1, <1>2, PaginationAssumption DEF Directed, SortsBelow
<1> QED
  BY <1>1, <1>2, <1>3 DEF Beyond


-----------------------------------------------------------------------------
(* Queries, their items and their cursors. *)

LEMMA QueriesAreTyped ==
  ASSUME NEW q \in Queries
  PROVE  /\ q.order_by \in Orders
         /\ q.where \subseteq Universe
         /\ q.select \subseteq Columns
         /\ OrderCols(q) \subseteq Columns
         /\ \A i \in DOMAIN q.order_by : q.order_by[i][1] \in OrderCols(q)
         /\ q.order_by = <<>> => DOMAIN q.order_by = {}
<1>1. IsQuery(q)
  BY PaginationAssumption
<1>2. q.order_by \in Orders /\ q.where \subseteq Universe /\ q.select \subseteq Columns
  BY <1>1 DEF IsQuery, Orders
<1>3. \A i \in DOMAIN q.order_by : q.order_by[i][1] \in Columns
  BY <1>2, OrderIsTyped
<1> QED
  BY <1>2, <1>3 DEF OrderCols

LEMMA UniverseIsTyped ==
  ASSUME NEW r \in Universe
  PROVE  r \in [Columns -> Values] /\ r \in Rows
<1>1. r \in [Columns -> Values]
  BY PaginationAssumption DEF Values
<1> QED
  BY <1>1 DEF Rows

LEMMA ItemsOfRows ==
  ASSUME NEW q, NEW T
  PROVE  Items(q, T) = {ItemOf(q, r) : r \in T \cap q.where}
BY DEF Items, ItemOf

LEMMA ItemIsTyped ==
  ASSUME NEW q \in Queries, NEW r \in Universe
  PROVE  /\ ItemOf(q, r) \in Rows
         /\ OrderCols(q) \subseteq q.select =>
              /\ Sortable(q.order_by, ItemOf(q, r))
              /\ \A c \in OrderCols(q) : ItemOf(q, r)[c] = r[c]
              /\ Cursor(q, ItemOf(q, r)) = Cursor(q, r)
<1>1. r \in [Columns -> Values] /\ r \in Rows
  BY UniverseIsTyped
<1>2. q.select \subseteq Columns /\ OrderCols(q) \subseteq Columns
  BY QueriesAreTyped
<1>3. ItemOf(q, r) \in Rows
  <2>1. [c \in q.select |-> r[c]] \in [q.select -> Values]
    BY <1>1, <1>2
  <2>2. [c \in q.select |-> r[c]] \in Rows
    BY <2>1, <1>2 DEF Rows
  <2> QED
    BY <1>1, <2>2 DEF ItemOf
<1>4. ASSUME OrderCols(q) \subseteq q.select
      PROVE  /\ Sortable(q.order_by, ItemOf(q, r))
             /\ \A c \in OrderCols(q) : ItemOf(q, r)[c] = r[c]
             /\ Cursor(q, ItemOf(q, r)) = Cursor(q, r)
  <2>1. \A c \in OrderCols(q) : ItemOf(q, r)[c] = r[c] /\ r[c] \in Values
    BY <1>1, <1>2, <1>4 DEF ItemOf
  <2>2. Sortable(q.order_by, ItemOf(q, r))
    BY <2>1, QueriesAreTyped DEF Sortable
  <2>3. [c \in OrderCols(q) |-> ItemOf(q, r)[c]] = [c \in OrderCols(q) |-> r[c]]
    BY <2>1
  <2> QED
    BY <2>1, <2>2, <2>3 DEF Cursor
<1> QED
  BY <1>3, <1>4

LEMMA ItemsAreFinite ==
  ASSUME NEW q, NEW T \in SUBSET Universe
  PROVE  IsFiniteSet(Items(q, T))
<1> DEFINE S == T \cap q.where
           f == [r \in S |-> ItemOf(q, r)]
<1>1. IsFiniteSet(S)
  BY FS_Subset, PaginationAssumption
<1>2. f \in Surjection(S, {ItemOf(q, r) : r \in S})
  BY DEF Surjection
<1> HIDE DEF f, S
<1>3. IsFiniteSet({ItemOf(q, r) : r \in S})
  BY <1>1, <1>2, FS_Surjection
<1> QED
  BY <1>3, ItemsOfRows DEF S

(* The cursors there can be, and the requests they can come with. *)
Cursors == {Cursor(q, r) : q \in Queries, r \in Universe}

LEMMA CursorsAreTyped ==
  ASSUME NEW q \in Queries, NEW c \in Cursors, c.d = Fingerprint(q)
  PROVE  /\ c # None
         /\ DOMAIN c.v = OrderCols(q)
         /\ Sortable(q.order_by, c.v)
<1>1. PICK p \in Queries, r \in Universe : c = Cursor(p, r)
  BY DEF Cursors
<1>2. c # None
  BY <1>1, NoneAssumption
<1>3. p.order_by = q.order_by
  BY <1>1 DEF Cursor, Fingerprint
<1>4. OrderCols(p) = OrderCols(q)
  BY <1>3 DEF OrderCols
<1>5. c.v = [k \in OrderCols(q) |-> r[k]]
  BY <1>1, <1>4 DEF Cursor
<1>6. \A k \in OrderCols(q) : r[k] \in Values
  BY UniverseIsTyped, QueriesAreTyped
<1>7. Sortable(q.order_by, c.v)
  BY <1>5, <1>6, QueriesAreTyped DEF Sortable
<1> QED
  BY <1>2, <1>5, <1>7

LEMMA CursorKey ==
  ASSUME NEW q \in Queries, NEW x
  PROVE  /\ Cursor(q, x).d = Fingerprint(q)
         /\ SameKey(q.order_by, Cursor(q, x).v, x)
BY QueriesAreTyped DEF Cursor, SameKey

(* What a request that is not refused is like. *)
LEMMA NotRefused ==
  ASSUME NEW q \in Queries, NEW after \in Cursors \cup {None}, Refusal(q, after) = None
  PROVE  /\ OrderCols(q) \subseteq q.select
         /\ q.order_by = <<>> => after = None
         /\ q.order_by # <<>> => OrderIsUnique(q)
         /\ after # None => after \in Cursors /\ after.d = Fingerprint(q) /\ Comparable(after)
<1>1. \A s \in Refused : s # None
  BY NoneAssumption
<1>2. /\ "ORDER_BY_NOT_IN_SELECTION" # None /\ "CURSOR_REQUIRES_ORDER_BY" # None
      /\ "ORDER_BY_REQUIRED" # None /\ "CURSOR_ORDER_BY_NOT_UNIQUE" # None
      /\ "CURSOR_STALE" # None /\ "INTERNAL_ERROR" # None
  BY <1>1 DEF Refused
<1> QED
  BY <1>2 DEF Refusal

-----------------------------------------------------------------------------
(* What a page says of the rows around it. *)

(* Rows lie beyond the cursor of the statement and up to those handed out. *)
Sound(s, p) ==
  /\ \A x \in p.nodes : Sortable(s.order_by, x)
  /\ \A v \in s.after, x \in p.nodes : Precedes(s.order_by, v, x)
  /\ \A c \in p.cursors :
       /\ c \in Cursors
       /\ \E x \in p.nodes : c = Cursor(s, x)
       /\ \A x \in p.nodes : AtOrBefore(s.order_by, x, c.v)

(* A row that the statement asks for and the page leaves out comes later, *)
(* if it and the cursor handed out have no NULL to sort by.               *)
Covers(s, p, r) ==
  r \in s.where /\ Reachable(s, r) /\ (\A v \in s.after : Beyond(s.order_by, v, r)) =>
    \/ ItemOf(s, r) \in p.nodes
    \/ p.more /\ \A c \in p.cursors : Comparable(c) => Beyond(s.order_by, c.v, r)

PageRecords == [nodes : SUBSET Rows, more : BOOLEAN, cursors : SUBSET Cursors]

LEMMA StatementsOfQueries ==
  ASSUME NEW q, NEW after
  PROVE  LET s == Statement(q, after)
         IN  /\ s.order_by = q.order_by /\ s.where = q.where /\ s.select = q.select
             /\ s.distinct = q.distinct /\ s.aggregate = q.aggregate
             /\ s.after = IF after = None THEN {} ELSE {after.v}
             /\ Fingerprint(s) = Fingerprint(q) /\ OrderCols(s) = OrderCols(q)
             /\ \A x : Cursor(s, x) = Cursor(q, x)
             /\ \A r : ItemOf(s, r) = ItemOf(q, r)
BY DEF Statement, Fingerprint, GroupBy, Cursor, OrderCols, ItemOf

(* The last rows of a set come at or after all others. *)
LEMMA LastRows ==
  ASSUME NEW order \in Orders, NEW S, \A x \in S : Sortable(order, x),
         NEW x \in S, \A z \in S : ~Precedes(order, x, z), NEW y \in S
  PROVE  AtOrBefore(order, y, x)
BY PrecedesTotal DEF AtOrBefore, SameKey

(* If nothing was cut off the page, LIMIT has left nothing out. *)
LEMMA NothingCut ==
  ASSUME NEW order, NEW S, IsFiniteSet(S), NEW n \in Nat,
         NEW R \in Leading(order, S, n + 1), R \in Leading(order, R, n)
  PROVE  R = S
<1>1. R \in SUBSET S /\ Cardinality(R) = IF Cardinality(S) < n + 1 THEN Cardinality(S) ELSE n + 1
  BY DEF Leading
<1>2. Cardinality(R) = IF Cardinality(R) < n THEN Cardinality(R) ELSE n
  BY DEF Leading
<1>3. IsFiniteSet(R) /\ Cardinality(S) \in Nat /\ Cardinality(R) \in Nat
  BY <1>1, FS_Subset, FS_CardinalityType
<1>4. Cardinality(R) = Cardinality(S)
  BY <1>1, <1>2, <1>3
<1> QED
  BY <1>1, <1>4, FS_Subset

LEMMA FirstIsNatural ==
  ASSUME NEW q \in Queries
  PROVE  EffectiveFirst(q) \in Nat
<1>1. q.first \in Nat \cup {None} /\ DefaultLimit \in Nat /\ MaxLimit \in Nat
  BY PaginationAssumption DEF IsQuery
<1> QED
  BY <1>1 DEF EffectiveFirst

(* The items that a statement asks for are rows, and lie beyond its cursor. *)
LEMMA ItemsLieBeyond ==
  ASSUME NEW q \in Queries, NEW after \in Cursors \cup {None}, Refusal(q, after) = None,
         NEW T \in SUBSET Universe,
         after # None => \A r \in T : Beyond(q.order_by, after.v, r),
         NEW x \in Items(q, T)
  PROVE  /\ x \in Rows
         /\ Sortable(q.order_by, x)
         /\ Cursor(q, x) \in Cursors
         /\ after # None => Precedes(q.order_by, after.v, x)
<1>1. PICK r \in T : x = ItemOf(q, r)
  BY ItemsOfRows
<1>2. r \in Universe
  BY <1>1
<1>3. OrderCols(q) \subseteq q.select
  BY NotRefused
<1>4. /\ x \in Rows /\ Sortable(q.order_by, x) /\ Cursor(q, x) = Cursor(q, r)
      /\ \A c \in OrderCols(q) : x[c] = r[c]
  BY <1>1, <1>2, <1>3, ItemIsTyped
<1>5. Cursor(q, x) \in Cursors
  BY <1>2, <1>4 DEF Cursors
<1>6. ASSUME after # None
      PROVE  Precedes(q.order_by, after.v, x)
  <2>1. after \in Cursors /\ after.d = Fingerprint(q) /\ Comparable(after)
    BY <1>6, NotRefused
  <2>2. DOMAIN after.v = OrderCols(q) /\ Sortable(q.order_by, after.v)
    BY <2>1, CursorsAreTyped
  <2>3. q.order_by \in Orders /\ \A i \in DOMAIN q.order_by : q.order_by[i][1] \in OrderCols(q)
    BY QueriesAreTyped
  <2>4. \A i \in DOMAIN q.order_by : after.v[q.order_by[i][1]] # Null
    BY <2>1, <2>2, <2>3 DEF Comparable
  <2>5. SameKey(q.order_by, x, r)
    BY <1>4, <2>3 DEF SameKey
  <2>6. Beyond(q.order_by, after.v, x)
    BY <1>1, <1>6, <2>3, <2>5, SameKeyPrecedes
  <2> QED
    BY <1>4, <2>2, <2>3, <2>4, <2>6, BeyondSortsAfter
<1> QED
  BY <1>4, <1>5, <1>6

(* The rows a statement starts from. *)
Rest(q, after) ==
  IF after = None THEN table ELSE {r \in table : Beyond(q.order_by, after.v, r)}

(* A page with an order is cut from what LIMIT returns of the items beyond. *)
LEMMA OrderedPages ==
  ASSUME NEW q, q.order_by # <<>>, NEW after, NEW p \in Pages(q, after)
  PROVE  \E rows \in Leading(q.order_by, Items(q, Rest(q, after)), EffectiveFirst(q) + 1) :
           \E nodes \in Leading(q.order_by, rows, EffectiveFirst(q)) :
             p = PageOf(q, nodes, rows)
BY DEF Pages, Rest

LEMMA PagesAreSound ==
  ASSUME NEW q \in Queries, NEW after \in Cursors \cup {None}, Refusal(q, after) = None,
         table \subseteq Universe, NEW p \in Pages(q, after)
  PROVE  p \in PageRecords /\ Sound(Statement(q, after), p)
<1> DEFINE s == Statement(q, after)
<1>s. /\ s.order_by = q.order_by
      /\ s.after = IF after = None THEN {} ELSE {after.v}
      /\ \A x : Cursor(s, x) = Cursor(q, x)
  BY DEF Statement, Cursor, OrderCols, Fingerprint, GroupBy
<1>o. q.order_by \in Orders
  BY QueriesAreTyped
<1> HIDE DEF s
<1>1. CASE q.order_by = <<>>
  <2>1. after = None
    BY <1>1, NotRefused
  <2>2. PICK P \in SUBSET Items(q, table) : p = [nodes |-> P, more |-> FALSE, cursors |-> {}]
    BY <1>1 DEF Pages, Leading
  <2>3. \A x \in P : x \in Rows /\ Sortable(q.order_by, x)
    BY <2>1, <2>2, ItemsLieBeyond
  <2>4. p \in PageRecords
    BY <2>2, <2>3 DEF PageRecords
  <2>5. Sound(s, p)
    BY <1>s, <2>1, <2>2, <2>3 DEF Sound
  <2> QED
    BY <2>4, <2>5 DEF s
<1>2. CASE q.order_by # <<>>
  <2> DEFINE I == Items(q, Rest(q, after))
  <2>1. PICK rows \in Leading(q.order_by, I, EffectiveFirst(q) + 1) :
          \E nodes \in Leading(q.order_by, rows, EffectiveFirst(q)) : p = PageOf(q, nodes, rows)
    BY <1>2, OrderedPages
  <2>2. PICK nodes \in Leading(q.order_by, rows, EffectiveFirst(q)) : p = PageOf(q, nodes, rows)
    BY <2>1
  <2>3. \A x \in I : /\ x \in Rows /\ Sortable(q.order_by, x) /\ Cursor(q, x) \in Cursors
                     /\ after # None => Precedes(q.order_by, after.v, x)
    <3>1. /\ Rest(q, after) \in SUBSET Universe
          /\ after # None => \A r \in Rest(q, after) : Beyond(q.order_by, after.v, r)
      BY DEF Rest
    <3> QED
      BY <3>1, ItemsLieBeyond
  <2>4. nodes \subseteq I
    BY <2>1, <2>2 DEF Leading
  <2> HIDE DEF I
  <2>5. /\ p.nodes = nodes
        /\ p.more = (nodes # rows)
        /\ p.cursors = {Cursor(q, x) : x \in {y \in nodes : \A z \in nodes : ~Precedes(q.order_by, y, z)}}
        /\ p = [nodes |-> p.nodes, more |-> p.more, cursors |-> p.cursors]
    BY <2>2 DEF PageOf
  <2>6. p \in PageRecords
    BY <2>3, <2>4, <2>5 DEF PageRecords
  <2>7. ASSUME NEW c \in p.cursors
        PROVE  /\ c \in Cursors
               /\ \E x \in p.nodes : c = Cursor(s, x)
               /\ \A x \in p.nodes : AtOrBefore(s.order_by, x, c.v)
    <3>1. PICK x \in nodes : c = Cursor(q, x) /\ \A z \in nodes : ~Precedes(q.order_by, x, z)
      BY <2>5, <2>7
    <3>2. \A y \in nodes : AtOrBefore(q.order_by, y, x)
      BY <1>o, <2>3, <2>4, <3>1, LastRows
    <3>3. SameKey(q.order_by, c.v, x)
      BY <3>1, CursorKey
    <3>4. ASSUME NEW y \in nodes PROVE AtOrBefore(q.order_by, y, c.v)
      <4>1. Precedes(q.order_by, y, x) => Precedes(q.order_by, y, c.v)
        BY <1>o, <3>3, SameKeyPrecedes
      <4>2. SameKey(q.order_by, y, x) => SameKey(q.order_by, y, c.v)
        BY <3>3 DEF SameKey
      <4> QED
        BY <3>2, <4>1, <4>2 DEF AtOrBefore
    <3>5. c \in Cursors
      BY <2>3, <2>4, <3>1
    <3>6. c = Cursor(s, x) /\ x \in p.nodes
      BY <1>s, <2>5, <3>1
    <3>7. \A y \in p.nodes : AtOrBefore(s.order_by, y, c.v)
      BY <1>s, <2>5, <3>4
    <3> QED
      BY <3>5, <3>6, <3>7
  <2>8. Sound(s, p)
    BY <1>s, <2>3, <2>4, <2>5, <2>7 DEF Sound
  <2> QED
    BY <2>6, <2>8 DEF s
<1> QED
  BY <1>1, <1>2

(* Rows of one table with the same key are one item. *)
LEMMA KeysIdentify ==
  ASSUME NEW q \in Queries, OrderCols(q) \subseteq q.select, OrderIsUnique(q),
         table \subseteq Universe, Consistent(table), NEW r \in table, NEW t \in table,
         Reachable(q, t),
         SameKey(q.order_by, ItemOf(q, r), ItemOf(q, t))
  PROVE  ItemOf(q, r) = ItemOf(q, t)
<1>1. \A c \in OrderCols(q) : r[c] = t[c] /\ r[c] # Null
  <2>1. r \in Universe /\ t \in Universe
    OBVIOUS
  <2>2. \A c \in OrderCols(q) : ItemOf(q, r)[c] = r[c] /\ ItemOf(q, t)[c] = t[c]
    BY <2>1, ItemIsTyped
  <2>3. \A c \in OrderCols(q) : ItemOf(q, r)[c] = ItemOf(q, t)[c] /\ c \in Columns
    BY QueriesAreTyped DEF SameKey, OrderCols
  <2> QED
    BY <2>1, <2>2, <2>3 DEF Reachable
<1>2. CASE PrimaryKey # {} /\ PrimaryKey \subseteq OrderCols(q)
  BY <1>1, <1>2 DEF Consistent
<1>3. CASE UniqueCols \cap OrderCols(q) # {}
  BY <1>1, <1>3 DEF Consistent
<1>4. CASE q.aggregate /\ q.select \subseteq OrderCols(q)
  <2>1. [c \in q.select |-> r[c]] = [c \in q.select |-> t[c]]
    BY <1>1, <1>4
  <2> QED
    BY <1>4, <2>1 DEF ItemOf
<1> QED
  BY <1>2, <1>3, <1>4 DEF OrderIsUnique

LEMMA PagesCover ==
  ASSUME NEW q \in Queries, NEW after \in Cursors \cup {None}, Refusal(q, after) = None,
         q.order_by # <<>>, table \subseteq Universe, Consistent(table),
         NEW p \in Pages(q, after), NEW r \in table
  PROVE  Covers(Statement(q, after), p, r)
<1> DEFINE s == Statement(q, after)
           I == Items(q, Rest(q, after))
           y == ItemOf(q, r)
<1>s. /\ s.order_by = q.order_by /\ s.where = q.where
      /\ s.after = IF after = None THEN {} ELSE {after.v}
      /\ ItemOf(s, r) = ItemOf(q, r) /\ OrderCols(s) = OrderCols(q)
  BY StatementsOfQueries
<1>o. /\ q.order_by \in Orders
      /\ \A i \in DOMAIN q.order_by : q.order_by[i][1] \in OrderCols(q)
      /\ OrderCols(q) \subseteq Columns
  BY QueriesAreTyped
<1>n. OrderCols(q) \subseteq q.select /\ OrderIsUnique(q)
  BY NotRefused
<1>r. r \in Universe
  OBVIOUS
<1> HIDE DEF s
<1> SUFFICES ASSUME r \in q.where, Reachable(q, r), \A v \in s.after : Beyond(q.order_by, v, r),
                    y \notin p.nodes
             PROVE  /\ p.more
                    /\ \A c \in p.cursors : Comparable(c) => Beyond(q.order_by, c.v, r)
  BY <1>s DEF Covers, Reachable, s
<1>1. PICK rows \in Leading(q.order_by, I, EffectiveFirst(q) + 1) :
        \E nodes \in Leading(q.order_by, rows, EffectiveFirst(q)) : p = PageOf(q, nodes, rows)
  BY OrderedPages
<1>2. PICK nodes \in Leading(q.order_by, rows, EffectiveFirst(q)) : p = PageOf(q, nodes, rows)
  BY <1>1
<1>3. /\ p.nodes = nodes /\ p.more = (nodes # rows)
      /\ p.cursors = {Cursor(q, x) : x \in {u \in nodes : \A z \in nodes : ~Precedes(q.order_by, u, z)}}
  BY <1>2 DEF PageOf
<1>4. Rest(q, after) \in SUBSET Universe /\ r \in Rest(q, after)
  BY <1>s DEF Rest
<1>5. y \in I
  BY <1>4, ItemsOfRows
<1>6. nodes \subseteq rows /\ rows \subseteq I
  BY <1>1, <1>2 DEF Leading
<1>7. p.more
  <2> SUFFICES ASSUME nodes = rows PROVE FALSE
    BY <1>3
  <2>1. IsFiniteSet(I)
    BY <1>4, ItemsAreFinite
  <2>2. rows = I
    <3> HIDE DEF I
    <3> QED BY <1>1, <1>2, <2>1, FirstIsNatural, NothingCut
  <2> QED
    BY <1>3, <1>5, <2>2
<1>8. ASSUME NEW x \in nodes
      PROVE  Precedes(q.order_by, x, y)
  <2>1. ~Precedes(q.order_by, y, x)
    BY <1>1, <1>2, <1>3, <1>5, <1>6 DEF Leading
  <2>2. PICK t \in Rest(q, after) : x = ItemOf(q, t)
    BY <1>6, ItemsOfRows
  <2>3. t \in table /\ t \in Universe
    BY <2>2 DEF Rest
  <2>4. x # y
    BY <1>3
  <2>5. ~SameKey(q.order_by, x, y)
    BY <1>n, <2>2, <2>3, <2>4, KeysIdentify
  <2> QED
    BY <1>n, <1>o, <1>r, <2>1, <2>2, <2>3, <2>5, ItemIsTyped, PrecedesTotal
<1>9. ASSUME NEW c \in p.cursors, Comparable(c)
      PROVE  Beyond(q.order_by, c.v, r)
  <2>1. PICK x \in nodes : c = Cursor(q, x)
    BY <1>3
  <2>2. PICK t \in Rest(q, after) : x = ItemOf(q, t)
    BY <1>6, <2>1, ItemsOfRows
  <2>3. t \in Universe
    BY <2>2 DEF Rest
  <2>4. /\ SameKey(q.order_by, c.v, x)
        /\ SameKey(q.order_by, r, y)
        /\ \A i \in DOMAIN q.order_by : x[q.order_by[i][1]] = t[q.order_by[i][1]]
    BY <1>n, <1>o, <1>r, <2>1, <2>2, <2>3, CursorKey, ItemIsTyped DEF SameKey
  <2>5. Precedes(q.order_by, c.v, r)
    BY <1>8, <1>o, <2>4, SameKeyPrecedes
  <2>6. \A i \in DOMAIN q.order_by :
          /\ c.v[q.order_by[i][1]] = t[q.order_by[i][1]]
          /\ t[q.order_by[i][1]] \in Values /\ r[q.order_by[i][1]] \in Values
          /\ t[q.order_by[i][1]] # Null /\ r[q.order_by[i][1]] # Null
    <3>1. \A e \in OrderCols(q) : c.v[e] # Null /\ r[e] # Null
      BY <1>9, <2>1 DEF Comparable, Cursor, Reachable
    <3> QED
      BY <1>o, <1>r, <2>3, <2>4, <3>1, UniverseIsTyped DEF SameKey
  <2>7. Sortable(q.order_by, c.v) /\ Sortable(q.order_by, r)
    BY <2>6 DEF Sortable
  <2> QED
    BY <1>o, <2>5, <2>6, <2>7, SortsAfterIsBeyond
<1> QED
  BY <1>7, <1>9

-----------------------------------------------------------------------------
(* Types. *)

Requested == Queries \X (Cursors \cup {None})

StatementRecords == {Statement(x[1], x[2]) : x \in Requested}

EntryRecords == [stmt : StatementRecords, page : PageRecords, left : 1 .. Ttl]

WalkRecords ==
  [status : Statuses, query : Queries \cup {None}, after : Cursors \cup {None},
   page : SUBSET Rows, seen : SUBSET Rows, kept : SUBSET Universe]

(* What TypeOK says, the shape of all records, and that ages are counted. *)
Typed ==
  /\ TypeOK
  /\ IsFiniteSet(cached)
  /\ cached \subseteq EntryRecords
  /\ walks \in [Clients -> WalkRecords]
  /\ \A w \in Clients : walks[w].status # "idle" => walks[w].query \in Queries

LEMMA StatusIsTyped ==
  ASSUME NEW q, NEW after, Refusal(q, after) # None
  PROVE  Refusal(q, after) \in Refused
BY DEF Refusal, Refused

LEMMA TypedInit == Init => Typed
<1> SUFFICES ASSUME Init PROVE Typed
  OBVIOUS
<1>1. table \subseteq Universe /\ Consistent(table) /\ Ttl \in Nat /\ MaxWrites \in Nat /\ CacheSize \in Nat
  BY PaginationAssumption DEF Init
<1>2. IsFiniteSet(cached) /\ Cardinality(cached) <= CacheSize /\ cached = {}
  BY <1>1, FS_EmptySet DEF Init
<1>3. NotWalking \in WalkRecords
  BY DEF NotWalking, WalkRecords, Statuses
<1>4. walks \in [Clients -> WalkRecords] /\ \A w \in Clients : walks[w] = NotWalking
  BY <1>3 DEF Init
<1>5. \A w \in Clients : /\ walks[w].status = "idle" /\ walks[w].page = {} /\ walks[w].kept = {}
                         /\ walks[w].seen = {} /\ walks[w].query = None
  BY <1>4 DEF NotWalking
<1>6. age \in [Universe -> 0 .. Ttl] /\ writes \in 0 .. MaxWrites
  BY <1>1 DEF Init
<1> QED
  BY <1>1, <1>2, <1>4, <1>5, <1>6 DEF Typed, TypeOK, Statuses

(* An answer is a page whose statement is the one asked for. *)
LEMMA AnswersAreTyped ==
  ASSUME Typed, NEW q \in Queries, NEW after \in Cursors \cup {None}, Refusal(q, after) = None,
         NEW p, Answer(q, after, p)
  PROVE  /\ p \in PageRecords
         /\ IsFiniteSet(cached') /\ Cardinality(cached') <= CacheSize
         /\ cached' \subseteq EntryRecords
         /\ \A e, f \in cached' : e.stmt = f.stmt => e = f
<1>t. /\ table \subseteq Universe /\ IsFiniteSet(cached) /\ cached \subseteq EntryRecords
      /\ Cardinality(cached) \in Nat /\ Cardinality(cached) <= CacheSize /\ CacheSize \in Nat
      /\ \A e, f \in cached : e.stmt = f.stmt => e = f
  BY FS_CardinalityType, PaginationAssumption DEF Typed, TypeOK
<1>1. CASE /\ \E e \in Entries(q, after) : p = e.page
           /\ UNCHANGED cached
  <2>1. p \in PageRecords
    BY <1>1, <1>t DEF Entries, EntryRecords
  <2> QED
    BY <1>1, <1>t, <2>1
<1>2. CASE /\ Entries(q, after) = {}
           /\ p \in Pages(q, after)
           /\ IF Ttl = 0 \/ CacheSize = 0
                THEN UNCHANGED cached
                ELSE Store([stmt |-> Statement(q, after), page |-> p, left |-> Ttl])
  <2> DEFINE n == [stmt |-> Statement(q, after), page |-> p, left |-> Ttl]
  <2>1. p \in PageRecords
    BY <1>2, <1>t, PagesAreSound
  <2>2. CASE UNCHANGED cached
    BY <1>t, <2>1, <2>2
  <2>3. CASE Ttl # 0 /\ CacheSize # 0 /\ Store(n)
    <3>1. n \in EntryRecords
      <4>1. <<q, after>> \in Requested
        BY DEF Requested
      <4>2. Statement(q, after) \in StatementRecords
        BY <4>1 DEF StatementRecords
      <4>3. Ttl \in 1 .. Ttl
        BY <2>3, PaginationAssumption
      <4> QED
        BY <2>1, <4>2, <4>3 DEF EntryRecords
    <3>2. n.stmt = Statement(q, after)
      OBVIOUS
    <3> HIDE DEF n
    <3>3. \A e \in cached : e.stmt # n.stmt
      BY <1>2, <3>2 DEF Entries
    <3>4. CASE Cardinality(cached) < CacheSize
      <4>1. cached' = cached \cup {n}
        BY <2>3, <3>4 DEF Store
      <4>2. n \notin cached
        BY <3>3
      <4>3. IsFiniteSet(cached') /\ Cardinality(cached') = Cardinality(cached) + 1
        BY <1>t, <4>1, <4>2, FS_AddElement
      <4>4. Cardinality(cached') <= CacheSize
        BY <1>t, <3>4, <4>3
      <4> QED
        BY <1>t, <2>1, <3>1, <3>3, <4>1, <4>3, <4>4
    <3>5. CASE ~(Cardinality(cached) < CacheSize)
      <4>1. PICK f \in cached : cached' = (cached \ {f}) \cup {n}
        BY <2>3, <3>5 DEF Store
      <4>2. IsFiniteSet(cached \ {f}) /\ Cardinality(cached \ {f}) = Cardinality(cached) - 1
        BY <1>t, FS_RemoveElement
      <4>3. n \notin cached \ {f}
        BY <3>3
      <4>4. IsFiniteSet(cached') /\ Cardinality(cached') = Cardinality(cached \ {f}) + 1
        BY <4>1, <4>2, <4>3, FS_AddElement
      <4>5. Cardinality(cached') <= CacheSize
        BY <1>t, <4>2, <4>4
      <4> QED
        BY <1>t, <2>1, <3>1, <3>3, <4>1, <4>4, <4>5
    <3> QED
      BY <3>4, <3>5
  <2> QED
    BY <1>2, <2>2, <2>3
<1> QED
  BY <1>1, <1>2 DEF Answer

CacheTyped ==
  /\ IsFiniteSet(cached) /\ Cardinality(cached) <= CacheSize
  /\ cached \subseteq EntryRecords
  /\ \A e, f \in cached : e.stmt = f.stmt => e = f

(* A step of one client, whose walk becomes n. *)
LEMMA WalkStepTyped ==
  ASSUME Typed, NEW w \in Clients, NEW n \in WalkRecords,
         n.status # "idle" => n.query \in Queries,
         n.page \subseteq n.seen, n.kept \subseteq table,
         walks' = [walks EXCEPT ![w] = n],
         UNCHANGED <<table, age, writes>>, CacheTyped'
  PROVE  Typed'
<1>1. walks' \in [Clients -> WalkRecords]
  BY DEF Typed
<1>2. \A u \in Clients : /\ walks'[u] \in WalkRecords
                         /\ walks'[u].status # "idle" => walks'[u].query \in Queries
                         /\ walks'[u].page \subseteq walks'[u].seen
                         /\ walks'[u].kept \subseteq table
  BY DEF Typed, TypeOK
<1>3. \A u \in Clients : walks'[u].status \in Statuses /\ walks'[u].query \in Queries \cup {None}
  BY <1>2 DEF WalkRecords
<1>4. \A e \in cached' : e.left \in 1 .. Ttl
  BY DEF CacheTyped, EntryRecords
<1> QED
  BY <1>1, <1>2, <1>3, <1>4 DEF Typed, TypeOK, CacheTyped

LEMMA CacheIsTyped == Typed => CacheTyped
BY DEF Typed, TypeOK, CacheTyped

LEMMA ReceivedIsTyped ==
  ASSUME Typed, NEW w \in Clients, walks[w].status = "walking", NEW p \in PageRecords
  PROVE  /\ Received(w, p) \in WalkRecords
         /\ Received(w, p).page = p.nodes
         /\ Received(w, p).seen = walks[w].seen \cup p.nodes
         /\ Received(w, p).query = walks[w].query
         /\ Received(w, p).kept = walks[w].kept
         /\ Received(w, p).after = IF p.cursors = {} THEN None ELSE CHOOSE c \in p.cursors : TRUE
<1>1. walks[w] \in WalkRecords
  BY DEF Typed
<1>2. p.nodes \in SUBSET Rows /\ p.cursors \in SUBSET Cursors
  BY DEF PageRecords
<1>3. (IF p.cursors = {} THEN None ELSE CHOOSE c \in p.cursors : TRUE) \in Cursors \cup {None}
  BY <1>2
<1>4. (IF walks[w].query.order_by = <<>> THEN "plain"
       ELSE IF ~p.more THEN "complete"
       ELSE IF p.cursors # {} THEN "walking"
       ELSE "stuck") \in Statuses
  BY DEF Statuses
<1> QED
  BY <1>1, <1>2, <1>3, <1>4 DEF Received, WalkRecords

LEMMA FetchPageIsTyped ==
  ASSUME Typed, NEW w \in Clients, FetchPage(w)
  PROVE  Typed'
<1>1. /\ walks[w] \in WalkRecords /\ walks[w].status = "walking" /\ walks[w].query \in Queries
      /\ walks[w].after \in Cursors \cup {None}
      /\ walks[w].kept \subseteq table
  BY DEF Typed, TypeOK, FetchPage, WalkRecords
<1>2. PICK p : /\ Answer(walks[w].query, walks[w].after, p)
               /\ walks' = [walks EXCEPT ![w] = Received(w, p)]
               /\ Refusal(walks[w].query, walks[w].after) = None
               /\ UNCHANGED <<table, age, writes>>
  BY DEF FetchPage
<1>3. p \in PageRecords /\ CacheTyped'
  BY <1>1, <1>2, AnswersAreTyped DEF CacheTyped
<1> DEFINE n == Received(w, p)
<1>4. /\ n \in WalkRecords /\ n.page \subseteq n.seen /\ n.query \in Queries
      /\ n.kept \subseteq table
  BY <1>1, <1>3, ReceivedIsTyped
<1> HIDE DEF n
<1> QED
  BY <1>2, <1>3, <1>4, WalkStepTyped DEF n

(* Time passes: entries grow older, and no two of them become one. *)
LEMMA TickIsTyped ==
  ASSUME Typed, Tick
  PROVE  Typed'
<1> DEFINE live == {f \in cached : f.left > 1}
           older == [e \in live |-> [e EXCEPT !.left = @ - 1]]
<1>t. /\ IsFiniteSet(cached) /\ Cardinality(cached) <= CacheSize /\ CacheSize \in Nat /\ Ttl \in Nat
      /\ cached \subseteq EntryRecords
      /\ \A e, f \in cached : e.stmt = f.stmt => e = f
      /\ age \in [Universe -> 0 .. Ttl]
  BY PaginationAssumption DEF Typed, TypeOK
<1>1. IsFiniteSet(live) /\ Cardinality(live) <= Cardinality(cached)
  BY <1>t, FS_Subset
<1>2. cached' = {[e EXCEPT !.left = @ - 1] : e \in live}
  BY DEF Tick
<1>3. older \in Surjection(live, cached')
  BY <1>2 DEF Surjection
<1>4. IsFiniteSet(cached') /\ Cardinality(cached') <= Cardinality(live)
  <2> HIDE DEF live, older
  <2> QED BY <1>1, <1>3, FS_Surjection
<1>5. Cardinality(cached') <= CacheSize
  BY <1>t, <1>1, <1>4, FS_CardinalityType
<1>6. ASSUME NEW e \in live
      PROVE  older[e] \in EntryRecords /\ older[e].stmt = e.stmt
  BY <1>t DEF EntryRecords
<1>7. cached' \subseteq EntryRecords /\ \A e, f \in cached' : e.stmt = f.stmt => e = f
  <2>1. \A e \in cached' : \E f \in live : e = older[f]
    BY <1>2
  <2>2. live \subseteq cached
    OBVIOUS
  <2> HIDE DEF live, older
  <2> QED
    BY <1>t, <1>6, <2>1, <2>2
<1>8. \A e \in cached' : e.left \in 1 .. Ttl
  BY <1>7 DEF EntryRecords
<1>9. age' \in [Universe -> 0 .. Ttl]
  BY <1>t DEF Tick
<1>10. UNCHANGED <<table, walks, writes>>
  BY DEF Tick
<1> QED
  BY <1>4, <1>5, <1>7, <1>8, <1>9, <1>10 DEF Typed, TypeOK

LEMMA TypedNext == Typed /\ [Next]_vars => Typed'
<1> SUFFICES ASSUME Typed, [Next]_vars PROVE Typed'
  OBVIOUS
<1>t. /\ walks \in [Clients -> WalkRecords]
      /\ \A w \in Clients :
           /\ walks[w] \in WalkRecords
           /\ walks[w].status # "idle" => walks[w].query \in Queries
           /\ walks[w].page \subseteq walks[w].seen
           /\ walks[w].kept \subseteq table
      /\ table \subseteq Universe /\ Ttl \in Nat /\ MaxWrites \in Nat
      /\ age \in [Universe -> 0 .. Ttl]
      /\ writes \in 0 .. MaxWrites
  BY PaginationAssumption DEF Typed, TypeOK
<1>c. CacheTyped
  BY CacheIsTyped
<1>c2. UNCHANGED cached => CacheTyped'
  BY <1>c DEF CacheTyped
<1>1. ASSUME NEW w \in Clients, NEW q \in Queries, Begin(w, q)
      PROVE  Typed'
  <2> DEFINE n == [NotWalking EXCEPT !.status = "walking", !.query = q, !.kept = Settled]
  <2>1. /\ n \in WalkRecords /\ n.query \in Queries /\ n.page \subseteq n.seen
        /\ n.kept \subseteq table
    BY <1>t DEF NotWalking, WalkRecords, Settled, Statuses
  <2>2. walks' = [walks EXCEPT ![w] = n] /\ UNCHANGED <<table, age, cached, writes>>
    BY <1>1 DEF Begin
  <2> HIDE DEF n
  <2> QED
    BY <1>c2, <2>1, <2>2, WalkStepTyped
<1>2. ASSUME NEW w \in Clients, NEW q \in Queries, Revise(w, q)
      PROVE  Typed'
  <2> DEFINE n == [walks[w] EXCEPT !.query = q]
  <2>1. /\ n \in WalkRecords /\ n.query \in Queries /\ n.page \subseteq n.seen
        /\ n.kept \subseteq table
    BY <1>t DEF WalkRecords
  <2>2. walks' = [walks EXCEPT ![w] = n] /\ UNCHANGED <<table, age, cached, writes>>
    BY <1>2, <1>t DEF Revise
  <2> HIDE DEF n
  <2> QED
    BY <1>c2, <2>1, <2>2, WalkStepTyped
<1>3. ASSUME NEW w \in Clients, PageRefused(w)
      PROVE  Typed'
  <2> DEFINE refusal == Refusal(walks[w].query, walks[w].after)
             n == [walks[w] EXCEPT !.status = refusal]
  <2>1. refusal \in Statuses
    BY <1>3, StatusIsTyped DEF PageRefused, Statuses
  <2>2. walks[w].query \in Queries
    BY <1>3, <1>t DEF PageRefused
  <2>3. walks' = [walks EXCEPT ![w] = n] /\ UNCHANGED <<table, age, cached, writes>>
    BY <1>3, <1>t DEF PageRefused
  <2> HIDE DEF refusal
  <2>4. /\ n \in WalkRecords /\ n.query \in Queries /\ n.page \subseteq n.seen
        /\ n.kept \subseteq table
    BY <1>t, <2>1, <2>2 DEF WalkRecords
  <2> HIDE DEF n
  <2> QED
    BY <1>c2, <2>3, <2>4, WalkStepTyped
<1>4. ASSUME NEW w \in Clients, FetchPage(w)
      PROVE  Typed'
  BY <1>4, FetchPageIsTyped
<1>5. ASSUME NEW w \in Clients, PageLost(w)
      PROVE  Typed'
  <2>1. /\ walks[w].query \in Queries /\ walks[w].after \in Cursors \cup {None}
    BY <1>5, <1>t DEF PageLost, WalkRecords
  <2>2. PICK p : /\ Answer(walks[w].query, walks[w].after, p)
                 /\ Refusal(walks[w].query, walks[w].after) = None
                 /\ UNCHANGED <<table, age, walks, writes>>
    BY <1>5 DEF PageLost
  <2>3. CacheTyped'
    BY <2>1, <2>2, AnswersAreTyped DEF CacheTyped
  <2>4. \A e \in cached' : e.left \in 1 .. Ttl
    BY <2>3 DEF CacheTyped, EntryRecords
  <2> QED
    BY <2>2, <2>3, <2>4 DEF Typed, TypeOK, CacheTyped
<1>6. ASSUME NEW w \in Clients, Finish(w)
      PROVE  Typed'
  <2>1. /\ NotWalking \in WalkRecords /\ NotWalking.status = "idle"
        /\ NotWalking.page \subseteq NotWalking.seen /\ NotWalking.kept \subseteq table
    BY DEF NotWalking, WalkRecords, Statuses
  <2>2. walks' = [walks EXCEPT ![w] = NotWalking] /\ UNCHANGED <<table, age, cached, writes>>
    BY <1>6 DEF Finish
  <2> QED
    BY <1>c2, <2>1, <2>2, WalkStepTyped
<1>7. ASSUME NEW r \in Universe, Insert(r)
      PROVE  Typed'
  <2>1. /\ table' \subseteq Universe /\ Consistent(table') /\ table \subseteq table'
        /\ age' \in [Universe -> 0 .. Ttl] /\ writes' \in 0 .. MaxWrites
        /\ UNCHANGED <<cached, walks>>
    BY <1>7, <1>t DEF Insert
  <2>2. \A w \in Clients : walks'[w].kept \subseteq table'
    BY <1>t, <2>1
  <2> QED
    BY <2>1, <2>2 DEF Typed, TypeOK
<1>8. ASSUME NEW r \in Universe, Delete(r)
      PROVE  Typed'
  <2>1. /\ table' = table \ {r} /\ table' \subseteq Universe
        /\ age' \in [Universe -> 0 .. Ttl] /\ writes' \in 0 .. MaxWrites
        /\ UNCHANGED cached
    BY <1>8, <1>t DEF Delete
  <2>2. Consistent(table')
    BY <2>1 DEF Typed, TypeOK, Consistent
  <2>3. /\ walks' = [w \in Clients |-> [walks[w] EXCEPT !.kept = @ \ {r}]]
    BY <1>8 DEF Delete
  <2>4. ASSUME NEW w \in Clients
        PROVE  /\ walks'[w] \in WalkRecords
               /\ walks'[w].status = walks[w].status /\ walks'[w].query = walks[w].query
               /\ walks'[w].page = walks[w].page /\ walks'[w].seen = walks[w].seen
               /\ walks'[w].kept \subseteq table'
    BY <1>t, <2>1, <2>3 DEF WalkRecords
  <2>5. walks' \in [Clients -> WalkRecords]
    BY <2>3, <2>4
  <2> QED
    BY <2>1, <2>2, <2>4, <2>5 DEF Typed, TypeOK
<1>9. CASE Tick
  BY <1>9, TickIsTyped
<1>10. CASE UNCHANGED vars
  BY <1>10 DEF vars, Typed, TypeOK
<1> QED
  BY <1>1, <1>2, <1>3, <1>4, <1>5, <1>6, <1>7, <1>8, <1>9, <1>10 DEF Next

LEMMA TypedAlways == Spec => []Typed
  BY TypedInit, TypedNext, PTL DEF Spec

(***************************************************************************)
(* Tables keep their keys, the result cache keeps its limit and one page   *)
(* for a statement, and what is kept of a walk is still in the table.      *)
(***************************************************************************)
THEOREM TypeCorrect == Spec => []TypeOK
  <1>1. Typed => TypeOK
    BY DEF Typed
  <1> QED BY <1>1, TypedAlways, PTL

-----------------------------------------------------------------------------
(* Walks only go forward. *)

(* The pages in the cache are sound ... *)
CacheSound == \A e \in cached : Sound(e.stmt, e.page)

(* ... and all that a walk has seen sorts up to its cursor. *)
SeenUpTo(n) ==
  /\ n.after = None => n.seen = {}
  /\ n.after # None =>
       \A q \in Queries : n.after.d = Fingerprint(q) =>
         \A x \in n.seen : Sortable(q.order_by, x) /\ AtOrBefore(q.order_by, x, n.after.v)

SeenInOrder == \A w \in Clients : walks[w].status = "walking" => SeenUpTo(walks[w])

LEMMA AnswersAreSound ==
  ASSUME Typed, CacheSound, NEW q \in Queries, NEW after \in Cursors \cup {None},
         Refusal(q, after) = None, NEW p, Answer(q, after, p)
  PROVE  Sound(Statement(q, after), p) /\ CacheSound'
<1>1. table \subseteq Universe
  BY DEF Typed, TypeOK
<1>2. CASE \E e \in Entries(q, after) : p = e.page /\ UNCHANGED cached
  BY <1>2 DEF CacheSound, Entries
<1>3. CASE p \in Pages(q, after) /\ UNCHANGED cached
  BY <1>1, <1>3, PagesAreSound DEF CacheSound
<1>4. CASE /\ p \in Pages(q, after)
           /\ Store([stmt |-> Statement(q, after), page |-> p, left |-> Ttl])
  <2> DEFINE n == [stmt |-> Statement(q, after), page |-> p, left |-> Ttl]
  <2>1. Sound(n.stmt, n.page)
    BY <1>1, <1>4, PagesAreSound
  <2>2. cached' \subseteq cached \cup {n}
    BY <1>4 DEF Store
  <2> HIDE DEF n
  <2>3. CacheSound'
    BY <2>1, <2>2 DEF CacheSound
  <2> QED
    BY <1>1, <1>4, <2>3, PagesAreSound
<1> QED
  BY <1>2, <1>3, <1>4 DEF Answer

(* A page continues the walk it is fetched for. *)
LEMMA PageContinues ==
  ASSUME Typed, CacheSound, NEW w \in Clients, walks[w].status = "walking",
         SeenUpTo(walks[w]), Refusal(walks[w].query, walks[w].after) = None,
         NEW p, Answer(walks[w].query, walks[w].after, p)
  PROVE  /\ \A x \in p.nodes, y \in walks[w].seen : Precedes(walks[w].query.order_by, y, x)
         /\ p.cursors # {} => SeenUpTo(Received(w, p))
<1> DEFINE q == walks[w].query
           after == walks[w].after
           s == Statement(q, after)
<1>1. q \in Queries /\ after \in Cursors \cup {None}
  BY DEF Typed, WalkRecords
<1>2. Sound(s, p) /\ p \in PageRecords
  BY <1>1, AnswersAreSound, AnswersAreTyped
<1>s. /\ s.order_by = q.order_by
      /\ s.after = IF after = None THEN {} ELSE {after.v}
      /\ \A x : Cursor(s, x) = Cursor(q, x)
  BY DEF Statement, Cursor, OrderCols, Fingerprint, GroupBy
<1>o. q.order_by \in Orders
  BY <1>1, QueriesAreTyped
<1> HIDE DEF s
<1>3. \A x \in p.nodes : Sortable(q.order_by, x)
  BY <1>2, <1>s DEF Sound
<1>4. ASSUME NEW x \in p.nodes, NEW y \in walks[w].seen
      PROVE  Precedes(q.order_by, y, x) /\ Sortable(q.order_by, y)
  <2>1. after # None
    BY <1>4 DEF SeenUpTo
  <2>2. after \in Cursors /\ after.d = Fingerprint(q)
    BY <1>1, <2>1, NotRefused
  <2>3. Sortable(q.order_by, after.v)
    BY <1>1, <2>2, CursorsAreTyped
  <2>4. Sortable(q.order_by, y) /\ AtOrBefore(q.order_by, y, after.v)
    BY <1>1, <2>1, <2>2 DEF SeenUpTo
  <2>5. Precedes(q.order_by, after.v, x)
    BY <1>2, <1>s, <2>1 DEF Sound
  <2>6. CASE Precedes(q.order_by, y, after.v)
    BY <1>o, <1>3, <2>3, <2>4, <2>5, <2>6, PrecedesTransitive
  <2>7. CASE SameKey(q.order_by, y, after.v)
    BY <1>o, <2>4, <2>5, <2>7, SameKeyPrecedes
  <2> QED
    BY <2>4, <2>6, <2>7 DEF AtOrBefore
<1>5. ASSUME p.cursors # {}
      PROVE  SeenUpTo(Received(w, p))
  <2> DEFINE c == CHOOSE c \in p.cursors : TRUE
             n == Received(w, p)
  <2>1. /\ n.after = c /\ c \in p.cursors
        /\ n.seen = walks[w].seen \cup p.nodes
    BY <1>2, <1>5, ReceivedIsTyped
  <2> HIDE DEF c, n
  <2>2. /\ c \in Cursors
        /\ \A x \in p.nodes : AtOrBefore(q.order_by, x, c.v)
    BY <1>2, <1>s, <2>1 DEF Sound
  <2>3. PICK z \in p.nodes : c = Cursor(q, z)
    BY <1>2, <1>s, <2>1 DEF Sound
  <2>4. c.d = Fingerprint(q) /\ SameKey(q.order_by, c.v, z)
    BY <1>1, <2>3, CursorKey
  <2>5. ASSUME NEW x \in n.seen
        PROVE  Sortable(q.order_by, x) /\ AtOrBefore(q.order_by, x, c.v)
    <3>1. CASE x \in p.nodes
      BY <1>3, <2>2, <3>1
    <3>2. CASE x \in walks[w].seen
      <4>1. Precedes(q.order_by, x, z) /\ Sortable(q.order_by, x)
        BY <1>4, <2>3, <3>2
      <4>2. Precedes(q.order_by, x, c.v)
        BY <1>o, <2>4, <4>1, SameKeyPrecedes
      <4> QED
        BY <4>1, <4>2 DEF AtOrBefore
    <3> QED
      BY <2>1, <3>1, <3>2
  <2>6. c # None
    BY <1>1, <2>2, <2>4, CursorsAreTyped
  <2>7. \A k \in Queries : c.d = Fingerprint(k) => k.order_by = q.order_by
    BY <2>4 DEF Fingerprint
  <2>8. SeenUpTo(n)
    BY <2>1, <2>5, <2>6, <2>7 DEF SeenUpTo
  <2> QED
    BY <2>8 DEF n
<1> QED
  BY <1>4, <1>5

LEMMA ForwardInit == Init => CacheSound /\ SeenInOrder
BY DEF Init, CacheSound, SeenInOrder, NotWalking

LEMMA ForwardNext ==
  ASSUME Typed, CacheSound, SeenInOrder, [Next]_vars
  PROVE  CacheSound' /\ SeenInOrder'
<1>t. /\ walks \in [Clients -> WalkRecords]
      /\ \A w \in Clients : walks[w].status # "idle" => walks[w].query \in Queries
  BY DEF Typed
<1>1. ASSUME NEW w \in Clients, NEW q \in Queries, Begin(w, q)
      PROVE  CacheSound' /\ SeenInOrder'
  <2>1. /\ walks'[w].after = None /\ walks'[w].seen = {}
        /\ \A u \in Clients \ {w} : walks'[u] = walks[u]
        /\ UNCHANGED cached
    BY <1>t, <1>1 DEF Begin, NotWalking
  <2> QED
    BY <2>1 DEF CacheSound, SeenInOrder, SeenUpTo
<1>2. ASSUME NEW w \in Clients, NEW q \in Queries, Revise(w, q)
      PROVE  CacheSound' /\ SeenInOrder'
  <2>1. /\ walks'[w].after = walks[w].after /\ walks'[w].seen = walks[w].seen
        /\ walks[w].status = "walking"
        /\ \A u \in Clients \ {w} : walks'[u] = walks[u]
        /\ UNCHANGED cached
    BY <1>t, <1>2 DEF Revise, WalkRecords
  <2> QED
    BY <2>1 DEF CacheSound, SeenInOrder, SeenUpTo
<1>3. ASSUME NEW w \in Clients, PageRefused(w) \/ Finish(w)
      PROVE  CacheSound' /\ SeenInOrder'
  <2>1. walks'[w].status # "walking"
    <3>1. \A s \in Refused : s # "walking"
      BY DEF Refused
    <3>2. CASE PageRefused(w)
      BY <1>t, <3>1, <3>2, StatusIsTyped DEF PageRefused, WalkRecords
    <3>3. CASE Finish(w)
      BY <1>t, <3>3 DEF Finish, NotWalking
    <3> QED
      BY <1>3, <3>2, <3>3
  <2>2. /\ \A u \in Clients \ {w} : walks'[u] = walks[u]
        /\ UNCHANGED cached
    BY <1>t, <1>3 DEF PageRefused, Finish
  <2> QED
    BY <2>1, <2>2 DEF CacheSound, SeenInOrder
<1>4. ASSUME NEW w \in Clients, FetchPage(w)
      PROVE  CacheSound' /\ SeenInOrder'
  <2>1. /\ walks[w] \in WalkRecords /\ walks[w].status = "walking" /\ walks[w].query \in Queries
        /\ walks[w].after \in Cursors \cup {None}
        /\ SeenUpTo(walks[w])
        /\ Refusal(walks[w].query, walks[w].after) = None
    BY <1>t, <1>4 DEF FetchPage, WalkRecords, SeenInOrder
  <2>2. PICK p : /\ Answer(walks[w].query, walks[w].after, p)
                 /\ walks' = [walks EXCEPT ![w] = Received(w, p)]
    BY <1>4 DEF FetchPage
  <2>3. CacheSound'
    BY <2>1, <2>2, AnswersAreSound
  <2>4. walks'[w] = Received(w, p) /\ \A u \in Clients \ {w} : walks'[u] = walks[u]
    BY <1>t, <2>2
  <2>5. walks'[w].status = "walking" => p.cursors # {}
    BY <2>1, <2>4 DEF Received, WalkRecords
  <2>6. walks'[w].status = "walking" => SeenUpTo(walks'[w])
    BY <2>1, <2>2, <2>4, <2>5, PageContinues
  <2> QED
    BY <2>3, <2>4, <2>6 DEF SeenInOrder, SeenUpTo
<1>5. ASSUME NEW w \in Clients, PageLost(w)
      PROVE  CacheSound' /\ SeenInOrder'
  <2>1. /\ walks[w].query \in Queries /\ walks[w].after \in Cursors \cup {None}
        /\ Refusal(walks[w].query, walks[w].after) = None /\ UNCHANGED walks
        /\ \E p : Answer(walks[w].query, walks[w].after, p)
    BY <1>t, <1>5 DEF PageLost, WalkRecords
  <2> QED
    BY <2>1, AnswersAreSound DEF SeenInOrder, SeenUpTo
<1>6. ASSUME NEW r \in Universe, Insert(r) \/ Delete(r)
      PROVE  CacheSound' /\ SeenInOrder'
  <2>1. /\ UNCHANGED cached
        /\ \A w \in Clients : /\ walks'[w].status = walks[w].status
                              /\ walks'[w].after = walks[w].after
                              /\ walks'[w].seen = walks[w].seen
    BY <1>t, <1>6 DEF Insert, Delete, WalkRecords
  <2> QED
    BY <2>1 DEF CacheSound, SeenInOrder, SeenUpTo
<1>7. CASE Tick
  <2>1. \A e \in cached' : \E f \in cached : e.stmt = f.stmt /\ e.page = f.page
    BY <1>7 DEF Tick, Typed, EntryRecords
  <2> QED
    BY <1>7, <2>1 DEF Tick, CacheSound, SeenInOrder, SeenUpTo
<1>8. CASE UNCHANGED vars
  BY <1>8 DEF vars, CacheSound, SeenInOrder, SeenUpTo
<1> QED
  BY <1>1, <1>2, <1>3, <1>4, <1>5, <1>6, <1>7, <1>8 DEF Next

LEMMA ForwardAlways == Spec => [](CacheSound /\ SeenInOrder)
  BY TypedAlways, ForwardInit, ForwardNext, PTL DEF Spec

(***************************************************************************)
(* Walks only go forward, whatever the table, its NULLs, the order and the *)
(* page sizes, while rows come and go, answers get lost, pages come from   *)
(* the cache and the client revises its query.                             *)
(***************************************************************************)
THEOREM PagesAlwaysAdvance == Spec => PagesAdvance
  <1>1. ASSUME Typed, CacheSound, SeenInOrder, NEW w \in Clients, FetchPage(w)
        PROVE  \A x \in walks'[w].page, y \in walks[w].seen :
                 Precedes(walks[w].query.order_by, y, x)
    <2>1. /\ walks \in [Clients -> WalkRecords] /\ walks[w].status = "walking"
          /\ walks[w].query \in Queries /\ walks[w].after \in Cursors \cup {None}
          /\ SeenUpTo(walks[w])
          /\ Refusal(walks[w].query, walks[w].after) = None
      BY <1>1 DEF FetchPage, Typed, WalkRecords, SeenInOrder
    <2>2. PICK p : /\ Answer(walks[w].query, walks[w].after, p)
                   /\ walks' = [walks EXCEPT ![w] = Received(w, p)]
      BY <1>1 DEF FetchPage
    <2>3. p \in PageRecords
      BY <1>1, <2>1, <2>2, AnswersAreTyped
    <2>4. walks'[w].page = p.nodes
      BY <1>1, <2>1, <2>2, <2>3, ReceivedIsTyped
    <2> QED
      BY <1>1, <2>1, <2>2, <2>4, PageContinues
  <1>2. Typed /\ CacheSound /\ SeenInOrder =>
          [\A w \in Clients :
             FetchPage(w) =>
               \A x \in walks'[w].page, y \in walks[w].seen :
                 Precedes(walks[w].query.order_by, y, x)]_vars
    BY <1>1
  <1> QED
    BY <1>2, TypedAlways, ForwardAlways, PTL DEF PagesAdvance

-----------------------------------------------------------------------------
(* No stable row is left out. *)

(***************************************************************************)
(* The fingerprint leaves out the selection: a client that asks for        *)
(* distinct items must keep it, or it is given items of another kind.      *)
(***************************************************************************)
SelectionIsKept ==
  \A p, q \in Queries : Fingerprint(p) = Fingerprint(q) /\ p.distinct => p.select = q.select

LEMMA SameItems ==
  ASSUME SelectionIsKept, NEW p \in Queries, NEW q \in Queries, Fingerprint(p) = Fingerprint(q)
  PROVE  /\ p.order_by = q.order_by /\ p.where = q.where
         /\ \A r : ItemOf(p, r) = ItemOf(q, r)
<1>1. /\ p.order_by = q.order_by /\ p.where = q.where /\ p.distinct = q.distinct
      /\ GroupBy(p) = GroupBy(q)
  BY DEF Fingerprint
<1>2. /\ p.select # None /\ q.select # None
      /\ p.aggregate \in BOOLEAN /\ q.aggregate \in BOOLEAN
  BY PaginationAssumption, NoneAssumption DEF IsQuery
<1>3. p.aggregate = q.aggregate /\ (p.aggregate => p.select = q.select)
  BY <1>1, <1>2 DEF GroupBy
<1>4. p.distinct => p.select = q.select
  BY DEF SelectionIsKept
<1> QED
  BY <1>1, <1>3, <1>4 DEF ItemOf

(* A page in the cache covers the rows that were there when it was read ... *)
CacheCovers ==
  \A e \in cached, r \in table :
    e.stmt.order_by # <<>> /\ age[r] + e.left > Ttl => Covers(e.stmt, e.page, r)

(* ... as were all that stay during a walk ... *)
KeptRowsAreOld == \A w \in Clients : \A r \in walks[w].kept : age[r] = Ttl

(* ... and of these all that a cursor can reach have been seen, or are still to come. *)
Accounted(n) ==
  /\ n.status = "walking" /\ n.after # None /\ Comparable(n.after) =>
       \A q \in Queries : n.after.d = Fingerprint(q) =>
         \A r \in n.kept \cap q.where :
           Reachable(q, r) => ItemOf(q, r) \in n.seen \/ Beyond(q.order_by, n.after.v, r)
  /\ n.status = "complete" =>
       \A r \in n.kept \cap n.query.where :
         Reachable(n.query, ItemOf(n.query, r)) => ItemOf(n.query, r) \in n.seen

StableInv == CacheCovers /\ KeptRowsAreOld /\ \A w \in Clients : Accounted(walks[w])

LEMMA AccountedStays ==
  ASSUME NEW n, Accounted(n), NEW m, m.kept \subseteq n.kept,
         m.status = n.status, m.query = n.query, m.after = n.after, m.seen = n.seen
  PROVE  Accounted(m)
BY DEF Accounted

LEMMA AnswersCover ==
  ASSUME Typed, CacheCovers, NEW q \in Queries, NEW after \in Cursors \cup {None},
         Refusal(q, after) = None, NEW p, Answer(q, after, p), UNCHANGED <<table, age>>
  PROVE  /\ q.order_by # <<>> =>
              \A r \in table : age[r] = Ttl => Covers(Statement(q, after), p, r)
         /\ CacheCovers'
<1>t. /\ table \subseteq Universe /\ Consistent(table) /\ Ttl \in Nat
      /\ age \in [Universe -> 0 .. Ttl]
      /\ \A e \in cached : e.left \in 1 .. Ttl
  BY PaginationAssumption DEF Typed, TypeOK
<1>s. Statement(q, after).order_by = q.order_by
  BY DEF Statement
<1>1. CASE \E e \in Entries(q, after) : p = e.page /\ UNCHANGED cached
  <2>1. PICK e \in cached : e.stmt = Statement(q, after) /\ p = e.page
    BY <1>1 DEF Entries
  <2>2. ASSUME NEW r \in table, age[r] = Ttl
        PROVE  age[r] + e.left > Ttl
    BY <1>t, <2>1, <2>2
  <2> QED
    BY <1>1, <1>s, <2>1, <2>2 DEF CacheCovers
<1>2. CASE p \in Pages(q, after) /\ UNCHANGED cached
  BY <1>2, <1>t, PagesCover DEF CacheCovers
<1>3. CASE /\ p \in Pages(q, after)
           /\ Store([stmt |-> Statement(q, after), page |-> p, left |-> Ttl])
  <2> DEFINE n == [stmt |-> Statement(q, after), page |-> p, left |-> Ttl]
  <2>1. \A r \in table : q.order_by # <<>> => Covers(n.stmt, n.page, r)
    BY <1>3, <1>t, PagesCover
  <2>2. cached' \subseteq cached \cup {n}
    BY <1>3 DEF Store
  <2>3. n.stmt.order_by = q.order_by
    BY <1>s
  <2>4. n.stmt = Statement(q, after) /\ n.page = p
    OBVIOUS
  <2> HIDE DEF n
  <2> QED
    BY <2>1, <2>2, <2>3, <2>4 DEF CacheCovers
<1> QED
  BY <1>1, <1>2, <1>3 DEF Answer

LEMMA PageAccounts ==
  ASSUME SelectionIsKept, Typed, CacheSound, StableInv, NEW w \in Clients, FetchPage(w)
  PROVE  Accounted(walks'[w])
<1> DEFINE q == walks[w].query
           after == walks[w].after
           s == Statement(q, after)
           kept == walks[w].kept
<1>1. /\ walks \in [Clients -> WalkRecords] /\ walks[w].status = "walking"
      /\ q \in Queries /\ after \in Cursors \cup {None}
      /\ kept \subseteq table /\ Refusal(q, after) = None
  BY DEF FetchPage, Typed, TypeOK, WalkRecords
<1>2. PICK p : /\ Answer(q, after, p)
               /\ walks' = [walks EXCEPT ![w] = Received(w, p)]
               /\ UNCHANGED <<table, age>>
  BY DEF FetchPage
<1> DEFINE n == Received(w, p)
<1>3. p \in PageRecords /\ Sound(s, p)
  BY <1>1, <1>2, AnswersAreTyped, AnswersAreSound
<1>4. walks'[w] = n
  BY <1>1, <1>2
<1>5. /\ n.seen = walks[w].seen \cup p.nodes /\ n.query = q /\ n.kept = kept
      /\ n.after = IF p.cursors = {} THEN None ELSE CHOOSE c \in p.cursors : TRUE
  BY <1>1, <1>3, ReceivedIsTyped
<1>6. /\ n.status = "walking" => p.cursors # {} /\ q.order_by # <<>>
      /\ n.status = "complete" => ~p.more /\ q.order_by # <<>>
  <2>1. n.status = IF q.order_by = <<>> THEN "plain"
                   ELSE IF ~p.more THEN "complete"
                   ELSE IF p.cursors # {} THEN "walking"
                   ELSE "stuck"
    BY <1>1 DEF Received, WalkRecords
  <2> HIDE DEF n
  <2> QED
    BY <2>1
<1>7. /\ s.order_by = q.order_by /\ s.where = q.where
      /\ s.after = IF after = None THEN {} ELSE {after.v}
      /\ \A r : ItemOf(s, r) = ItemOf(q, r)
      /\ \A x : Cursor(s, x) = Cursor(q, x)
      /\ OrderCols(s) = OrderCols(q)
  BY DEF Statement, ItemOf, Cursor, OrderCols, Fingerprint, GroupBy
<1>8. after # None => after.d = Fingerprint(q) /\ Comparable(after)
  BY <1>1, NotRefused
<1> HIDE DEF n, s
<1>9. ASSUME q.order_by # <<>>, NEW r \in kept \cap q.where, Reachable(q, r)
      PROVE  \/ ItemOf(q, r) \in n.seen
             \/ p.more /\ \A c \in p.cursors : Comparable(c) => Beyond(q.order_by, c.v, r)
  <2>1. age[r] = Ttl /\ r \in table
    BY <1>1 DEF StableInv, KeptRowsAreOld
  <2>2. Covers(s, p, r)
    BY <1>1, <1>2, <1>9, <2>1, AnswersCover DEF StableInv, s
  <2>r. Reachable(s, r)
    BY <1>7, <1>9 DEF Reachable
  <2>3. CASE after = None
    BY <1>5, <1>7, <2>2, <2>3, <2>r, <1>9 DEF Covers
  <2>4. CASE after # None /\ Beyond(q.order_by, after.v, r)
    BY <1>5, <1>7, <2>2, <2>4, <2>r, <1>9 DEF Covers
  <2>5. CASE after # None /\ ItemOf(q, r) \in walks[w].seen
    BY <1>5, <2>5
  <2>6. after # None => ItemOf(q, r) \in walks[w].seen \/ Beyond(q.order_by, after.v, r)
    BY <1>1, <1>8, <1>9 DEF StableInv, Accounted
  <2> QED
    BY <2>3, <2>4, <2>5, <2>6
<1>10. ASSUME n.status = "walking", Comparable(n.after),
              NEW k \in Queries, n.after.d = Fingerprint(k),
              NEW r \in n.kept \cap k.where, Reachable(k, r)
       PROVE  ItemOf(k, r) \in n.seen \/ Beyond(k.order_by, n.after.v, r)
  <2>1. n.after \in p.cursors
    BY <1>5, <1>6, <1>10
  <2>2. n.after.d = Fingerprint(q)
    <3>1. PICK x \in p.nodes : n.after = Cursor(q, x)
      BY <1>3, <1>7, <2>1 DEF Sound
    <3> QED
      BY <3>1 DEF Cursor
  <2>3. k.order_by = q.order_by /\ k.where = q.where /\ ItemOf(k, r) = ItemOf(q, r)
    BY <1>1, <1>10, <2>2, SameItems
  <2>4. Reachable(q, r)
    BY <1>10, <2>3 DEF Reachable, OrderCols
  <2> QED
    BY <1>5, <1>6, <1>9, <1>10, <2>1, <2>3, <2>4
<1>11. ASSUME n.status = "complete", NEW r \in n.kept \cap n.query.where,
              Reachable(n.query, ItemOf(n.query, r))
       PROVE  ItemOf(n.query, r) \in n.seen
  <2>1. r \in Universe /\ OrderCols(q) \subseteq q.select
    BY <1>1, <1>5, <1>11, NotRefused DEF Typed, TypeOK
  <2>2. Reachable(q, r)
    BY <1>1, <1>5, <1>11, <2>1, ItemIsTyped DEF Reachable
  <2> QED
    BY <1>5, <1>6, <1>9, <1>11, <2>2
<1>12. Accounted(n)
  BY <1>10, <1>11 DEF Accounted
<1> QED
  BY <1>4, <1>12

LEMMA StableInit == Init => StableInv
BY DEF Init, StableInv, CacheCovers, KeptRowsAreOld, Accounted, NotWalking

LEMMA StableNext ==
  ASSUME SelectionIsKept, Typed, CacheSound, StableInv, [Next]_vars
  PROVE  StableInv'
<1>t. /\ walks \in [Clients -> WalkRecords]
      /\ \A w \in Clients : walks[w].status # "idle" => walks[w].query \in Queries
      /\ \A w \in Clients : walks[w].kept \subseteq table
      /\ table \subseteq Universe /\ age \in [Universe -> 0 .. Ttl] /\ Ttl \in Nat
      /\ \A e \in cached : e.left \in 1 .. Ttl
  BY PaginationAssumption DEF Typed, TypeOK
<1>i. CacheCovers /\ KeptRowsAreOld /\ \A w \in Clients : Accounted(walks[w])
  BY DEF StableInv
<1>1. ASSUME NEW w \in Clients, NEW q \in Queries, Begin(w, q)
      PROVE  StableInv'
  <2>1. /\ walks'[w].after = None /\ walks'[w].status = "walking" /\ walks'[w].kept = Settled
        /\ \A u \in Clients \ {w} : walks'[u] = walks[u]
        /\ UNCHANGED <<table, age, cached>>
    BY <1>t, <1>1 DEF Begin, NotWalking
  <2>2. CacheCovers' /\ KeptRowsAreOld'
    BY <1>i, <2>1 DEF CacheCovers, KeptRowsAreOld, Settled
  <2>3. Accounted(walks'[w])
    BY <2>1 DEF Accounted
  <2> QED
    BY <1>i, <2>1, <2>2, <2>3 DEF StableInv
<1>2. ASSUME NEW w \in Clients, NEW q \in Queries, Revise(w, q)
      PROVE  StableInv'
  <2>1. /\ walks'[w].after = walks[w].after /\ walks'[w].seen = walks[w].seen
        /\ walks'[w].kept = walks[w].kept /\ walks'[w].status = walks[w].status
        /\ walks[w].status = "walking"
        /\ \A u \in Clients \ {w} : walks'[u] = walks[u]
        /\ UNCHANGED <<table, age, cached>>
    BY <1>t, <1>2 DEF Revise, WalkRecords
  <2>2. CacheCovers' /\ KeptRowsAreOld'
    BY <1>i, <2>1 DEF CacheCovers, KeptRowsAreOld
  <2>3. Accounted(walks'[w])
    BY <1>i, <2>1 DEF Accounted
  <2> QED
    BY <1>i, <2>1, <2>2, <2>3 DEF StableInv
<1>3. ASSUME NEW w \in Clients, PageRefused(w) \/ Finish(w)
      PROVE  StableInv'
  <2>1. /\ walks'[w].status \notin {"walking", "complete"}
        /\ walks'[w].kept \subseteq walks[w].kept
    <3>1. \A s \in Refused : s \notin {"walking", "complete"}
      BY DEF Refused
    <3>2. CASE PageRefused(w)
      BY <1>t, <3>1, <3>2, StatusIsTyped DEF PageRefused, WalkRecords
    <3>3. CASE Finish(w)
      BY <1>t, <3>3 DEF Finish, NotWalking
    <3> QED
      BY <1>3, <3>2, <3>3
  <2>2. /\ \A u \in Clients \ {w} : walks'[u] = walks[u]
        /\ UNCHANGED <<table, age, cached>>
    BY <1>t, <1>3 DEF PageRefused, Finish
  <2>3. CacheCovers' /\ KeptRowsAreOld'
    BY <1>i, <2>1, <2>2 DEF CacheCovers, KeptRowsAreOld
  <2>4. Accounted(walks'[w])
    BY <2>1 DEF Accounted
  <2> QED
    BY <1>i, <2>2, <2>3, <2>4 DEF StableInv
<1>4. ASSUME NEW w \in Clients, FetchPage(w)
      PROVE  StableInv'
  <2>1. /\ walks[w].status = "walking" /\ walks[w].query \in Queries
        /\ walks[w].after \in Cursors \cup {None}
        /\ Refusal(walks[w].query, walks[w].after) = None
    BY <1>t, <1>4 DEF FetchPage, WalkRecords
  <2>2. PICK p : /\ Answer(walks[w].query, walks[w].after, p)
                 /\ walks' = [walks EXCEPT ![w] = Received(w, p)]
                 /\ UNCHANGED <<table, age>>
    BY <1>4 DEF FetchPage
  <2>3. CacheCovers'
    BY <1>i, <2>1, <2>2, AnswersCover
  <2>4. walks'[w] = Received(w, p) /\ \A u \in Clients \ {w} : walks'[u] = walks[u]
    BY <1>t, <2>2
  <2>5. walks'[w].kept = walks[w].kept
    BY <2>1, <2>2, <2>4, AnswersAreTyped, ReceivedIsTyped
  <2>6. KeptRowsAreOld'
    BY <1>i, <2>2, <2>4, <2>5 DEF KeptRowsAreOld
  <2>7. Accounted(walks'[w])
    BY <1>4, PageAccounts
  <2> QED
    BY <1>i, <2>3, <2>4, <2>6, <2>7 DEF StableInv
<1>5. ASSUME NEW w \in Clients, PageLost(w)
      PROVE  StableInv'
  <2>1. /\ walks[w].query \in Queries /\ walks[w].after \in Cursors \cup {None}
        /\ Refusal(walks[w].query, walks[w].after) = None
        /\ UNCHANGED <<table, age, walks>>
        /\ \E p : Answer(walks[w].query, walks[w].after, p)
    BY <1>t, <1>5 DEF PageLost, WalkRecords
  <2>2. CacheCovers'
    BY <1>i, <2>1, AnswersCover
  <2> QED
    BY <1>i, <2>1, <2>2 DEF StableInv, KeptRowsAreOld
<1>6. ASSUME NEW r \in Universe, Insert(r)
      PROVE  StableInv'
  <2>1. /\ UNCHANGED <<cached, walks>> /\ r \notin table
        /\ table' = table \cup {r} /\ age' = [age EXCEPT ![r] = 0]
    BY <1>6 DEF Insert
  <2>2. age'[r] = 0 /\ \A u \in table : age'[u] = age[u]
    BY <1>t, <2>1
  <2>3. CacheCovers'
    <3>1. \A e \in cached : ~(age'[r] + e.left > Ttl)
      BY <1>t, <2>2
    <3> QED
      BY <1>i, <2>1, <2>2, <3>1 DEF CacheCovers
  <2>4. KeptRowsAreOld'
    BY <1>i, <1>t, <2>1, <2>2 DEF KeptRowsAreOld
  <2> QED
    BY <1>i, <2>1, <2>3, <2>4 DEF StableInv
<1>7. ASSUME NEW r \in Universe, Delete(r)
      PROVE  StableInv'
  <2>1. /\ UNCHANGED cached
        /\ table' = table \ {r} /\ age' = [age EXCEPT ![r] = Ttl]
        /\ walks' = [w \in Clients |-> [walks[w] EXCEPT !.kept = @ \ {r}]]
    BY <1>7 DEF Delete
  <2>2. \A u \in table' : age'[u] = age[u]
    BY <1>t, <2>1
  <2>3. CacheCovers'
    BY <1>i, <2>1, <2>2 DEF CacheCovers
  <2>4. ASSUME NEW w \in Clients
        PROVE  /\ walks'[w].kept = walks[w].kept \ {r}
               /\ walks'[w].status = walks[w].status /\ walks'[w].query = walks[w].query
               /\ walks'[w].after = walks[w].after /\ walks'[w].seen = walks[w].seen
    BY <1>t, <2>1 DEF WalkRecords
  <2>5. KeptRowsAreOld'
    BY <1>i, <1>t, <2>1, <2>2, <2>4 DEF KeptRowsAreOld
  <2>6. \A w \in Clients : Accounted(walks'[w])
    BY <1>i, <2>4, AccountedStays
  <2> QED
    BY <2>3, <2>5, <2>6 DEF StableInv
<1>8. CASE Tick
  <2>1. /\ UNCHANGED <<table, walks>>
        /\ age' = [r \in Universe |-> IF age[r] < Ttl THEN age[r] + 1 ELSE Ttl]
        /\ cached' = {[e EXCEPT !.left = @ - 1] : e \in {f \in cached : f.left > 1}}
    BY <1>8 DEF Tick
  <2>2. \A e \in cached' : \E f \in cached :
          e.stmt = f.stmt /\ e.page = f.page /\ e.left = f.left - 1
    BY <2>1 DEF Typed, EntryRecords
  <2>3. ASSUME NEW e \in cached', NEW r \in table', e.stmt.order_by # <<>>, age'[r] + e.left > Ttl
        PROVE  Covers(e.stmt, e.page, r)
    <3>1. PICK f \in cached : e.stmt = f.stmt /\ e.page = f.page /\ e.left = f.left - 1
      BY <2>2
    <3>2. age[r] \in 0 .. Ttl /\ age'[r] = IF age[r] < Ttl THEN age[r] + 1 ELSE Ttl
      BY <1>t, <2>1
    <3>3. age[r] + f.left > Ttl
      BY <1>t, <2>3, <3>1, <3>2
    <3> QED
      BY <1>i, <2>1, <2>3, <3>1, <3>3 DEF CacheCovers
  <2>4. KeptRowsAreOld'
    BY <1>i, <1>t, <2>1 DEF KeptRowsAreOld
  <2> QED
    BY <1>i, <2>1, <2>3, <2>4 DEF StableInv, CacheCovers
<1>9. CASE UNCHANGED vars
  BY <1>i, <1>9 DEF vars, StableInv, CacheCovers, KeptRowsAreOld
<1> QED
  BY <1>1, <1>2, <1>3, <1>4, <1>5, <1>6, <1>7, <1>8, <1>9 DEF Next

(***************************************************************************)
(* A walk to the end serves every row that was there all the time, for any *)
(* table, order, page size, ttl and cache, while other rows come and go,   *)
(* answers get lost and the client changes what it asks for; rows with     *)
(* NULL in the order are excepted.                                         *)
(***************************************************************************)
THEOREM StableRowsAreSeen ==
  ASSUME SelectionIsKept
  PROVE  Spec => []StableRowsSeen
  <1>1. Typed /\ CacheSound /\ StableInv /\ [Next]_vars => StableInv'
    BY StableNext
  <1>2. Typed /\ StableInv => StableRowsSeen
    BY ItemsOfRows DEF StableInv, Accounted, StableRowsSeen
  <1> QED
    BY <1>1, <1>2, StableInit, TypedAlways, ForwardAlways, PTL DEF Spec

=============================================================================
