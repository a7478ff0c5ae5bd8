------------------------- MODULE QueryDocumentsProofs -------------------------
(***************************************************************************)
(* Proofs about QueryDocuments for any documents, limits and calls.        *)
(***************************************************************************)
EXTENDS QueryDocuments, SequenceTheorems, Trees

-----------------------------------------------------------------------------
(* The trees of a document. *)

KidsOf(d) == [n \in NodesOf(d) |-> ToSet(n.sel) \cup ToSet(Below(d, n))]

LEMMA DocumentTyped ==
  ASSUME NEW d \in Documents
  PROVE  /\ Heights[d] \in [NodesOf(d) -> Nat]
         /\ IsSequence(d.op) /\ ToSet(d.op) \subseteq NodesOf(d)
         /\ \A f \in DOMAIN d.frags :
              IsSequence(d.frags[f].sel) /\ ToSet(d.frags[f].sel) \subseteq NodesOf(d)
  <1>1. /\ Heights[d] \in [NodesOf(d) -> Nat]
        /\ IsSequence(d.op)
        /\ \A f \in DOMAIN d.frags : IsSequence(d.frags[f].sel)
    BY TreesAssumption
  <1>2. NodesOf(d) = UNION ({ToSet(d.op)} \cup {ToSet(d.frags[f].sel) : f \in DOMAIN d.frags}
                                          \cup {ToSet(n.sel) : n \in NodesOf(d)})
    BY TreesAssumption
  <1>3. ToSet(d.op) \subseteq NodesOf(d)
    BY <1>2
  <1>4. \A f \in DOMAIN d.frags : ToSet(d.frags[f].sel) \subseteq NodesOf(d)
    BY <1>2
  <1> QED BY <1>1, <1>3, <1>4

LEMMA NodesTyped ==
  ASSUME NEW d \in Documents, NEW n \in NodesOf(d)
  PROVE  /\ n.kind \in {"field", "inline", "spread"}
         /\ n.first \in Nat \cup {None, Variable}
         /\ IsSequence(n.sel) /\ ToSet(n.sel) \subseteq NodesOf(d)
         /\ IsSequence(Below(d, n)) /\ ToSet(Below(d, n)) \subseteq NodesOf(d)
         /\ n.kind = "spread" => n.name \in DOMAIN d.frags
         /\ \A m \in ToSet(n.sel) \cup ToSet(Below(d, n)) : Heights[d][m] < Heights[d][n]
  <1>1. /\ n.kind \in {"field", "inline", "spread"} /\ IsSequence(n.sel)
        /\ n.first \in Nat \cup {None, Variable}
        /\ \A m \in ToSet(n.sel) : Heights[d][m] < Heights[d][n]
    BY TreesAssumption
  <1>2. NodesOf(d) = UNION ({ToSet(d.op)} \cup {ToSet(d.frags[f].sel) : f \in DOMAIN d.frags}
                                          \cup {ToSet(m.sel) : m \in NodesOf(d)})
    BY TreesAssumption
  <1>3. ToSet(n.sel) \subseteq NodesOf(d)
    BY <1>2
  <1>4. n.kind = "spread" =>
          /\ n.name \in DOMAIN d.frags
          /\ \A m \in ToSet(Below(d, n)) : Heights[d][m] < Heights[d][n]
    BY FragmentsAssumption
  <1>5. CASE n.kind = "spread"
    <2>1. Below(d, n) = d.frags[n.name].sel
      BY <1>5 DEF Below
    <2> QED BY <1>1, <1>3, <1>4, <1>5, <2>1, DocumentTyped
  <1>6. CASE n.kind # "spread"
    <2>1. Below(d, n) = n.sel
      BY <1>6 DEF Below
    <2> QED BY <1>1, <1>3, <1>6, <2>1
  <1> QED BY <1>5, <1>6

LEMMA DocumentForest ==
  ASSUME NEW d \in Documents
  PROVE  IsForest(NodesOf(d), KidsOf(d), Heights[d])
  <1>1. Heights[d] \in [NodesOf(d) -> Nat]
    BY DocumentTyped
  <1>2. ASSUME NEW n \in NodesOf(d)
        PROVE  /\ KidsOf(d)[n] \subseteq NodesOf(d)
               /\ \A k \in KidsOf(d)[n] : Heights[d][k] < Heights[d][n]
    BY NodesTyped DEF KidsOf
  <1>3. KidsOf(d) \in [NodesOf(d) -> SUBSET NodesOf(d)]
    <2>1. KidsOf(d) = [n \in NodesOf(d) |-> KidsOf(d)[n]]
      BY DEF KidsOf
    <2> QED BY <1>2, <2>1
  <1> QED BY <1>1, <1>2, <1>3 DEF IsForest

(* The elements of a sequence. *)
LEMMA Elements ==
  ASSUME NEW s, IsSequence(s)
  PROVE  /\ Len(s) \in Nat /\ DOMAIN s = 1 .. Len(s)
         /\ \A i \in DOMAIN s : s[i] \in ToSet(s)
         /\ \A x \in ToSet(s) : \E i \in DOMAIN s : x = s[i]
         /\ IsFiniteSet(ToSet(s))
  <1>1. s \in Seq(ToSet(s))
    BY DEF IsSequence
  <1>2. Len(s) \in Nat /\ DOMAIN s = 1 .. Len(s)
    BY <1>1, LenProperties
  <1>3. ToSet(s) = {s[i] : i \in DOMAIN s}
    BY DEF ToSet
  <1>4. IsFiniteSet(ToSet(s))
    <2>1. s \in [1 .. Len(s) -> ToSet(s)]
      BY <1>1, LenProperties
    <2>2. s \in Surjection(1 .. Len(s), ToSet(s))
      BY <1>2, <1>3, <2>1 DEF Surjection
    <2> QED BY <1>2, <2>2, FS_NatSurjection DEF ExistsSurjection
  <1> QED BY <1>2, <1>3, <1>4

LEMMA DataClosed ==
  ASSUME NEW d \in Documents
  PROVE  /\ DataNodes(d) \subseteq NodesOf(d)
         /\ ToSet(d.op) \subseteq DataNodes(d)
         /\ \A n \in DataNodes(d) : NotMeta(n) => ToSet(Below(d, n)) \subseteq DataNodes(d)
  <1> DEFINE Closed(S) == /\ ToSet(d.op) \subseteq S
                          /\ \A m \in S : NotMeta(m) => ToSet(Below(d, m)) \subseteq S
  <1>1. DataNodes(d) = {n \in NodesOf(d) : \A S \in SUBSET NodesOf(d) : Closed(S) => n \in S}
    BY DEF DataNodes
  <1>2. ToSet(d.op) \subseteq NodesOf(d)
    BY DocumentTyped
  <1>3. ToSet(d.op) \subseteq DataNodes(d)
    BY <1>1, <1>2
  <1>4. ASSUME NEW n \in DataNodes(d), NotMeta(n), NEW m \in ToSet(Below(d, n))
        PROVE  m \in DataNodes(d)
    <2>1. n \in NodesOf(d)
      BY <1>1
    <2>2. m \in NodesOf(d)
      BY <2>1, NodesTyped
    <2>3. ASSUME NEW S \in SUBSET NodesOf(d), Closed(S)
          PROVE  m \in S
      <3>1. n \in S
        BY <1>1, <2>3
      <3> QED BY <1>4, <2>3, <3>1
    <2> QED BY <1>1, <2>2, <2>3
  <1> QED BY <1>1, <1>3, <1>4

(* What holds of the operation and passes on to what is below holds of all. *)
LEMMA DataNodesLeast ==
  ASSUME NEW d \in Documents, NEW S \in SUBSET NodesOf(d), ToSet(d.op) \subseteq S,
         \A n \in S : NotMeta(n) => ToSet(Below(d, n)) \subseteq S
  PROVE  DataNodes(d) \subseteq S
  BY DEF DataNodes

-----------------------------------------------------------------------------
(* Least and greatest elements, and sums. *)

LEMMA GreatestOf ==
  ASSUME NEW T \in SUBSET Nat, T # {}, IsFiniteSet(T)
  PROVE  Max(T) \in T /\ \A y \in T : y <= Max(T)
  <1>1. \E x \in T : \A y \in T : x >= y
    BY FiniteHasGreatest
  <1>2. Max(T) \in T /\ \A y \in T : Max(T) >= y
    BY <1>1 DEF Max
  <1> QED BY <1>2

LEMMA LeastOf ==
  ASSUME NEW T \in SUBSET Nat, T # {}
  PROVE  Min(T) \in T /\ \A y \in T : Min(T) <= y
  <1>1. \E x \in T : \A y \in T : x =< y
    BY LeastNumber
  <1> QED BY <1>1 DEF Min

LEMMA SequenceOf ==
  ASSUME NEW n \in Nat, NEW S, NEW f \in [1 .. n -> S]
  PROVE  f \in Seq(S) /\ Len(f) = n
  <1>1. f \in Seq(S)
    BY SeqDef
  <1>2. Len(f) \in Nat /\ DOMAIN f = 1 .. Len(f) /\ DOMAIN f = 1 .. n
    BY <1>1, LenProperties
  <1> QED BY <1>1, <1>2

(* Partial sums. *)
IsSumOf(u, f, n) ==
  /\ u \in [0 .. n -> Nat] /\ u[0] = 0
  /\ \A i \in 1 .. n : i - 1 \in 0 .. n /\ u[i] = u[i - 1] + f[i]

LEMMA PartialSums ==
  ASSUME NEW n \in Nat, NEW f \in [1 .. n -> Nat]
  PROVE  \E u : IsSumOf(u, f, n) /\ Sum(f) = u[n]
  <1> DEFINE P(u) == u = [i \in 0 .. n |-> IF i = 0 THEN 0 ELSE u[i - 1] + f[i]]
             step == [i \in 1 .. n |-> [v \in Nat |-> v + f[i]]]
  <1>1. \A i \in 1 .. n : f[i] \in Nat /\ i - 1 \in 0 .. n
    OBVIOUS
  <1>2. PICK g \in Counts(n, Nat, 0, step) : TRUE
    <2>1. step \in [1 .. n -> [Nat -> Nat]]
      BY <1>1
    <2>2. 0 \in Nat
      OBVIOUS
    <2> HIDE DEF step
    <2>3. Counts(n, Nat, 0, step) # {}
      BY <2>1, <2>2, Counting
    <2> QED BY <2>3
  <1>3. P(g)
    <2>1. /\ g \in [0 .. n -> Nat] /\ g[0] = 0
          /\ \A i \in 1 .. n : g[i] = step[i][g[i - 1]]
      BY <1>2 DEF Counts
    <2>2. ASSUME NEW i \in 1 .. n
          PROVE  g[i] = g[i - 1] + f[i]
      <3>1. g[i - 1] \in Nat
        BY <1>1, <2>1
      <3>2. step[i][g[i - 1]] = g[i - 1] + f[i]
        BY <3>1
      <3> QED BY <2>1, <3>2
    <2> QED BY <2>1, <2>2
  <1>4. Len(f) = n
    BY SequenceOf
  <1> DEFINE u == CHOOSE v : P(v)
  <1>5. Sum(f) = u[n]
    BY <1>4 DEF Sum
  <1>6. P(u)
    <2> HIDE DEF P
    <2> QED BY <1>3
  <1> HIDE DEF u, step
  <1>7. u[0] = 0 /\ \A i \in 1 .. n : u[i] = u[i - 1] + f[i]
    <2>1. \A i \in 0 .. n : u[i] = IF i = 0 THEN 0 ELSE u[i - 1] + f[i]
      BY <1>6
    <2>2. 0 \in 0 .. n /\ \A i \in 1 .. n : i \in 0 .. n /\ i # 0
      OBVIOUS
    <2> HIDE DEF P
    <2> QED BY <2>1, <2>2
  <1> DEFINE Q == {i \in Nat : i <= n => u[i] \in Nat}
  <1>8. Q = Nat
    <2>1. 0 \in Q
      BY <1>7
    <2>2. ASSUME NEW i \in Q
          PROVE  i + 1 \in Q
      <3> SUFFICES ASSUME i + 1 <= n
                   PROVE  u[i + 1] \in Nat
        OBVIOUS
      <3>1. i + 1 \in 1 .. n /\ u[i] \in Nat /\ (i + 1) - 1 = i
        OBVIOUS
      <3>2. u[i + 1] = u[i] + f[i + 1] /\ f[i + 1] \in Nat
        BY <1>1, <1>7, <3>1
      <3> QED BY <3>1, <3>2
    <2> HIDE DEF Q
    <2> QED BY <2>1, <2>2, AllNumbers DEF Q
  <1>9. u \in [0 .. n -> Nat]
    <2>1. ASSUME NEW i \in 0 .. n
          PROVE  u[i] \in Nat
      <3>1. i \in Q
        BY <1>8
      <3> QED BY <3>1
    <2> QED BY <1>6, <2>1
  <1> QED BY <1>1, <1>5, <1>7, <1>9 DEF IsSumOf

LEMMA SumsAreMonotone ==
  ASSUME NEW n \in Nat, NEW f \in [1 .. n -> Nat], NEW g \in [1 .. n -> Nat],
         \A i \in 1 .. n : f[i] <= g[i]
  PROVE  Sum(f) \in Nat /\ Sum(f) <= Sum(g)
  <1>1. PICK u : IsSumOf(u, f, n) /\ Sum(f) = u[n]
    BY PartialSums
  <1>2. PICK v : IsSumOf(v, g, n) /\ Sum(g) = v[n]
    BY PartialSums
  <1> DEFINE Q == {i \in Nat : i <= n => u[i] <= v[i]}
  <1>3. 0 \in Q
    BY <1>1, <1>2 DEF IsSumOf
  <1>4. ASSUME NEW i \in Q
        PROVE  i + 1 \in Q
    <2> SUFFICES ASSUME i + 1 <= n
                 PROVE  u[i + 1] <= v[i + 1]
      OBVIOUS
    <2>1. i + 1 \in 1 .. n /\ i \in 0 .. n /\ u[i] <= v[i]
      OBVIOUS
    <2>2. /\ u[i + 1] = u[i] + f[i + 1] /\ v[i + 1] = v[i] + g[i + 1]
          /\ u[i] \in Nat /\ v[i] \in Nat
      BY <1>1, <1>2, <2>1 DEF IsSumOf
    <2>3. f[i + 1] \in Nat /\ g[i + 1] \in Nat /\ f[i + 1] <= g[i + 1]
      BY <2>1
    <2> QED BY <2>1, <2>2, <2>3
  <1>5. n \in Q
    <2> HIDE DEF Q
    <2>1. Q \in SUBSET Nat
      BY DEF Q
    <2> QED BY <1>3, <1>4, <2>1, AllNumbers
  <1>6. u[n] \in Nat
    BY <1>1 DEF IsSumOf
  <1> QED BY <1>1, <1>2, <1>5, <1>6

-----------------------------------------------------------------------------
(* The recursive functions of QueryDocuments satisfy their equations. *)

LEMMA GreatestLevel ==
  ASSUME NEW sel, IsSequence(sel), NEW g, \A n \in ToSet(sel) : g[n] \in Nat
  PROVE  /\ LevelsOfAll(sel, g) \in Nat
         /\ \A n \in ToSet(sel) : g[n] <= LevelsOfAll(sel, g)
         /\ LevelsOfAll(sel, g) # 0 => \E n \in ToSet(sel) : g[n] = LevelsOfAll(sel, g)
  <1> DEFINE S == ToSet(sel)
             h == [n \in S |-> g[n]]
             T == {g[n] : n \in S}
             U == {0} \cup T
  <1>1. IsFiniteSet(T)
    <2>1. h \in Surjection(S, T)
      BY DEF Surjection
    <2>2. IsFiniteSet(S)
      BY Elements
    <2> HIDE DEF h, S, T
    <2> QED BY <2>1, <2>2, FS_Surjection
  <1>2. U \in SUBSET Nat /\ U # {} /\ IsFiniteSet(U)
    <2>1. T \in SUBSET Nat
      OBVIOUS
    <2>2. U = T \cup {0}
      OBVIOUS
    <2> HIDE DEF T
    <2> QED BY <1>1, <2>1, <2>2, FS_AddElement
  <1>3. LevelsOfAll(sel, g) = Max(U)
    BY DEF LevelsOfAll
  <1>4. Max(U) \in U /\ \A y \in U : y <= Max(U)
    <2> HIDE DEF U
    <2> QED BY <1>2, GreatestOf
  <1> QED BY <1>2, <1>3, <1>4

LEMMA LevelsTyped ==
  ASSUME NEW d \in Documents, NEW n \in NodesOf(d), NEW g, \A m \in KidsOf(d)[n] : g[m] \in Nat
  PROVE  LevelsOf(n, g) \in Nat
  <1>1. LevelsOfAll(n.sel, g) \in Nat
    BY NodesTyped, GreatestLevel DEF KidsOf
  <1> QED BY <1>1 DEF LevelsOf

LEMMA LevelsEquation ==
  ASSUME NEW d \in Documents
  PROVE  /\ Levels[d] \in [NodesOf(d) -> Nat]
         /\ \A n \in NodesOf(d) : Levels[d][n] = LevelsOf(n, Levels[d])
  <1> DEFINE N == NodesOf(d)
             kids == KidsOf(d)
             P(v) == v = [n \in N |-> LevelsOf(n, v)]
             H == [n \in N |-> [g \in [N -> Nat] |-> LevelsOf(n, g)]]
  <1>1. ASSUME NEW n \in N
        PROVE  kids[n] \subseteq N /\ ToSet(n.sel) \subseteq kids[n]
    BY NodesTyped DEF KidsOf
  <1>2. OfKidsOnly(N, kids, Nat, H)
    <2>1. H \in [N -> [[N -> Nat] -> Nat]]
      <3>1. ASSUME NEW n \in N, NEW g \in [N -> Nat]
            PROVE  LevelsOf(n, g) \in Nat
        <4>1. \A m \in KidsOf(d)[n] : g[m] \in Nat
          BY <1>1
        <4> QED BY <4>1, LevelsTyped
      <3> QED BY <3>1
    <2>2. ASSUME NEW n \in N, NEW g \in [N -> Nat], NEW h \in [N -> Nat],
                 \A k \in kids[n] : g[k] = h[k]
          PROVE  H[n][g] = H[n][h]
      <3>1. {g[m] : m \in ToSet(n.sel)} = {h[m] : m \in ToSet(n.sel)}
        BY <1>1, <2>2
      <3>2. LevelsOf(n, g) = LevelsOf(n, h)
        BY <3>1 DEF LevelsOf, LevelsOfAll
      <3> QED BY <3>2
    <2> HIDE DEF H, N, kids
    <2> QED BY <2>1, <2>2 DEF OfKidsOnly
  <1>3. \E v : P(v)
    <2>1. Solutions(N, Nat, H) # {}
      <3> HIDE DEF H, N, kids
      <3> QED BY <1>2, DocumentForest, TreeRecursion DEF N, kids
    <2>2. PICK v \in [N -> Nat] : \A n \in N : v[n] = H[n][v]
      BY <2>1 DEF Solutions
    <2>3. \A n \in N : v[n] = LevelsOf(n, v)
      BY <2>2
    <2> QED BY <2>3
  <1>4. P(Levels[d])
    <2>1. Levels[d] = CHOOSE v : P(v)
      BY DEF Levels
    <2> HIDE DEF P
    <2> QED BY <1>3, <2>1
  <1>5. \A n \in N : Levels[d][n] = LevelsOf(n, Levels[d])
    BY <1>4
  <1>6. Levels[d] \in [N -> Nat]
    <2> DEFINE F == Levels[d]
    <2>1. F = [n \in N |-> F[n]]
      BY <1>4
    <2>2. \A n \in N : (\A k \in kids[n] : F[k] \in Nat) => F[n] \in Nat
      BY <1>5, LevelsTyped
    <2>3. IsForest(N, kids, Heights[d])
      BY DocumentForest
    <2> HIDE DEF F, N, kids
    <2>4. PassedUp(N, kids, Nat, F)
      BY <2>1, <2>2 DEF PassedUp
    <2>5. F \in [N -> Nat]
      BY <2>3, <2>4, TypedByKids
    <2> QED BY <2>5 DEF F
  <1> QED BY <1>5, <1>6

LEMMA FieldsOfAllTyped ==
  ASSUME NEW sel, IsSequence(sel), NEW g, \A n \in ToSet(sel) : g[n] \in Nat
  PROVE  /\ [i \in DOMAIN sel |-> g[sel[i]]] \in [1 .. Len(sel) -> Nat]
         /\ FieldsOfAll(sel, g) \in Nat
  <1> DEFINE f == [i \in DOMAIN sel |-> g[sel[i]]]
  <1>1. Len(sel) \in Nat /\ f \in [1 .. Len(sel) -> Nat]
    BY Elements
  <1>2. Sum(f) \in Nat
    <2> HIDE DEF f
    <2>1. \A i \in 1 .. Len(sel) : f[i] <= f[i]
      BY <1>1
    <2> QED BY <1>1, <2>1, SumsAreMonotone
  <1> QED BY <1>1, <1>2 DEF FieldsOfAll

LEMMA FieldsTyped ==
  ASSUME NEW d \in Documents, NEW n \in NodesOf(d), NEW g, \A m \in KidsOf(d)[n] : g[m] \in Nat
  PROVE  FieldsOf(n, g) \in Nat
  <1>1. FieldsOfAll(n.sel, g) \in Nat
    BY NodesTyped, FieldsOfAllTyped DEF KidsOf
  <1> QED BY <1>1 DEF FieldsOf

LEMMA FieldsEquation ==
  ASSUME NEW d \in Documents
  PROVE  /\ Fields[d] \in [NodesOf(d) -> Nat]
         /\ \A n \in NodesOf(d) : Fields[d][n] = FieldsOf(n, Fields[d])
  <1> DEFINE N == NodesOf(d)
             kids == KidsOf(d)
             P(v) == v = [n \in N |-> FieldsOf(n, v)]
             H == [n \in N |-> [g \in [N -> Nat] |-> FieldsOf(n, g)]]
  <1>1. ASSUME NEW n \in N
        PROVE  kids[n] \subseteq N /\ ToSet(n.sel) \subseteq kids[n]
    BY NodesTyped DEF KidsOf
  <1>2. OfKidsOnly(N, kids, Nat, H)
    <2>1. H \in [N -> [[N -> Nat] -> Nat]]
      <3>1. ASSUME NEW n \in N, NEW g \in [N -> Nat]
            PROVE  FieldsOf(n, g) \in Nat
        <4>1. \A m \in KidsOf(d)[n] : g[m] \in Nat
          BY <1>1
        <4> QED BY <4>1, FieldsTyped
      <3> QED BY <3>1
    <2>2. ASSUME NEW n \in N, NEW g \in [N -> Nat], NEW h \in [N -> Nat],
                 \A k \in kids[n] : g[k] = h[k]
          PROVE  H[n][g] = H[n][h]
      <3>1. [j \in DOMAIN n.sel |-> g[n.sel[j]]] = [j \in DOMAIN n.sel |-> h[n.sel[j]]]
        <4>1. \A j \in DOMAIN n.sel : n.sel[j] \in kids[n]
          BY <1>1, Elements, NodesTyped
        <4> QED BY <2>2, <4>1
      <3>2. FieldsOf(n, g) = FieldsOf(n, h)
        BY <3>1 DEF FieldsOf, FieldsOfAll
      <3> QED BY <3>2
    <2> HIDE DEF H, N, kids
    <2> QED BY <2>1, <2>2 DEF OfKidsOnly
  <1>3. \E v : P(v)
    <2>1. Solutions(N, Nat, H) # {}
      <3> HIDE DEF H, N, kids
      <3> QED BY <1>2, DocumentForest, TreeRecursion DEF N, kids
    <2>2. PICK v \in [N -> Nat] : \A n \in N : v[n] = H[n][v]
      BY <2>1 DEF Solutions
    <2>3. \A n \in N : v[n] = FieldsOf(n, v)
      BY <2>2
    <2> QED BY <2>3
  <1>4. P(Fields[d])
    <2>1. Fields[d] = CHOOSE v : P(v)
      BY DEF Fields
    <2> HIDE DEF P
    <2> QED BY <1>3, <2>1
  <1>5. \A n \in N : Fields[d][n] = FieldsOf(n, Fields[d])
    BY <1>4
  <1>6. Fields[d] \in [N -> Nat]
    <2> DEFINE F == Fields[d]
    <2>1. F = [n \in N |-> F[n]]
      BY <1>4
    <2>2. \A n \in N : (\A k \in kids[n] : F[k] \in Nat) => F[n] \in Nat
      BY <1>5, FieldsTyped
    <2>3. IsForest(N, kids, Heights[d])
      BY DocumentForest
    <2> HIDE DEF F, N, kids
    <2>4. PassedUp(N, kids, Nat, F)
      BY <2>1, <2>2 DEF PassedUp
    <2>5. F \in [N -> Nat]
      BY <2>3, <2>4, TypedByKids
    <2> QED BY <2>5 DEF F
  <1> QED BY <1>5, <1>6

FieldNodes(d) == {n \in NodesOf(d) : n.kind = "field"}

LEMMA FlattenTyped ==
  ASSUME NEW n \in Nat, NEW S, NEW q \in [1 .. n -> Seq(S)]
  PROVE  FlattenSeq(q) \in Seq(S)
  <1>1. q \in Seq(Seq(S)) /\ Len(q) = n
    BY SequenceOf
  <1>2. CASE n = 0
    <2>1. q \in [1 .. n -> S]
      BY <1>2
    <2>2. q \in Seq(S)
      BY <2>1, SequenceOf
    <2>3. FlattenSeq(q) = q
      BY <1>1, <1>2 DEF FlattenSeq
    <2> QED BY <2>2, <2>3
  <1>3. CASE n # 0
    <2> DEFINE P(f) == f = [i \in 1 .. n |-> IF i = 1 THEN q[i] ELSE f[i - 1] \o q[i]]
               step == [i \in 1 .. n |-> [v \in Seq(S) |-> v \o q[i]]]
    <2>1. PICK g \in Counts(n, Seq(S), <<>>, step) : TRUE
      <3>1. step \in [1 .. n -> [Seq(S) -> Seq(S)]]
        <4>1. \A i \in 1 .. n : \A v \in Seq(S) : v \o q[i] \in Seq(S)
          BY ConcatProperties
        <4> QED BY <4>1
      <3>2. <<>> \in Seq(S)
        BY EmptySeq
      <3> HIDE DEF step
      <3>3. Counts(n, Seq(S), <<>>, step) # {}
        BY <3>1, <3>2, Counting
      <3> QED BY <3>3
    <2>2. /\ g \in [0 .. n -> Seq(S)] /\ g[0] = <<>>
          /\ \A i \in 1 .. n : i - 1 \in 0 .. n /\ g[i] = g[i - 1] \o q[i]
      <3>1. /\ g \in [0 .. n -> Seq(S)] /\ g[0] = <<>>
            /\ \A i \in 1 .. n : g[i] = step[i][g[i - 1]]
        BY <2>1 DEF Counts
      <3>2. ASSUME NEW i \in 1 .. n
            PROVE  i - 1 \in 0 .. n /\ g[i] = g[i - 1] \o q[i]
        <4>1. i - 1 \in 0 .. n /\ g[i - 1] \in Seq(S)
          BY <3>1
        <4>2. step[i][g[i - 1]] = g[i - 1] \o q[i]
          BY <4>1
        <4> QED BY <3>1, <4>1, <4>2
      <3> QED BY <3>1, <3>2
    <2> DEFINE G == [i \in 1 .. n |-> g[i]]
               u == CHOOSE f : P(f)
    <2> HIDE DEF step
    <2>3. P(G)
      <3>1. ASSUME NEW i \in 1 .. n
            PROVE  g[i] = IF i = 1 THEN q[i] ELSE G[i - 1] \o q[i]
        <4>1. CASE i = 1
          <5>1. 1 \in 1 .. n /\ 1 - 1 = 0
            BY <4>1
          <5>2. g[1] = <<>> \o q[1] /\ q[1] \in Seq(S)
            BY <2>2, <5>1
          <5>3. <<>> \o q[1] = q[1]
            BY <5>2, ConcatEmptySeq
          <5> QED BY <4>1, <5>2, <5>3
        <4>2. CASE i # 1
          <5>1. i - 1 \in 1 .. n
            BY <4>2
          <5> QED BY <2>2, <4>2, <5>1
        <4> QED BY <4>1, <4>2
      <3> QED BY <3>1
    <2>4. P(u)
      <3> HIDE DEF P, G
      <3> QED BY <2>3
    <2>5. FlattenSeq(q) = u[n]
      BY <1>1, <1>3 DEF FlattenSeq
    <2> HIDE DEF u
    <2>6. \A i \in 1 .. n : u[i] = IF i = 1 THEN q[i] ELSE u[i - 1] \o q[i]
      BY <2>4
    <2> DEFINE Q == {i \in Nat : i + 1 <= n => u[i + 1] \in Seq(S)}
    <2>7. Q = Nat
      <3>1. 0 \in Q
        BY <1>3, <2>6
      <3>2. ASSUME NEW i \in Q
            PROVE  i + 1 \in Q
        <4> SUFFICES ASSUME (i + 1) + 1 <= n
                     PROVE  u[(i + 1) + 1] \in Seq(S)
          OBVIOUS
        <4>1. (i + 1) + 1 \in 1 .. n /\ (i + 1) + 1 # 1 /\ ((i + 1) + 1) - 1 = i + 1
          OBVIOUS
        <4>2. u[i + 1] \in Seq(S)
          OBVIOUS
        <4>3. u[(i + 1) + 1] = u[i + 1] \o q[(i + 1) + 1] /\ q[(i + 1) + 1] \in Seq(S)
          BY <2>6, <4>1
        <4> QED BY <4>2, <4>3, ConcatProperties
      <3> HIDE DEF Q
      <3>3. Q \in SUBSET Nat
        BY DEF Q
      <3> QED BY <3>1, <3>2, <3>3, AllNumbers
    <2>8. u[n] \in Seq(S)
      <3>1. n - 1 \in Nat /\ (n - 1) + 1 = n
        BY <1>3
      <3>2. n - 1 \in Q
        BY <2>7, <3>1
      <3> QED BY <3>1, <3>2
    <2> QED BY <2>5, <2>8
  <1> QED BY <1>2, <1>3

LEMMA CollectedTyped ==
  ASSUME NEW d \in Documents, NEW n \in NodesOf(d), NEW g,
         \A m \in KidsOf(d)[n] : g[m] \in Seq(FieldNodes(d))
  PROVE  CollectedFrom(d, n, g) \in Seq(FieldNodes(d))
  <1>1. CASE n.kind = "field"
    <2>1. n \in FieldNodes(d)
      BY <1>1 DEF FieldNodes
    <2> QED BY <1>1, <2>1 DEF CollectedFrom
  <1>2. CASE n.kind # "field"
    <2> DEFINE s == Below(d, n)
               q == [i \in DOMAIN s |-> g[s[i]]]
    <2>1. IsSequence(s)
      BY NodesTyped
    <2>2. \A m \in ToSet(s) : g[m] \in Seq(FieldNodes(d))
      BY DEF KidsOf
    <2>3. CollectedFrom(d, n, g) = FlattenSeq(q)
      BY <1>2 DEF CollectedFrom
    <2> HIDE DEF s
    <2>4. Len(s) \in Nat /\ q \in [1 .. Len(s) -> Seq(FieldNodes(d))]
      BY <2>1, <2>2, Elements
    <2> HIDE DEF q
    <2> QED BY <2>3, <2>4, FlattenTyped
  <1> QED BY <1>1, <1>2

LEMMA CollectedEquation ==
  ASSUME NEW d \in Documents
  PROVE  /\ Collected[d] \in [NodesOf(d) -> Seq(FieldNodes(d))]
         /\ \A n \in NodesOf(d) : Collected[d][n] = CollectedFrom(d, n, Collected[d])
  <1> DEFINE N == NodesOf(d)
             kids == KidsOf(d)
             V == Seq(FieldNodes(d))
             P(v) == v = [n \in N |-> CollectedFrom(d, n, v)]
             H == [n \in N |-> [g \in [N -> V] |-> CollectedFrom(d, n, g)]]
  <1>1. ASSUME NEW n \in N
        PROVE  kids[n] \subseteq N /\ ToSet(n.sel) \subseteq kids[n]
    BY NodesTyped DEF KidsOf
  <1>2. OfKidsOnly(N, kids, V, H)
    <2>1. H \in [N -> [[N -> V] -> V]]
      <3>1. ASSUME NEW n \in N, NEW g \in [N -> V]
            PROVE  CollectedFrom(d, n, g) \in V
        <4>1. \A m \in KidsOf(d)[n] : g[m] \in V
          BY <1>1
        <4> QED BY <4>1, CollectedTyped
      <3> QED BY <3>1
    <2>2. ASSUME NEW n \in N, NEW g \in [N -> V], NEW h \in [N -> V],
                 \A k \in kids[n] : g[k] = h[k]
          PROVE  H[n][g] = H[n][h]
      <3>1. ToSet(Below(d, n)) \subseteq kids[n] /\ IsSequence(Below(d, n))
        BY NodesTyped DEF KidsOf
      <3>2. [j \in DOMAIN Below(d, n) |-> g[Below(d, n)[j]]]
              = [j \in DOMAIN Below(d, n) |-> h[Below(d, n)[j]]]
        <4>1. \A j \in DOMAIN Below(d, n) : Below(d, n)[j] \in kids[n]
          BY <3>1, Elements
        <4> QED BY <2>2, <4>1
      <3>3. CollectedFrom(d, n, g) = CollectedFrom(d, n, h)
        BY <3>2 DEF CollectedFrom
      <3> QED BY <3>3
    <2>3. V # {}
      BY EmptySeq
    <2> HIDE DEF H, N, kids, V
    <2> QED BY <2>1, <2>2, <2>3 DEF OfKidsOnly
  <1>3. \E v : P(v)
    <2>1. Solutions(N, V, H) # {}
      <3> HIDE DEF H, N, kids
      <3> QED BY <1>2, DocumentForest, TreeRecursion DEF N, kids
    <2>2. PICK v \in [N -> V] : \A n \in N : v[n] = H[n][v]
      BY <2>1 DEF Solutions
    <2>3. \A n \in N : v[n] = CollectedFrom(d, n, v)
      BY <2>2
    <2> QED BY <2>3
  <1>4. P(Collected[d])
    <2>1. Collected[d] = CHOOSE v : P(v)
      BY DEF Collected
    <2> HIDE DEF P
    <2> QED BY <1>3, <2>1
  <1>5. \A n \in N : Collected[d][n] = CollectedFrom(d, n, Collected[d])
    BY <1>4
  <1>6. Collected[d] \in [N -> V]
    <2> DEFINE F == Collected[d]
    <2>1. F = [n \in N |-> F[n]]
      BY <1>4
    <2>2. \A n \in N : (\A k \in kids[n] : F[k] \in V) => F[n] \in V
      BY <1>5, CollectedTyped
    <2>3. IsForest(N, kids, Heights[d])
      BY DocumentForest
    <2> HIDE DEF F, N, kids
    <2>4. PassedUp(N, kids, V, F)
      BY <2>1, <2>2 DEF PassedUp
    <2>5. F \in [N -> V]
      BY <2>3, <2>4, TypedByKids
    <2> QED BY <2>5 DEF F
  <1> QED BY <1>5, <1>6

-----------------------------------------------------------------------------
(* Leaves: those of a selection set are copies of those of its nodes. *)

Leaf == [at : Seq(Nat), depth : Nat \ {0}]

LeafSets == {S \in SUBSET Leaf : IsFiniteSet(S)}

Copy(i, level, S) == {[at |-> <<i>> \o l.at, depth |-> l.depth + level] : l \in S}

LEMMA CopyLeaves ==
  ASSUME NEW i \in Nat, NEW level \in Nat, NEW S \in LeafSets
  PROVE  /\ Copy(i, level, S) \in LeafSets
         /\ Cardinality(Copy(i, level, S)) = Cardinality(S)
  <1> DEFINE c(l) == [at |-> <<i>> \o l.at, depth |-> l.depth + level]
             h == [l \in S |-> c(l)]
             T == Copy(i, level, S)
  <1>1. \A l \in S : /\ l = [at |-> l.at, depth |-> l.depth]
                    /\ l.at \in Seq(Nat) /\ l.depth \in Nat /\ l.depth > 0
    BY DEF LeafSets, Leaf
  <1>2. <<i>> \in Seq(Nat)
    OBVIOUS
  <1>3. ASSUME NEW l \in S
        PROVE  c(l) \in Leaf
    <2>1. <<i>> \o l.at \in Seq(Nat)
      BY <1>1, <1>2, ConcatProperties
    <2> QED BY <1>1, <2>1 DEF Leaf
  <1>4. ASSUME NEW l \in S, NEW m \in S, c(l) = c(m)
        PROVE  l = m
    <2>1. <<i>> \o l.at = <<i>> \o m.at /\ l.depth + level = m.depth + level
      BY <1>4
    <2>2. l.at = m.at
      BY <1>1, <1>2, <2>1, ConcatSimplifications
    <2>3. l.depth = m.depth
      BY <1>1, <2>1
    <2> QED BY <1>1, <2>2, <2>3
  <1>5. T = {c(l) : l \in S}
    BY DEF Copy
  <1> HIDE DEF c
  <1>6. h \in Bijection(S, T)
    <2>1. h \in [S -> T]
      BY <1>5
    <2>2. \A x, y \in S : h[x] = h[y] => x = y
      BY <1>4
    <2>3. \A t \in T : \E x \in S : h[x] = t
      BY <1>5
    <2> HIDE DEF h, T
    <2> QED BY <2>1, <2>2, <2>3 DEF Bijection, Injection, Surjection, IsInjective
  <1>7. IsFiniteSet(S)
    BY DEF LeafSets
  <1>8. IsFiniteSet(T) /\ Cardinality(T) = Cardinality(S)
    <2> HIDE DEF h, T
    <2> QED BY <1>6, <1>7, FS_Bijection DEF ExistsBijection
  <1>9. T \subseteq Leaf
    BY <1>3, <1>5
  <1> QED BY <1>8, <1>9 DEF LeafSets

LEMMA CopiesDiffer ==
  ASSUME NEW i \in Nat, NEW j \in Nat, i # j, NEW level \in Nat,
         NEW S \in LeafSets, NEW T \in LeafSets
  PROVE  Copy(i, level, S) \cap Copy(j, level, T) = {}
  <1>1. ASSUME NEW k \in Nat, NEW U \in LeafSets, NEW x \in Copy(k, level, U)
        PROVE  x.at[1] = k
    <2>1. PICK l \in U : x = [at |-> <<k>> \o l.at, depth |-> l.depth + level]
      BY <1>1 DEF Copy
    <2>2. l.at \in Seq(Nat) /\ <<k>> \in Seq(Nat)
      BY DEF LeafSets, Leaf
    <2>3. Len(<<k>>) = 1 /\ Len(l.at) \in Nat
      BY <2>2, LenProperties
    <2>4. (<<k>> \o l.at)[1] = <<k>>[1]
      BY <2>2, <2>3, ConcatProperties
    <2> QED BY <2>1, <2>4
  <1> QED BY <1>1

LEMMA LeavesOfAllCount ==
  ASSUME NEW sel, IsSequence(sel), NEW g, \A n \in ToSet(sel) : g[n] \in LeafSets,
         NEW level \in Nat
  PROVE  /\ LeavesOfAll(sel, g, level) \in LeafSets
         /\ [i \in DOMAIN sel |-> Cardinality(g[sel[i]])] \in [1 .. Len(sel) -> Nat]
         /\ Cardinality(LeavesOfAll(sel, g, level))
              = Sum([i \in DOMAIN sel |-> Cardinality(g[sel[i]])])
  <1> DEFINE n == Len(sel)
             f == [i \in DOMAIN sel |-> Cardinality(g[sel[i]])]
             C(i) == Copy(i, level, g[sel[i]])
             U(j) == UNION {C(i) : i \in 1 .. j}
  <1>1. n \in Nat /\ DOMAIN sel = 1 .. n /\ \A i \in 1 .. n : g[sel[i]] \in LeafSets
    BY Elements
  <1>2. \A i \in 1 .. n : Cardinality(g[sel[i]]) \in Nat
    BY <1>1, FS_CardinalityType DEF LeafSets
  <1>3. f \in [1 .. n -> Nat] /\ \A i \in 1 .. n : f[i] = Cardinality(g[sel[i]])
    BY <1>1, <1>2
  <1>4. LeavesOfAll(sel, g, level) = U(n)
    BY <1>1 DEF LeavesOfAll, Copy
  <1>5. \A i \in 1 .. n : C(i) \in LeafSets /\ Cardinality(C(i)) = f[i]
    BY <1>1, <1>3, CopyLeaves
  <1>6. \A i, j \in 1 .. n : i # j => C(i) \cap C(j) = {}
    BY <1>1, CopiesDiffer
  <1> HIDE DEF C, U, f, n
  <1>7. PICK u : IsSumOf(u, f, n) /\ Sum(f) = u[n]
    BY <1>1, <1>3, PartialSums
  <1> DEFINE Q == {j \in Nat : j <= n => U(j) \in LeafSets /\ Cardinality(U(j)) = u[j]}
  <1>8. 0 \in Q
    <2>1. U(0) = {}
      BY DEF U
    <2>2. u[0] = 0
      BY <1>7 DEF IsSumOf
    <2> QED BY <2>1, <2>2, FS_EmptySet DEF LeafSets
  <1>9. ASSUME NEW j \in Q
        PROVE  j + 1 \in Q
    <2> SUFFICES ASSUME j + 1 <= n
                 PROVE  U(j + 1) \in LeafSets /\ Cardinality(U(j + 1)) = u[j + 1]
      OBVIOUS
    <2>1. j \in Nat /\ j <= n /\ j + 1 \in 1 .. n /\ (j + 1) - 1 = j
      BY <1>1
    <2>2. U(j) \in LeafSets /\ Cardinality(U(j)) = u[j]
      BY <2>1
    <2>3. U(j + 1) = U(j) \cup C(j + 1)
      <3>1. 1 .. j + 1 = (1 .. j) \cup {j + 1}
        BY <2>1
      <3> QED BY <3>1 DEF U
    <2>4. U(j) \cap C(j + 1) = {}
      <3>1. ASSUME NEW i \in 1 .. j
            PROVE  C(i) \cap C(j + 1) = {}
        <4>1. i \in 1 .. n /\ i # j + 1
          BY <1>1, <2>1
        <4> QED BY <1>6, <2>1, <4>1
      <3> QED BY <3>1 DEF U
    <2>5. C(j + 1) \in LeafSets /\ Cardinality(C(j + 1)) = f[j + 1]
      BY <1>5, <2>1
    <2>6. /\ IsFiniteSet(U(j) \cup C(j + 1))
          /\ Cardinality(U(j) \cup C(j + 1)) = u[j] + f[j + 1]
      <3>1. IsFiniteSet(U(j)) /\ IsFiniteSet(C(j + 1))
        BY <2>2, <2>5 DEF LeafSets
      <3>2. Cardinality(U(j) \cap C(j + 1)) = 0
        BY <2>4, FS_EmptySet
      <3>3. u[j] \in Nat /\ f[j + 1] \in Nat
        BY <1>1, <1>3, <1>7, <2>1 DEF IsSumOf
      <3>4. /\ IsFiniteSet(U(j) \cup C(j + 1))
            /\ Cardinality(U(j) \cup C(j + 1))
                 = Cardinality(U(j)) + Cardinality(C(j + 1)) - Cardinality(U(j) \cap C(j + 1))
        BY <3>1, FS_Union
      <3> QED BY <2>2, <2>5, <3>2, <3>3, <3>4
    <2>7. u[j + 1] = u[j] + f[j + 1]
      BY <1>7, <2>1 DEF IsSumOf
    <2> QED BY <2>2, <2>3, <2>5, <2>6, <2>7 DEF LeafSets
  <1>10. n \in Q
    <2> HIDE DEF Q
    <2>1. Q \in SUBSET Nat
      BY DEF Q
    <2> QED BY <1>1, <1>8, <1>9, <2>1, AllNumbers
  <1>11. U(n) \in LeafSets /\ Cardinality(U(n)) = Sum(f)
    BY <1>1, <1>7, <1>10
  <1> QED BY <1>3, <1>4, <1>11 DEF f, n

LEMMA LeavesOfAllTyped ==
  ASSUME NEW sel, IsSequence(sel), NEW g, \A n \in ToSet(sel) : g[n] \in LeafSets,
         NEW level \in Nat
  PROVE  LeavesOfAll(sel, g, level) \in LeafSets
  BY LeavesOfAllCount

LEMMA LeavesTyped ==
  ASSUME NEW d \in Documents, NEW n \in NodesOf(d), NEW g,
         \A m \in KidsOf(d)[n] : g[m] \in LeafSets
  PROVE  LeavesOf(d, n, g) \in LeafSets
  <1>1. CASE IsMeta(n)
    <2>1. LeavesOf(d, n, g) = {}
      BY <1>1 DEF LeavesOf, IsLeaf, NotMeta
    <2> QED BY <2>1, FS_EmptySet DEF LeafSets
  <1>2. CASE ~IsMeta(n) /\ IsLeaf(n)
    <2>1. [at |-> <<>>, depth |-> 1] \in Leaf
      BY DEF Leaf
    <2>2. {[at |-> <<>>, depth |-> 1]} \in LeafSets
      BY <2>1, FS_Singleton DEF LeafSets
    <2> QED BY <1>2, <2>2 DEF LeavesOf
  <1>3. CASE ~IsMeta(n) /\ ~IsLeaf(n)
    <2> DEFINE level == IF n.kind = "field" THEN 1 ELSE 0
    <2>1. IsSequence(Below(d, n)) /\ \A m \in ToSet(Below(d, n)) : g[m] \in LeafSets
      BY NodesTyped DEF KidsOf
    <2>2. level \in Nat
      OBVIOUS
    <2>3. LeavesOf(d, n, g) = LeavesOfAll(Below(d, n), g, level)
      BY <1>3 DEF LeavesOf
    <2> HIDE DEF level
    <2>4. LeavesOfAll(Below(d, n), g, level) \in LeafSets
      BY <2>1, <2>2, LeavesOfAllTyped
    <2> QED BY <2>3, <2>4
  <1> QED BY <1>1, <1>2, <1>3

LEMMA LeavesEquation ==
  ASSUME NEW d \in Documents
  PROVE  /\ LeavesBelow[d] \in [NodesOf(d) -> LeafSets]
         /\ \A n \in NodesOf(d) : LeavesBelow[d][n] = LeavesOf(d, n, LeavesBelow[d])
  <1> DEFINE N == NodesOf(d)
             kids == KidsOf(d)
             P(v) == v = [n \in N |-> LeavesOf(d, n, v)]
             H == [n \in N |-> [g \in [N -> LeafSets] |-> LeavesOf(d, n, g)]]
  <1>1. ASSUME NEW n \in N
        PROVE  kids[n] \subseteq N /\ ToSet(n.sel) \subseteq kids[n]
    BY NodesTyped DEF KidsOf
  <1>2. OfKidsOnly(N, kids, LeafSets, H)
    <2>1. H \in [N -> [[N -> LeafSets] -> LeafSets]]
      <3>1. ASSUME NEW n \in N, NEW g \in [N -> LeafSets]
            PROVE  LeavesOf(d, n, g) \in LeafSets
        <4>1. \A m \in KidsOf(d)[n] : g[m] \in LeafSets
          BY <1>1
        <4> QED BY <4>1, LeavesTyped
      <3> QED BY <3>1
    <2>2. ASSUME NEW n \in N, NEW g \in [N -> LeafSets], NEW h \in [N -> LeafSets],
                 \A k \in kids[n] : g[k] = h[k]
          PROVE  H[n][g] = H[n][h]
      <3>1. \A j \in DOMAIN Below(d, n) : g[Below(d, n)[j]] = h[Below(d, n)[j]]
        <4>1. ToSet(Below(d, n)) \subseteq kids[n] /\ IsSequence(Below(d, n))
          BY NodesTyped DEF KidsOf
        <4> QED BY <2>2, <4>1, Elements
      <3>2. LeavesOf(d, n, g) = LeavesOf(d, n, h)
        <4>1. ASSUME NEW level
              PROVE  LeavesOfAll(Below(d, n), g, level) = LeavesOfAll(Below(d, n), h, level)
          <5>1. \A j \in DOMAIN Below(d, n) :
                  Copy(j, level, g[Below(d, n)[j]]) = Copy(j, level, h[Below(d, n)[j]])
            BY <3>1
          <5>2. \A f : LeavesOfAll(Below(d, n), f, level)
                        = UNION {Copy(j, level, f[Below(d, n)[j]]) : j \in DOMAIN Below(d, n)}
            BY DEF LeavesOfAll, Copy
          <5> QED BY <5>1, <5>2
        <4> QED BY <4>1 DEF LeavesOf
      <3> QED BY <3>2
    <2>3. LeafSets # {}
      BY FS_EmptySet DEF LeafSets
    <2> HIDE DEF H, N, kids
    <2> QED BY <2>1, <2>2, <2>3 DEF OfKidsOnly
  <1>3. \E v : P(v)
    <2>1. Solutions(N, LeafSets, H) # {}
      <3> HIDE DEF H, N, kids
      <3> QED BY <1>2, DocumentForest, TreeRecursion DEF N, kids
    <2>2. PICK v \in [N -> LeafSets] : \A n \in N : v[n] = H[n][v]
      BY <2>1 DEF Solutions
    <2>3. \A n \in N : v[n] = LeavesOf(d, n, v)
      BY <2>2
    <2> QED BY <2>3
  <1>4. P(LeavesBelow[d])
    <2>1. LeavesBelow[d] = CHOOSE v : P(v)
      BY DEF LeavesBelow
    <2> HIDE DEF P
    <2> QED BY <1>3, <2>1
  <1>5. \A n \in N : LeavesBelow[d][n] = LeavesOf(d, n, LeavesBelow[d])
    BY <1>4
  <1>6. LeavesBelow[d] \in [N -> LeafSets]
    <2> DEFINE F == LeavesBelow[d]
    <2>1. F = [n \in N |-> F[n]]
      BY <1>4
    <2>2. \A n \in N : (\A k \in kids[n] : F[k] \in LeafSets) => F[n] \in LeafSets
      BY <1>5, LeavesTyped
    <2>3. IsForest(N, kids, Heights[d])
      BY DocumentForest
    <2> HIDE DEF F, N, kids
    <2>4. PassedUp(N, kids, LeafSets, F)
      BY <2>1, <2>2 DEF PassedUp
    <2>5. F \in [N -> LeafSets]
      BY <2>3, <2>4, TypedByKids
    <2> QED BY <2>5 DEF F
  <1> QED BY <1>5, <1>6

LEMMA LeavesOfNode ==
  ASSUME NEW d \in Documents, NEW n \in NodesOf(d)
  PROVE  /\ LeavesBelow[d][n] \in LeafSets
         /\ IsMeta(n) => LeavesBelow[d][n] = {}
         /\ IsLeaf(n) => LeavesBelow[d][n] = {[at |-> <<>>, depth |-> 1]}
         /\ NotMeta(n) /\ ~IsLeaf(n) =>
              LeavesBelow[d][n]
                = LeavesOfAll(Below(d, n), LeavesBelow[d], IF n.kind = "field" THEN 1 ELSE 0)
  <1> DEFINE g == LeavesBelow[d]
  <1>1. g \in [NodesOf(d) -> LeafSets] /\ g[n] = LeavesOf(d, n, g)
    BY LeavesEquation
  <1> HIDE DEF g
  <1>2. g[n] \in LeafSets
    BY <1>1
  <1>3. IsMeta(n) => g[n] = {}
    BY <1>1 DEF LeavesOf, IsLeaf, NotMeta
  <1>4. IsLeaf(n) => g[n] = {[at |-> <<>>, depth |-> 1]}
    BY <1>1 DEF LeavesOf, IsLeaf, NotMeta
  <1>5. NotMeta(n) /\ ~IsLeaf(n) =>
          g[n] = LeavesOfAll(Below(d, n), g, IF n.kind = "field" THEN 1 ELSE 0)
    BY <1>1 DEF LeavesOf, NotMeta
  <1> QED BY <1>2, <1>3, <1>4, <1>5 DEF g

(* Every leaf of a selection set is one of a node, and the other way round. *)
LEMMA LeafOfNode ==
  ASSUME NEW sel, IsSequence(sel), NEW g, NEW level
  PROVE  /\ \A l \in LeavesOfAll(sel, g, level) :
              \E n \in ToSet(sel) : \E m \in g[n] : l.depth = m.depth + level
         /\ \A n \in ToSet(sel) : \A m \in g[n] :
              \E l \in LeavesOfAll(sel, g, level) : l.depth = m.depth + level
  <1>1. ASSUME NEW l \in LeavesOfAll(sel, g, level)
        PROVE  \E n \in ToSet(sel) : \E m \in g[n] : l.depth = m.depth + level
    <2>1. PICK i \in DOMAIN sel :
            l \in {[at |-> <<i>> \o m.at, depth |-> m.depth + level] : m \in g[sel[i]]}
      BY <1>1 DEF LeavesOfAll
    <2>2. PICK m \in g[sel[i]] : l = [at |-> <<i>> \o m.at, depth |-> m.depth + level]
      BY <2>1
    <2>3. sel[i] \in ToSet(sel)
      BY Elements
    <2> QED BY <2>2, <2>3
  <1>2. ASSUME NEW n \in ToSet(sel), NEW m \in g[n]
        PROVE  \E l \in LeavesOfAll(sel, g, level) : l.depth = m.depth + level
    <2>1. PICK i \in DOMAIN sel : n = sel[i]
      BY Elements
    <2> DEFINE l == [at |-> <<i>> \o m.at, depth |-> m.depth + level]
    <2>2. l \in LeavesOfAll(sel, g, level)
      <3> DEFINE C(j) == {[at |-> <<j>> \o k.at, depth |-> k.depth + level] : k \in g[sel[j]]}
      <3>1. l \in C(i)
        BY <2>1
      <3>2. LeavesOfAll(sel, g, level) = UNION {C(j) : j \in DOMAIN sel}
        BY DEF LeavesOfAll
      <3> HIDE DEF C, l
      <3> QED BY <3>1, <3>2
    <2> QED BY <2>2
  <1> QED BY <1>1, <1>2

LEMMA DepthMeans ==
  ASSUME NEW d \in Documents
  PROVE  /\ Leaves(d) \in LeafSets
         /\ Depth(d) \in Nat
         /\ \A l \in Leaves(d) : l.depth <= Depth(d)
         /\ Depth(d) # 0 => \E l \in Leaves(d) : l.depth = Depth(d)
  <1> DEFINE S == Leaves(d)
             T == {l.depth : l \in S}
             U == {0} \cup T
             h == [l \in S |-> l.depth]
  <1>1. S \in LeafSets
    <2>1. IsSequence(d.op) /\ \A n \in ToSet(d.op) : LeavesBelow[d][n] \in LeafSets
      BY DocumentTyped, LeavesOfNode
    <2>2. 0 \in Nat
      OBVIOUS
    <2> QED BY <2>1, <2>2, LeavesOfAllTyped DEF Leaves
  <1>2. T \in SUBSET Nat
    BY <1>1 DEF LeafSets, Leaf
  <1>3. IsFiniteSet(T)
    <2>1. h \in Surjection(S, T)
      BY DEF Surjection
    <2>2. IsFiniteSet(S)
      BY <1>1 DEF LeafSets
    <2> HIDE DEF h, S, T
    <2> QED BY <2>1, <2>2, FS_Surjection
  <1>4. U \in SUBSET Nat /\ U # {} /\ IsFiniteSet(U)
    <2>1. U = T \cup {0}
      OBVIOUS
    <2> HIDE DEF T
    <2> QED BY <1>2, <1>3, <2>1, FS_AddElement
  <1>5. Max(U) \in U /\ \A y \in U : y <= Max(U)
    <2> HIDE DEF U
    <2> QED BY <1>4, GreatestOf
  <1>6. Depth(d) = Max(U)
    BY DEF Depth
  <1> HIDE DEF S
  <1> QED BY <1>1, <1>4, <1>5, <1>6 DEF S

-----------------------------------------------------------------------------
(* Documents without errors of shape are within the limits. *)

(* The fragments of data that lie below a height. *)
FragmentsBelow(d, h) ==
  {f \in DataFragments(d) : \A m \in ToSet(d.frags[f].sel) : Heights[d][m] < h}

LEMMA FragmentsCounted ==
  ASSUME NEW d \in Documents
  PROVE  /\ IsFiniteSet(DataFragments(d))
         /\ \A h : /\ FragmentsBelow(d, h) \subseteq DataFragments(d)
                   /\ IsFiniteSet(FragmentsBelow(d, h))
                   /\ Cardinality(FragmentsBelow(d, h)) \in Nat
                   /\ Cardinality(FragmentsBelow(d, h)) <= Cardinality(DataFragments(d))
  <1>1. IsFiniteSet(DOMAIN d.frags)
    BY TreesAssumption
  <1>2. IsFiniteSet(DataFragments(d))
    BY <1>1, FS_Subset DEF DataFragments
  <1>3. \A h : FragmentsBelow(d, h) \in SUBSET DataFragments(d)
    BY DEF FragmentsBelow
  <1> QED BY <1>2, <1>3, FS_Subset, FS_CardinalityType

(* What Check lets pass. *)
LEMMA Unrefused ==
  ASSUME NEW d \in Documents, NEW sel, IsSequence(sel), ToSet(sel) \subseteq NodesOf(d),
         Check(d, sel) = {}, NEW m \in ToSet(sel), NotMeta(m)
  PROVE  /\ Levels[d][m] + 1 <= MaxDepth
         /\ FieldsOfAll(sel, Fields[d]) <= MaxFields
  <1>1. /\ \A n \in ToSet(sel) : Levels[d][n] \in Nat
        /\ \A n \in ToSet(sel) : Fields[d][n] \in Nat
    BY LevelsEquation, FieldsEquation
  <1>2. LevelsOfAll(sel, Levels[d]) \in Nat /\ Levels[d][m] <= LevelsOfAll(sel, Levels[d])
    BY <1>1, GreatestLevel
  <1>3. FieldsOfAll(sel, Fields[d]) \in Nat
    BY <1>1, FieldsOfAllTyped
  <1>4. /\ "MAX_DEPTH_EXCEEDED" \notin Check(d, sel)
        /\ "MAX_FIELDS_EXCEEDED" \notin Check(d, sel)
    OBVIOUS
  <1>5. /\ ~(LevelsOfAll(sel, Levels[d]) + 1 > MaxDepth)
        /\ ~(FieldsOfAll(sel, Fields[d]) > MaxFields)
    BY <1>4 DEF Check
  <1>6. MaxDepth \in Nat /\ MaxFields \in Nat
    BY DocumentsAssumption
  <1>7. Levels[d][m] \in Nat
    BY <1>1
  <1> QED BY <1>2, <1>3, <1>5, <1>6, <1>7

LEMMA TimesMonotone ==
  ASSUME NEW k \in Nat, NEW a \in Nat, NEW b \in Nat, a <= b
  PROVE  k * a \in Nat /\ k * a <= k * b
  <1>1. PICK c \in Nat : b = a + c
    <2>1. b - a \in Nat /\ b = a + (b - a)
      OBVIOUS
    <2> QED BY <2>1
  <1>2. k * b = k * a + k * c /\ k * a \in Nat /\ k * c \in Nat
    BY <1>1
  <1> QED BY <1>2

(***************************************************************************)
(* A leaf is no deeper in its node than the guard counts, but for one      *)
(* limit per fragment that lies below the node.                            *)
(***************************************************************************)
LEMMA LeavesNotDeep ==
  ASSUME NEW d \in Documents, ShapeErrors(d) = {},
         NEW n \in DataNodes(d), NEW l \in LeavesBelow[d][n]
  PROVE  l.depth <= Levels[d][n] + 1 + MaxDepth * Cardinality(FragmentsBelow(d, Heights[d][n]))
  <1> DEFINE R(m) == Cardinality(FragmentsBelow(d, Heights[d][m]))
             Bounded(m) == \A k \in LeavesBelow[d][m] : k.depth <= Levels[d][m] + 1 + MaxDepth * R(m)
             T == {m \in DataNodes(d) : ~Bounded(m)}
  <1>1. /\ DataNodes(d) \subseteq NodesOf(d)
        /\ \A m \in DataNodes(d) : NotMeta(m) => ToSet(Below(d, m)) \subseteq DataNodes(d)
    BY DataClosed
  <1>2. ASSUME NEW m \in NodesOf(d)
        PROVE  /\ R(m) \in Nat /\ MaxDepth \in Nat /\ MaxDepth * R(m) \in Nat
               /\ Heights[d][m] \in Nat /\ Levels[d][m] \in Nat
               /\ \A k \in LeavesBelow[d][m] : k.depth \in Nat
    <2>1. R(m) \in Nat /\ MaxDepth \in Nat
      BY FragmentsCounted, DocumentsAssumption
    <2>2. MaxDepth * R(m) \in Nat
      BY <2>1, TimesMonotone
    <2>3. \A k \in LeavesBelow[d][m] : k.depth \in Nat
      BY LeavesOfNode DEF LeafSets, Leaf
    <2> QED BY <2>1, <2>2, <2>3, DocumentTyped, LevelsEquation
  <1>3. ASSUME NEW m \in DataNodes(d), \A k \in KidsOf(d)[m] : k \in DataNodes(d) => Bounded(k)
        PROVE  Bounded(m)
    <2> SUFFICES ASSUME NEW k \in LeavesBelow[d][m]
                 PROVE  k.depth <= Levels[d][m] + 1 + MaxDepth * R(m)
      OBVIOUS
    <2>m. m \in NodesOf(d)
      BY <1>1
    <2>t. /\ R(m) \in Nat /\ MaxDepth \in Nat /\ MaxDepth * R(m) \in Nat
          /\ Levels[d][m] \in Nat /\ k.depth \in Nat
      BY <1>2, <2>m
    <2>1. CASE IsMeta(m)
      BY <2>1, <2>m, LeavesOfNode
    <2>2. CASE IsLeaf(m)
      <3>1. k.depth = 1
        BY <2>2, <2>m, LeavesOfNode
      <3> QED BY <2>t, <3>1
    <2>3. CASE NotMeta(m) /\ ~IsLeaf(m)
      <3> DEFINE level == IF m.kind = "field" THEN 1 ELSE 0
      <3>1. k \in LeavesOfAll(Below(d, m), LeavesBelow[d], level)
        BY <2>3, <2>m, LeavesOfNode
      <3>2. PICK b \in ToSet(Below(d, m)) :
              \E j \in LeavesBelow[d][b] : k.depth = j.depth + level
        BY <2>m, <3>1, LeafOfNode, NodesTyped
      <3>3. PICK j \in LeavesBelow[d][b] : k.depth = j.depth + level
        BY <3>2
      <3>4. b \in DataNodes(d) /\ b \in NodesOf(d) /\ b \in KidsOf(d)[m]
        BY <1>1, <2>3, <2>m DEF KidsOf
      <3>5. /\ R(b) \in Nat /\ MaxDepth * R(b) \in Nat
            /\ Levels[d][b] \in Nat /\ j.depth \in Nat /\ Heights[d][b] < Heights[d][m]
            /\ Heights[d][b] \in Nat /\ Heights[d][m] \in Nat
        BY <1>2, <2>m, <3>4, NodesTyped
      <3>6. j.depth <= Levels[d][b] + 1 + MaxDepth * R(b)
        BY <1>3, <3>4
      <3>7. FragmentsBelow(d, Heights[d][b]) \subseteq FragmentsBelow(d, Heights[d][m])
        <4>1. ASSUME NEW f \in FragmentsBelow(d, Heights[d][b]), NEW x \in ToSet(d.frags[f].sel)
              PROVE  Heights[d][x] < Heights[d][m]
          <5>1. f \in DOMAIN d.frags
            BY DEF FragmentsBelow, DataFragments
          <5>2. Heights[d][x] \in Nat
            BY <5>1, DocumentTyped
          <5>3. Heights[d][x] < Heights[d][b]
            BY <4>1 DEF FragmentsBelow
          <5> QED BY <3>5, <5>2, <5>3
        <4> QED BY <4>1 DEF FragmentsBelow
      <3>8. CASE m.kind # "spread"
        <4>1. Below(d, m) = m.sel
          BY <3>8 DEF Below
        <4>2. R(b) <= R(m)
          BY <3>7, FragmentsCounted, FS_Subset
        <4>3. MaxDepth * R(b) <= MaxDepth * R(m)
          BY <2>t, <3>5, <4>2, TimesMonotone
        <4>4. Levels[d][b] + level <= Levels[d][m]
          <5>1. Levels[d][m] = LevelsOf(m, Levels[d])
            BY <2>m, LevelsEquation
          <5>2. /\ LevelsOfAll(m.sel, Levels[d]) \in Nat
                /\ Levels[d][b] <= LevelsOfAll(m.sel, Levels[d])
            <6>1. IsSequence(m.sel) /\ \A x \in ToSet(m.sel) : Levels[d][x] \in Nat
              BY <2>m, NodesTyped, LevelsEquation
            <6> QED BY <4>1, <6>1, GreatestLevel
          <5>3. LevelsOf(m, Levels[d]) = LevelsOfAll(m.sel, Levels[d]) + level
            <6>1. m.kind \in {"field", "inline"}
              BY <2>m, <3>8, NodesTyped
            <6> QED BY <2>3, <5>2, <6>1 DEF LevelsOf, NotMeta
          <5> QED BY <3>5, <5>1, <5>2, <5>3
        <4> QED BY <2>t, <3>3, <3>5, <3>6, <4>3, <4>4
      <3>9. CASE m.kind = "spread"
        <4> DEFINE f == m.name
        <4>1. Below(d, m) = d.frags[f].sel /\ f \in DOMAIN d.frags /\ d.frags[f].on = "data"
          BY <2>m, <3>9, FragmentsAssumption DEF Below
        <4>2. f \in DataFragments(d)
          BY <4>1 DEF DataFragments
        <4>3. f \in FragmentsBelow(d, Heights[d][m])
          BY <2>m, <4>1, <4>2, NodesTyped DEF FragmentsBelow
        <4>4. f \notin FragmentsBelow(d, Heights[d][b])
          <5>1. b \in ToSet(d.frags[f].sel) /\ ~(Heights[d][b] < Heights[d][b])
            BY <3>5, <4>1
          <5> QED BY <5>1 DEF FragmentsBelow
        <4>5. R(b) + 1 <= R(m)
          <5> DEFINE S == FragmentsBelow(d, Heights[d][b])
          <5>1. IsFiniteSet(S) /\ Cardinality(S \cup {f}) = Cardinality(S) + 1
            BY <4>4, FragmentsCounted, FS_AddElement
          <5>2. S \cup {f} \subseteq FragmentsBelow(d, Heights[d][m])
            BY <3>7, <4>3
          <5>3. Cardinality(S \cup {f}) <= R(m)
            BY <5>2, FragmentsCounted, FS_Subset
          <5> QED BY <5>1, <5>3
        <4>6. Levels[d][b] + 1 <= MaxDepth
          <5>1. Check(d, d.frags[f].sel) = {}
            BY <4>1 DEF ShapeErrors
          <5>2. NotMeta(b)
            BY <3>3, <3>4, LeavesOfNode DEF NotMeta
          <5>3. IsSequence(d.frags[f].sel) /\ ToSet(d.frags[f].sel) \subseteq NodesOf(d)
            BY <4>1, DocumentTyped
          <5> QED BY <4>1, <5>1, <5>2, <5>3, Unrefused
        <4>7. MaxDepth * (R(b) + 1) <= MaxDepth * R(m)
          BY <2>t, <3>5, <4>5, TimesMonotone
        <4>8. MaxDepth * (R(b) + 1) = MaxDepth * R(b) + MaxDepth
          BY <2>t, <3>5
        <4>9. level = 0
          BY <3>9
        <4> QED BY <2>t, <3>3, <3>5, <3>6, <4>6, <4>7, <4>8, <4>9
      <3> QED BY <3>8, <3>9
    <2> QED BY <2>1, <2>2, <2>3 DEF NotMeta
  <1>4. ASSUME T # {}
        PROVE  FALSE
    <2>1. T \in SUBSET NodesOf(d)
      BY <1>1
    <2>2. PICK m \in T : KidsOf(d)[m] \cap T = {}
      <3> HIDE DEF T
      <3> QED BY <1>4, <2>1, DocumentForest, LowestTree
    <2> HIDE DEF Bounded
    <2> QED BY <1>3, <2>2
  <1>5. Bounded(n)
    <2> HIDE DEF Bounded
    <2> QED BY <1>4
  <1> QED BY <1>5

LEMMA DepthWithinLimits ==
  ASSUME NEW d \in Documents, ShapeErrors(d) = {}
  PROVE  Depth(d) <= MaxDepth * (1 + Cardinality(DataFragments(d)))
  <1> DEFINE D == Cardinality(DataFragments(d))
  <1>1. /\ MaxDepth \in Nat /\ D \in Nat /\ Depth(d) \in Nat
        /\ MaxDepth * (1 + D) \in Nat /\ MaxDepth * (1 + D) = MaxDepth + MaxDepth * D
    <2>1. MaxDepth \in Nat /\ D \in Nat /\ Depth(d) \in Nat
      BY DocumentsAssumption, FragmentsCounted, FS_CardinalityType, DepthMeans
    <2>2. MaxDepth * (1 + D) \in Nat
      BY <2>1, TimesMonotone
    <2> QED BY <2>1, <2>2
  <1>2. CASE Depth(d) = 0
    BY <1>1, <1>2
  <1>3. CASE Depth(d) # 0
    <2>1. PICK l \in Leaves(d) : l.depth = Depth(d)
      BY <1>3, DepthMeans
    <2>2. PICK n \in ToSet(d.op) : \E k \in LeavesBelow[d][n] : l.depth = k.depth + 0
      BY DocumentTyped, LeafOfNode DEF Leaves
    <2>3. PICK k \in LeavesBelow[d][n] : l.depth = k.depth + 0
      BY <2>2
    <2>4. n \in DataNodes(d) /\ n \in NodesOf(d)
      BY DataClosed
    <2> DEFINE R == Cardinality(FragmentsBelow(d, Heights[d][n]))
    <2>5. k.depth \in Nat /\ Levels[d][n] \in Nat /\ R \in Nat /\ R <= D
      BY <2>4, LeavesOfNode, LevelsEquation, FragmentsCounted DEF LeafSets, Leaf
    <2>6. k.depth <= Levels[d][n] + 1 + MaxDepth * R
      BY <2>4, LeavesNotDeep
    <2>7. MaxDepth * R \in Nat /\ MaxDepth * R <= MaxDepth * D /\ MaxDepth * D \in Nat
      BY <1>1, <2>5, TimesMonotone
    <2>8. Levels[d][n] + 1 <= MaxDepth
      <3>1. NotMeta(n)
        BY <2>3, <2>4, LeavesOfNode DEF NotMeta
      <3>2. Check(d, d.op) = {}
        BY DEF ShapeErrors
      <3> QED BY <3>1, <3>2, DocumentTyped, Unrefused
    <2>9. Depth(d) <= MaxDepth * (1 + D)
      <3> HIDE DEF R, D
      <3> QED BY <1>1, <2>1, <2>3, <2>5, <2>6, <2>7, <2>8
    <2> QED BY <2>9
  <1> QED BY <1>2, <1>3

(* A node has at least the leaves that the guard counts. *)
LEMMA FieldsAreLeaves ==
  ASSUME NEW d \in Documents, NEW n \in NodesOf(d)
  PROVE  Fields[d][n] <= Cardinality(LeavesBelow[d][n])
  <1> DEFINE C(m) == Cardinality(LeavesBelow[d][m])
             T == {m \in NodesOf(d) : ~(Fields[d][m] <= C(m))}
  <1>1. \A m \in NodesOf(d) : C(m) \in Nat /\ Fields[d][m] \in Nat
    BY LeavesOfNode, FieldsEquation, FS_CardinalityType DEF LeafSets
  <1>2. ASSUME NEW m \in NodesOf(d), \A k \in KidsOf(d)[m] : Fields[d][k] <= C(k)
        PROVE  Fields[d][m] <= C(m)
    <2>1. Fields[d][m] = FieldsOf(m, Fields[d])
      BY FieldsEquation
    <2>2. CASE m.kind = "spread" \/ IsMeta(m)
      <3>1. Fields[d][m] = 0
        BY <2>1, <2>2 DEF FieldsOf, IsMeta, IsLeaf, NotMeta
      <3> QED BY <1>1, <3>1
    <2>3. CASE IsLeaf(m)
      <3>1. Fields[d][m] = 1
        BY <2>1, <2>3 DEF FieldsOf, IsLeaf, NotMeta
      <3>2. C(m) = 1
        BY <2>3, LeavesOfNode, FS_Singleton
      <3> QED BY <3>1, <3>2
    <2>4. CASE m.kind # "spread" /\ NotMeta(m) /\ ~IsLeaf(m)
      <3> DEFINE level == IF m.kind = "field" THEN 1 ELSE 0
                 f == [i \in DOMAIN m.sel |-> Fields[d][m.sel[i]]]
                 g == [i \in DOMAIN m.sel |-> Cardinality(LeavesBelow[d][m.sel[i]])]
      <3>1. IsSequence(m.sel) /\ ToSet(m.sel) \subseteq NodesOf(d)
        BY NodesTyped
      <3>2. Fields[d][m] = Sum(f)
        BY <2>1, <2>4 DEF FieldsOf, FieldsOfAll, NotMeta
      <3>3. LeavesBelow[d][m] = LeavesOfAll(m.sel, LeavesBelow[d], level)
        BY <2>4, LeavesOfNode DEF Below
      <3>4. Len(m.sel) \in Nat /\ f \in [1 .. Len(m.sel) -> Nat]
        BY <1>1, <3>1, Elements
      <3>5. g \in [1 .. Len(m.sel) -> Nat] /\ C(m) = Sum(g)
        <4>1. \A x \in ToSet(m.sel) : LeavesBelow[d][x] \in LeafSets
          BY <3>1, LeavesOfNode
        <4>2. level \in Nat
          OBVIOUS
        <4> HIDE DEF level
        <4> QED BY <3>1, <3>3, <4>1, <4>2, LeavesOfAllCount
      <3>6. \A i \in 1 .. Len(m.sel) : f[i] <= g[i]
        <4>1. ASSUME NEW i \in 1 .. Len(m.sel)
              PROVE  f[i] <= g[i]
          <5>1. i \in DOMAIN m.sel /\ m.sel[i] \in KidsOf(d)[m]
            BY <3>1, Elements DEF KidsOf
          <5> QED BY <1>2, <5>1
        <4> QED BY <4>1
      <3> HIDE DEF f, g, C
      <3> QED BY <3>2, <3>4, <3>5, <3>6, SumsAreMonotone
    <2> QED BY <2>2, <2>3, <2>4 DEF NotMeta
  <1>3. ASSUME T # {}
        PROVE  FALSE
    <2>1. T \in SUBSET NodesOf(d)
      OBVIOUS
    <2>2. PICK m \in T : KidsOf(d)[m] \cap T = {}
      <3> HIDE DEF T
      <3> QED BY <1>3, <2>1, DocumentForest, LowestTree
    <2>3. KidsOf(d)[m] \subseteq NodesOf(d)
      BY DocumentForest DEF IsForest
    <2> HIDE DEF C
    <2> QED BY <1>2, <2>2, <2>3
  <1> HIDE DEF C
  <1> QED BY <1>3 DEF C

(* Without fragments of data, it has just these. *)
LEMMA LeavesAreFields ==
  ASSUME NEW d \in Documents, DataFragments(d) = {}, NEW n \in DataNodes(d)
  PROVE  Cardinality(LeavesBelow[d][n]) = Fields[d][n]
  <1> DEFINE C(m) == Cardinality(LeavesBelow[d][m])
             T == {m \in DataNodes(d) : C(m) # Fields[d][m]}
  <1>1. /\ DataNodes(d) \subseteq NodesOf(d)
        /\ \A m \in DataNodes(d) : NotMeta(m) => ToSet(Below(d, m)) \subseteq DataNodes(d)
    BY DataClosed
  <1>2. ASSUME NEW m \in DataNodes(d), \A k \in KidsOf(d)[m] : k \in DataNodes(d) => C(k) = Fields[d][k]
        PROVE  C(m) = Fields[d][m]
    <2>m. m \in NodesOf(d)
      BY <1>1
    <2>1. Fields[d][m] = FieldsOf(m, Fields[d])
      BY <2>m, FieldsEquation
    <2>s. m.kind # "spread"
      <3>1. ASSUME m.kind = "spread"
            PROVE  m.name \in DataFragments(d)
        BY <2>m, <3>1, FragmentsAssumption DEF DataFragments
      <3> QED BY <3>1
    <2>2. CASE IsMeta(m)
      <3>1. Fields[d][m] = 0
        BY <2>1, <2>2 DEF FieldsOf, IsMeta, IsLeaf, NotMeta
      <3>2. C(m) = 0
        BY <2>2, <2>m, LeavesOfNode, FS_EmptySet
      <3> QED BY <3>1, <3>2
    <2>3. CASE IsLeaf(m)
      <3>1. Fields[d][m] = 1
        BY <2>1, <2>3 DEF FieldsOf, IsLeaf, NotMeta
      <3>2. C(m) = 1
        BY <2>3, <2>m, LeavesOfNode, FS_Singleton
      <3> QED BY <3>1, <3>2
    <2>4. CASE NotMeta(m) /\ ~IsLeaf(m)
      <3> DEFINE level == IF m.kind = "field" THEN 1 ELSE 0
                 f == [i \in DOMAIN m.sel |-> Fields[d][m.sel[i]]]
                 g == [i \in DOMAIN m.sel |-> Cardinality(LeavesBelow[d][m.sel[i]])]
      <3>1. /\ IsSequence(m.sel) /\ ToSet(m.sel) \subseteq NodesOf(d)
            /\ ToSet(m.sel) \subseteq DataNodes(d) /\ Below(d, m) = m.sel
        BY <1>1, <2>m, <2>s, <2>4, NodesTyped DEF Below
      <3>2. Fields[d][m] = Sum(f)
        BY <2>1, <2>s, <2>4 DEF FieldsOf, FieldsOfAll, NotMeta
      <3>3. LeavesBelow[d][m] = LeavesOfAll(m.sel, LeavesBelow[d], level)
        BY <2>m, <2>4, <3>1, LeavesOfNode
      <3>5. C(m) = Sum(g)
        <4>1. \A x \in ToSet(m.sel) : LeavesBelow[d][x] \in LeafSets
          BY <3>1, LeavesOfNode
        <4>2. level \in Nat
          OBVIOUS
        <4> HIDE DEF level
        <4> QED BY <3>1, <3>3, <4>1, <4>2, LeavesOfAllCount
      <3>6. f = g
        <4>1. ASSUME NEW i \in DOMAIN m.sel
              PROVE  Fields[d][m.sel[i]] = Cardinality(LeavesBelow[d][m.sel[i]])
          <5>1. m.sel[i] \in KidsOf(d)[m] /\ m.sel[i] \in DataNodes(d)
            BY <2>m, <3>1, Elements DEF KidsOf
          <5> QED BY <1>2, <5>1
        <4> QED BY <4>1
      <3> QED BY <3>2, <3>5, <3>6
    <2> QED BY <2>2, <2>3, <2>4 DEF NotMeta
  <1>3. ASSUME T # {}
        PROVE  FALSE
    <2>1. T \in SUBSET NodesOf(d)
      BY <1>1
    <2>2. PICK m \in T : KidsOf(d)[m] \cap T = {}
      <3> HIDE DEF T
      <3> QED BY <1>3, <2>1, DocumentForest, LowestTree
    <2> HIDE DEF C
    <2> QED BY <1>2, <2>2
  <1> HIDE DEF C
  <1> QED BY <1>3 DEF C

LEMMA WidthWithinLimits ==
  ASSUME NEW d \in Documents, ShapeErrors(d) = {}, DataFragments(d) = {}
  PROVE  Cardinality(Leaves(d)) <= MaxFields
  <1> DEFINE f == [i \in DOMAIN d.op |-> Fields[d][d.op[i]]]
             g == [i \in DOMAIN d.op |-> Cardinality(LeavesBelow[d][d.op[i]])]
  <1>1. IsSequence(d.op) /\ ToSet(d.op) \subseteq NodesOf(d) /\ ToSet(d.op) \subseteq DataNodes(d)
    BY DocumentTyped, DataClosed
  <1>2. Cardinality(Leaves(d)) = Sum(g)
    <2>1. \A x \in ToSet(d.op) : LeavesBelow[d][x] \in LeafSets
      BY <1>1, LeavesOfNode
    <2>2. 0 \in Nat
      OBVIOUS
    <2> QED BY <1>1, <2>1, <2>2, LeavesOfAllCount DEF Leaves
  <1>3. f = g
    <2>1. \A i \in DOMAIN d.op : d.op[i] \in DataNodes(d)
      BY <1>1, Elements
    <2> QED BY <2>1, LeavesAreFields
  <1>4. FieldsOfAll(d.op, Fields[d]) = Sum(f)
    BY DEF FieldsOfAll
  <1>5. CASE \E n \in ToSet(d.op) : NotMeta(n)
    <2>1. Check(d, d.op) = {}
      BY DEF ShapeErrors
    <2> HIDE DEF f, g
    <2> QED BY <1>1, <1>2, <1>3, <1>4, <1>5, <2>1, Unrefused
  <1>6. CASE \A n \in ToSet(d.op) : IsMeta(n)
    <2>1. Leaves(d) = {}
      <3>1. ASSUME NEW l \in Leaves(d)
            PROVE  FALSE
        <4>1. PICK n \in ToSet(d.op) : \E k \in LeavesBelow[d][n] : l.depth = k.depth + 0
          BY <1>1, <3>1, LeafOfNode DEF Leaves
        <4> QED BY <1>1, <1>6, <4>1, LeavesOfNode
      <3> QED BY <3>1
    <2> QED BY <2>1, FS_EmptySet, DocumentsAssumption
  <1> QED BY <1>5, <1>6 DEF NotMeta

-----------------------------------------------------------------------------
(* Refusals. *)

(* A node has at least the leaves of each node below it. *)
LEMMA OneOfAll ==
  ASSUME NEW sel, IsSequence(sel), NEW g, \A n \in ToSet(sel) : g[n] \in LeafSets,
         NEW level \in Nat, NEW x \in ToSet(sel)
  PROVE  Cardinality(g[x]) <= Cardinality(LeavesOfAll(sel, g, level))
  <1>1. PICK i \in DOMAIN sel : x = sel[i]
    BY Elements
  <1>2. i \in Nat
    BY Elements
  <1>3. g[x] \in LeafSets
    OBVIOUS
  <1>4. Copy(i, level, g[x]) \subseteq LeavesOfAll(sel, g, level)
    BY <1>1 DEF Copy, LeavesOfAll
  <1>5. IsFiniteSet(LeavesOfAll(sel, g, level))
    BY LeavesOfAllTyped DEF LeafSets
  <1>6. Cardinality(Copy(i, level, g[x])) = Cardinality(g[x])
    BY <1>2, <1>3, CopyLeaves
  <1> QED BY <1>4, <1>5, <1>6, FS_Subset

(* Nodes of data are in place somewhere: the document has their leaves. *)
LEMMA LeavesInPlace ==
  ASSUME NEW d \in Documents, NEW n \in DataNodes(d)
  PROVE  /\ Cardinality(LeavesBelow[d][n]) <= Cardinality(Leaves(d))
         /\ \A l \in LeavesBelow[d][n] : l.depth <= Depth(d)
  <1> DEFINE InPlace(m) == /\ Cardinality(LeavesBelow[d][m]) <= Cardinality(Leaves(d))
                           /\ \A l \in LeavesBelow[d][m] : l.depth <= Depth(d)
             S == {m \in NodesOf(d) : InPlace(m)}
  <1>1. /\ Cardinality(Leaves(d)) \in Nat /\ Depth(d) \in Nat
        /\ \A l \in Leaves(d) : l.depth <= Depth(d)
    BY DepthMeans, FS_CardinalityType DEF LeafSets
  <1>2. \A m \in NodesOf(d) : /\ LeavesBelow[d][m] \in LeafSets
                              /\ Cardinality(LeavesBelow[d][m]) \in Nat
                              /\ \A l \in LeavesBelow[d][m] : l.depth \in Nat
    BY LeavesOfNode, FS_CardinalityType DEF LeafSets, Leaf
  <1>3. ASSUME NEW m \in ToSet(d.op)
        PROVE  m \in S
    <2>1. IsSequence(d.op) /\ ToSet(d.op) \subseteq NodesOf(d)
      BY DocumentTyped
    <2>2. Cardinality(LeavesBelow[d][m]) <= Cardinality(Leaves(d))
      <3>1. 0 \in Nat /\ \A x \in ToSet(d.op) : LeavesBelow[d][x] \in LeafSets
        BY <1>2, <2>1
      <3> QED BY <2>1, <3>1, OneOfAll DEF Leaves
    <2>3. ASSUME NEW l \in LeavesBelow[d][m]
          PROVE  l.depth <= Depth(d)
      <3>1. PICK k \in Leaves(d) : k.depth = l.depth + 0
        BY <2>1, LeafOfNode DEF Leaves
      <3> QED BY <1>1, <1>2, <2>1, <3>1
    <2> QED BY <2>1, <2>2, <2>3
  <1>4. ASSUME NEW m \in S, NotMeta(m), NEW x \in ToSet(Below(d, m))
        PROVE  x \in S
    <2>1. /\ m \in NodesOf(d) /\ x \in NodesOf(d) /\ IsSequence(Below(d, m))
          /\ ToSet(Below(d, m)) \subseteq NodesOf(d)
      BY NodesTyped
    <2>2. CASE IsLeaf(m)
      <3>1. IsMeta(x)
        BY <2>2 DEF IsLeaf, Below
      <3>2. LeavesBelow[d][x] = {}
        BY <2>1, <3>1, LeavesOfNode
      <3>3. Cardinality(LeavesBelow[d][x]) = 0
        BY <3>2, FS_EmptySet
      <3>4. InPlace(x)
        BY <1>1, <3>2, <3>3
      <3> QED BY <2>1, <3>4
    <2>3. CASE ~IsLeaf(m)
      <3> DEFINE level == IF m.kind = "field" THEN 1 ELSE 0
      <3>1. level \in Nat /\ LeavesBelow[d][m] = LeavesOfAll(Below(d, m), LeavesBelow[d], level)
        BY <1>4, <2>1, <2>3, LeavesOfNode
      <3> HIDE DEF level
      <3>2. Cardinality(LeavesBelow[d][x]) <= Cardinality(LeavesBelow[d][m])
        <4>1. \A y \in ToSet(Below(d, m)) : LeavesBelow[d][y] \in LeafSets
          BY <1>2, <2>1
        <4> QED BY <2>1, <3>1, <4>1, OneOfAll
      <3>3. ASSUME NEW l \in LeavesBelow[d][x]
            PROVE  l.depth <= Depth(d)
        <4>1. PICK k \in LeavesBelow[d][m] : k.depth = l.depth + level
          BY <2>1, <3>1, LeafOfNode
        <4>2. k.depth <= Depth(d) /\ k.depth \in Nat /\ l.depth \in Nat
          BY <1>2, <2>1
        <4> QED BY <1>1, <3>1, <4>1, <4>2
      <3> QED BY <1>1, <1>2, <2>1, <3>2, <3>3
    <2> QED BY <2>2, <2>3
  <1>5. DataNodes(d) \subseteq S
    <2>1. S \in SUBSET NodesOf(d)
      OBVIOUS
    <2> HIDE DEF S
    <2> QED BY <1>3, <1>4, <2>1, DataNodesLeast
  <1> QED BY <1>5

(* The guard counts no level that a leaf does not have. *)
LEMMA LevelsLeadToLeaves ==
  ASSUME NEW d \in Documents, ~Hollow(d), NEW n \in DataNodes(d), Levels[d][n] # 0
  PROVE  \E l \in LeavesBelow[d][n] : l.depth >= Levels[d][n] + 1
  <1> DEFINE Leads(m) == \E l \in LeavesBelow[d][m] : l.depth >= Levels[d][m] + 1
             T == {m \in DataNodes(d) : Levels[d][m] # 0 /\ ~Leads(m)}
  <1>1. /\ DataNodes(d) \subseteq NodesOf(d)
        /\ \A m \in DataNodes(d) : NotMeta(m) => ToSet(Below(d, m)) \subseteq DataNodes(d)
    BY DataClosed
  <1>2. \A m \in NodesOf(d) : /\ Levels[d][m] \in Nat /\ Levels[d][m] = LevelsOf(m, Levels[d])
                              /\ \A l \in LeavesBelow[d][m] : l.depth \in Nat /\ l.depth > 0
    BY LeavesOfNode, LevelsEquation DEF LeafSets, Leaf
  <1>3. ASSUME NEW m \in DataNodes(d), Levels[d][m] # 0,
               \A k \in KidsOf(d)[m] : k \in DataNodes(d) /\ Levels[d][k] # 0 => Leads(k)
        PROVE  Leads(m)
    <2> DEFINE level == IF m.kind = "field" THEN 1 ELSE 0
               all == LevelsOfAll(m.sel, Levels[d])
    <2>1. m \in NodesOf(d) /\ m.kind \in {"field", "inline", "spread"}
      BY <1>1, NodesTyped
    <2>2. NotMeta(m) /\ ~IsLeaf(m) /\ m.kind # "spread" /\ Levels[d][m] = all + level
      <3>1. LevelsOf(m, Levels[d]) # 0 /\ all \in Nat
        BY <1>2, <1>3, <2>1, NodesTyped, GreatestLevel
      <3>2. m.kind = "spread" \/ IsMeta(m) \/ IsLeaf(m) => LevelsOf(m, Levels[d]) = 0
        BY DEF LevelsOf, IsMeta, IsLeaf, NotMeta
      <3>3. m.kind # "spread" /\ ~IsMeta(m) /\ ~IsLeaf(m)
        BY <3>1, <3>2
      <3> QED BY <1>2, <2>1, <3>1, <3>3 DEF LevelsOf, NotMeta
    <2>3. /\ Below(d, m) = m.sel /\ IsSequence(m.sel)
          /\ ToSet(m.sel) \subseteq DataNodes(d) /\ ToSet(m.sel) \subseteq KidsOf(d)[m]
          /\ LeavesBelow[d][m] = LeavesOfAll(m.sel, LeavesBelow[d], level)
      BY <1>1, <2>1, <2>2, NodesTyped, LeavesOfNode DEF KidsOf, Below
    <2>4. all \in Nat /\ (all # 0 => \E k \in ToSet(m.sel) : Levels[d][k] = all)
      BY <1>1, <1>2, <2>3, GreatestLevel
    <2>5. CASE all = 0
      <3>1. m.kind = "field" /\ Levels[d][m] = 1
        BY <1>3, <2>2, <2>5
      <3>2. PICK l \in LeavesBelow[d][m] : TRUE
        BY <2>2, <3>1 DEF Hollow
      <3>3. PICK k \in ToSet(m.sel) : \E b \in LeavesBelow[d][k] : l.depth = b.depth + level
        BY <2>3, LeafOfNode
      <3>4. PICK b \in LeavesBelow[d][k] : l.depth = b.depth + level
        BY <3>3
      <3>5. b.depth \in Nat /\ b.depth > 0
        BY <1>1, <1>2, <2>3
      <3> QED BY <3>1, <3>4, <3>5
    <2>6. CASE all # 0
      <3>1. PICK k \in ToSet(m.sel) : Levels[d][k] = all
        BY <2>4, <2>6
      <3>2. k \in NodesOf(d) /\ Leads(k)
        BY <1>1, <1>3, <2>3, <2>6, <3>1
      <3>3. PICK b \in LeavesBelow[d][k] : b.depth >= Levels[d][k] + 1
        BY <3>2
      <3>4. PICK l \in LeavesBelow[d][m] : l.depth = b.depth + level
        BY <2>3, LeafOfNode
      <3>5. b.depth \in Nat /\ level \in Nat
        BY <1>2, <3>2
      <3>6. l.depth >= Levels[d][m] + 1
        <4> HIDE DEF level, all
        <4> QED BY <2>2, <2>4, <3>1, <3>3, <3>4, <3>5
      <3> QED BY <3>6
    <2> QED BY <2>5, <2>6
  <1>4. ASSUME T # {}
        PROVE  FALSE
    <2>1. T \in SUBSET NodesOf(d)
      BY <1>1
    <2>2. PICK m \in T : KidsOf(d)[m] \cap T = {}
      <3> HIDE DEF T
      <3> QED BY <1>4, <2>1, DocumentForest, LowestTree
    <2> HIDE DEF Leads
    <2> QED BY <1>3, <2>2
  <1> HIDE DEF Leads
  <1> QED BY <1>4 DEF Leads

(* What _check finds in the operation or in a fragment of data is there. *)
LEMMA ChecksAreDeserved ==
  ASSUME NEW d \in Documents, NEW sel, IsSequence(sel), ToSet(sel) \subseteq DataNodes(d)
  PROVE  /\ "MAX_DEPTH_EXCEEDED" \in Check(d, sel) /\ MaxDepth > 0 => Depth(d) > MaxDepth \/ Hollow(d)
         /\ "MAX_FIELDS_EXCEEDED" \in Check(d, sel) =>
              \A level \in Nat : Cardinality(LeavesOfAll(sel, LeavesBelow[d], level)) > MaxFields
  <1>1. /\ MaxDepth \in Nat /\ MaxFields \in Nat /\ Depth(d) \in Nat
        /\ ToSet(sel) \subseteq NodesOf(d)
    BY DocumentsAssumption, DepthMeans, DataClosed
  <1>2. /\ \A n \in NodesOf(d) : Levels[d][n] \in Nat /\ Fields[d][n] \in Nat
        /\ \A n \in NodesOf(d) : LeavesBelow[d][n] \in LeafSets
    BY LevelsEquation, FieldsEquation, LeavesOfNode
  <1>3. ASSUME "MAX_DEPTH_EXCEEDED" \in Check(d, sel), MaxDepth > 0, ~Hollow(d)
        PROVE  Depth(d) > MaxDepth
    <2> DEFINE all == LevelsOfAll(sel, Levels[d])
    <2>1. all + 1 > MaxDepth
      BY <1>3 DEF Check
    <2>2. /\ all \in Nat
          /\ all # 0 => \E n \in ToSet(sel) : Levels[d][n] = all
      BY <1>1, <1>2, GreatestLevel
    <2> HIDE DEF all
    <2>3. PICK n \in ToSet(sel) : Levels[d][n] = all /\ all # 0
      BY <1>1, <1>3, <2>1, <2>2
    <2>4. PICK l \in LeavesBelow[d][n] : l.depth >= Levels[d][n] + 1
      BY <1>3, <2>3, LevelsLeadToLeaves
    <2>5. l.depth <= Depth(d) /\ l.depth \in Nat
      BY <1>1, <1>2, LeavesInPlace DEF LeafSets, Leaf
    <2> QED BY <1>1, <2>1, <2>2, <2>3, <2>4, <2>5
  <1>4. ASSUME "MAX_FIELDS_EXCEEDED" \in Check(d, sel), NEW level \in Nat
        PROVE  Cardinality(LeavesOfAll(sel, LeavesBelow[d], level)) > MaxFields
    <2> DEFINE f == [i \in DOMAIN sel |-> Fields[d][sel[i]]]
               g == [i \in DOMAIN sel |-> Cardinality(LeavesBelow[d][sel[i]])]
    <2>1. Sum(f) > MaxFields
      BY <1>4 DEF Check, FieldsOfAll
    <2>2. Len(sel) \in Nat /\ f \in [1 .. Len(sel) -> Nat]
      BY <1>1, <1>2, Elements
    <2>3. \A n \in ToSet(sel) : LeavesBelow[d][n] \in LeafSets
      BY <1>1, <1>2
    <2>4. /\ g \in [1 .. Len(sel) -> Nat]
          /\ Cardinality(LeavesOfAll(sel, LeavesBelow[d], level)) = Sum(g)
          /\ LeavesOfAll(sel, LeavesBelow[d], level) \in LeafSets
      BY <2>3, LeavesOfAllCount
    <2>5. \A i \in 1 .. Len(sel) : f[i] <= g[i]
      <3>1. \A i \in DOMAIN sel : sel[i] \in NodesOf(d)
        BY <1>1, Elements
      <3> QED BY <3>1, FieldsAreLeaves, Elements
    <2>6. Cardinality(LeavesOfAll(sel, LeavesBelow[d], level)) \in Nat
      BY <2>4, FS_CardinalityType DEF LeafSets
    <2> HIDE DEF f, g
    <2>7. Sum(f) \in Nat /\ Sum(f) <= Sum(g)
      BY <2>2, <2>4, <2>5, SumsAreMonotone
    <2> QED BY <1>1, <2>1, <2>4, <2>6, <2>7
  <1> QED BY <1>3, <1>4

LEMMA ShapeErrorsAreDeserved ==
  ASSUME NEW d \in Documents
  PROVE  /\ "MAX_DEPTH_EXCEEDED" \in ShapeErrors(d) /\ MaxDepth > 0 => Depth(d) > MaxDepth \/ Hollow(d)
         /\ "MAX_FIELDS_EXCEEDED" \in ShapeErrors(d) => Cardinality(Leaves(d)) > MaxFields
  <1>1. /\ IsSequence(d.op) /\ ToSet(d.op) \subseteq DataNodes(d)
        /\ MaxFields \in Nat /\ Cardinality(Leaves(d)) \in Nat
    BY DocumentTyped, DataClosed, DocumentsAssumption, DepthMeans, FS_CardinalityType DEF LeafSets
  <1>2. ASSUME NEW code \in Check(d, d.op)
        PROVE  /\ code = "MAX_DEPTH_EXCEEDED" /\ MaxDepth > 0 => Depth(d) > MaxDepth \/ Hollow(d)
               /\ code = "MAX_FIELDS_EXCEEDED" => Cardinality(Leaves(d)) > MaxFields
    <2>1. 0 \in Nat
      OBVIOUS
    <2> QED BY <1>1, <1>2, <2>1, ChecksAreDeserved DEF Leaves
  <1>3. ASSUME NEW f \in DataFragments(d), NEW code \in Check(d, d.frags[f].sel)
        PROVE  /\ code = "MAX_DEPTH_EXCEEDED" /\ MaxDepth > 0 => Depth(d) > MaxDepth \/ Hollow(d)
               /\ code = "MAX_FIELDS_EXCEEDED" => Cardinality(Leaves(d)) > MaxFields
    <2>1. PICK n \in DataNodes(d) : n.kind = "spread" /\ n.name = f
      BY FragmentsAssumption DEF DataFragments
    <2>2. n \in NodesOf(d) /\ NotMeta(n) /\ ~IsLeaf(n) /\ Below(d, n) = d.frags[f].sel
      BY <2>1, DataClosed DEF NotMeta, IsMeta, IsLeaf, Below
    <2>3. IsSequence(d.frags[f].sel) /\ ToSet(d.frags[f].sel) \subseteq DataNodes(d)
      BY <2>1, <2>2, DataClosed, NodesTyped
    <2>4. 0 \in Nat /\ LeavesBelow[d][n] = LeavesOfAll(d.frags[f].sel, LeavesBelow[d], 0)
      BY <2>1, <2>2, LeavesOfNode
    <2>5. Cardinality(LeavesBelow[d][n]) <= Cardinality(Leaves(d))
      BY LeavesInPlace
    <2>6. Cardinality(LeavesBelow[d][n]) \in Nat
      BY <2>2, LeavesOfNode, FS_CardinalityType DEF LeafSets
    <2>7. /\ code = "MAX_DEPTH_EXCEEDED" /\ MaxDepth > 0 => Depth(d) > MaxDepth \/ Hollow(d)
          /\ code = "MAX_FIELDS_EXCEEDED" => Cardinality(LeavesBelow[d][n]) > MaxFields
      BY <1>3, <2>3, <2>4, ChecksAreDeserved
    <2> QED BY <1>1, <2>5, <2>6, <2>7
  <1> QED BY <1>2, <1>3 DEF ShapeErrors, DataFragments

-----------------------------------------------------------------------------
(* Pages. *)

LEMMA CollectTyped ==
  ASSUME NEW d \in Documents
  PROVE  Collect(d, d.op) \in Seq(FieldNodes(d))
  <1> DEFINE q == [i \in DOMAIN d.op |-> Collected[d][d.op[i]]]
  <1>1. IsSequence(d.op) /\ ToSet(d.op) \subseteq NodesOf(d)
    BY DocumentTyped
  <1>2. Len(d.op) \in Nat /\ q \in [1 .. Len(d.op) -> Seq(FieldNodes(d))]
    <2>1. Collected[d] \in [NodesOf(d) -> Seq(FieldNodes(d))]
      BY CollectedEquation
    <2>2. \A i \in DOMAIN d.op : Collected[d][d.op[i]] \in Seq(FieldNodes(d))
      BY <1>1, <2>1, Elements
    <2> QED BY <1>1, <2>2, Elements
  <1>3. FlattenSeq(q) \in Seq(FieldNodes(d))
    <2> HIDE DEF q
    <2> QED BY <1>2, FlattenTyped
  <1> QED BY <1>3 DEF Collect

(* The node that a root field is resolved from is one of the document. *)
LEMMA TopInPlace ==
  ASSUME NEW d \in Documents, NEW t \in Roots(d)
  PROVE  Top(d, t) \in NodesOf(d)
  <1> DEFINE q == Collect(d, d.op)
             S == Found(q, t)
  <1>1. q \in Seq(FieldNodes(d))
    BY CollectTyped
  <1>2. /\ DOMAIN q = 1 .. Len(q) /\ Len(q) \in Nat
        /\ \A i \in DOMAIN q : q[i] \in FieldNodes(d)
    <2> HIDE DEF q
    <2> QED BY <1>1, LenProperties, ElementOfSeq
  <1>3. PICK n \in ToSet(q) : n.name = t
    BY DEF Roots, NamesOf
  <1>4. PICK i \in DOMAIN q : n = q[i]
    BY <1>3 DEF ToSet
  <1>5. i \in S
    BY <1>2, <1>3, <1>4 DEF Found, FieldNodes
  <1>6. S \in SUBSET Nat
    BY <1>2 DEF Found
  <1>7. Min(S) \in S
    <2> HIDE DEF S
    <2> QED BY <1>5, <1>6, LeastOf
  <1>8. Min(S) \in DOMAIN q
    BY <1>7 DEF Found
  <1>9. Top(d, t) = q[Min(S)]
    BY DEF Top, First
  <1> QED BY <1>2, <1>8, <1>9 DEF FieldNodes

LEMMA FirstIsCapped ==
  ASSUME NEW d \in Documents, NEW n \in NodesOf(d), NEW v \in Variables
  PROVE  EffectiveFirst(Bound(n.first, v)) <= MaxLimit
  <1> DEFINE asked == IF Bound(n.first, v) = None THEN DefaultLimit ELSE Bound(n.first, v)
             T == {asked, MaxLimit}
  <1>1. Bound(n.first, v) \in Nat \cup {None}
    BY NodesTyped, DocumentsAssumption DEF Bound
  <1>2. T \in SUBSET Nat /\ T # {} /\ MaxLimit \in T
    BY <1>1, DocumentsAssumption
  <1>3. Min(T) <= MaxLimit
    <2> HIDE DEF T
    <2> QED BY <1>2, LeastOf
  <1> QED BY <1>3 DEF EffectiveFirst

-----------------------------------------------------------------------------
(* The inductive invariant: what is known of a call at each stage. *)

Record(V) ==
  [stage : V, doc : V, via : V, validate_only : V,
   variable : V, fields : V, errors : V, status : V]

IsCall(r) == \E V : r \in Record(V)

(* None is answered before its document is found to be within the limits. *)
Decided(r) ==
  /\ r.stage \in {"idle", "sent", "refused", "approved", "running", "replied"}
  /\ r.stage = "idle" => r = NotSent
  /\ r.stage # "idle" => r.doc \in Documents /\ r.via \in {"http", "mcp"} /\ r.variable \in Variables
  /\ r.stage \in {"sent", "approved"} => r.errors = {} /\ r.fields = <<>>
  /\ r.stage \in {"sent", "running"} => r.status = None
  /\ r.stage = "refused" =>
       /\ r.errors = GuardErrors(r.doc) /\ r.errors # {}
       /\ r.fields = <<>> /\ r.status \in {"400", "error"}
  /\ r.stage \in {"approved", "running", "replied"} => GuardErrors(r.doc) = {}
  /\ r.stage = "approved" => r.validate_only /\ r.status = "success"

Whole(fields) == \A t \in DOMAIN fields : fields[t].whole

(* Pages are of the document's tables.  A page with bad values leaves an   *)
(* error; an error without such a page has left no data.                   *)
Answered(r) ==
  r.stage \in {"running", "replied"} =>
    /\ DOMAIN r.fields \subseteq Roots(r.doc)
    /\ \A t \in DOMAIN r.fields : r.fields[t].limit <= MaxLimit
    /\ r.errors = {} => Whole(r.fields)
    /\ r.errors # {} => Roots(r.doc) # {} /\ (Whole(r.fields) => DOMAIN r.fields = {})
    /\ r.stage = "replied" =>
         /\ Emptied(r) \/ DOMAIN r.fields = Roots(r.doc)
         /\ r.status = Status(r)

CallInv(r) == IsCall(r) /\ Decided(r) /\ Answered(r)

IInv ==
  /\ calls = [c \in Calls |-> calls[c]]
  /\ \A c \in Calls : CallInv(calls[c])

LEMMA InitIsConsistent ==
  ASSUME Init
  PROVE  IInv
  <1>1. IsCall(NotSent)
    <2> DEFINE V == {"idle", None, "http", FALSE, <<>>, {}}
    <2>1. NotSent \in Record(V)
      BY DEF Record, NotSent
    <2> QED BY <2>1 DEF IsCall
  <1>2. NotSent.stage = "idle"
    BY DEF NotSent
  <1>3. CallInv(NotSent)
    BY <1>1, <1>2 DEF CallInv, Decided, Answered
  <1> QED BY <1>3 DEF Init, IInv

(* A step changes one call. *)
LEMMA OneCallAtATime ==
  ASSUME IInv, NEW c \in Calls, NEW r, CallInv(r), calls' = [calls EXCEPT ![c] = r]
  PROVE  IInv'
  <1>1. calls' = [b \in Calls |-> IF b = c THEN r ELSE calls[b]]
    BY DEF IInv
  <1>2. ASSUME NEW b \in Calls
        PROVE  CallInv(calls'[b])
    BY <1>1 DEF IInv
  <1>3. calls' = [b \in Calls |-> calls'[b]]
    BY <1>1
  <1> QED BY <1>2, <1>3 DEF IInv, CallInv, IsCall, Record, Decided, Answered, Status

LEMMA StepsKeepConsistent ==
  ASSUME IInv, [Next]_calls
  PROVE  IInv'
  <1>0. ASSUME UNCHANGED calls
        PROVE  IInv'
    <2>1. calls' = [c \in Calls |-> calls'[c]] /\ \A c \in Calls : CallInv(calls'[c])
      BY <1>0 DEF IInv
    <2> QED BY <2>1 DEF IInv, CallInv, IsCall, Record, Decided, Answered, Status
  <1>1. ASSUME NEW c \in Calls, NEW d \in Documents, NEW via \in {"http", "mcp"},
               NEW only \in BOOLEAN, NEW v \in Variables, Send(c, d, via, only, v)
        PROVE  IInv'
    <2> DEFINE s == [NotSent EXCEPT !.stage = "sent", !.doc = d, !.via = via,
                                    !.validate_only = only, !.variable = v]
               V == {"idle", "sent", "http", None, FALSE, <<>>, {}, d, via, only, v}
    <2>1. calls' = [calls EXCEPT ![c] = s]
      BY <1>1 DEF Send
    <2>2. /\ s \in Record(V)
          /\ s.stage = "sent" /\ s.doc = d /\ s.via = via /\ s.variable = v
          /\ s.errors = {} /\ s.fields = <<>> /\ s.status = None
      BY DEF Record, NotSent
    <2> HIDE DEF s, V
    <2>3. IsCall(s) /\ Decided(s) /\ Answered(s)
      BY <2>2 DEF IsCall, Decided, Answered
    <2> QED BY <2>1, <2>3, OneCallAtATime DEF CallInv
  <1>2. ASSUME NEW c \in Calls, Refuse(c)
        PROVE  IInv'
    <2>1. PICK r : r = calls[c] /\ IsCall(r) /\ Decided(r) /\ Answered(r) /\ r.stage = "sent"
      BY <1>2 DEF Refuse, IInv, CallInv
    <2>2. PICK V : r \in Record(V)
      BY <2>1 DEF IsCall
    <2> DEFINE s == [r EXCEPT !.stage = "refused", !.errors = GuardErrors(r.doc),
                          !.status = IF r.via = "http" THEN "400" ELSE "error"]
               More == V \cup {"refused", "400", "error", GuardErrors(r.doc)}
    <2>3. calls' = [calls EXCEPT ![c] = s]
      BY <1>2, <2>1 DEF Refuse, IInv, ValidationErrors
    <2>4. /\ s \in Record(More)
          /\ s.doc = r.doc /\ s.via = r.via /\ s.variable = r.variable
          /\ s.validate_only = r.validate_only
          /\ s.stage = "refused" /\ s.errors = GuardErrors(r.doc) /\ s.fields = r.fields
          /\ s.status \in {"400", "error"}
      BY <2>2 DEF Record
    <2> HIDE DEF s, More
    <2>5. IsCall(s)
      BY <2>4 DEF IsCall
    <2>6. Decided(s)
      BY <1>2, <2>1, <2>4 DEF Refuse, ValidationErrors, Decided
    <2>7. Answered(s)
      BY <2>4 DEF Answered
    <2> QED BY <2>3, <2>5, <2>6, <2>7, OneCallAtATime DEF CallInv
  <1>3. ASSUME NEW c \in Calls, Approve(c)
        PROVE  IInv'
    <2>1. PICK r : r = calls[c] /\ IsCall(r) /\ Decided(r) /\ Answered(r) /\ r.stage = "sent"
      BY <1>3 DEF Approve, IInv, CallInv
    <2>2. PICK V : r \in Record(V)
      BY <2>1 DEF IsCall
    <2> DEFINE s == [r EXCEPT !.stage = "approved", !.status = "success"]
               More == V \cup {"approved", "success"}
    <2>3. calls' = [calls EXCEPT ![c] = s]
      BY <1>3, <2>1 DEF Approve, IInv, ValidationErrors
    <2>4. /\ s \in Record(More)
          /\ s.doc = r.doc /\ s.via = r.via /\ s.variable = r.variable
          /\ s.validate_only = r.validate_only
          /\ s.stage = "approved" /\ s.errors = r.errors /\ s.fields = r.fields
          /\ s.status = "success"
      BY <2>2 DEF Record
    <2> HIDE DEF s, More
    <2>5. IsCall(s)
      BY <2>4 DEF IsCall
    <2>6. Decided(s)
      BY <1>3, <2>1, <2>4 DEF Approve, ValidationErrors, Decided
    <2>7. Answered(s)
      BY <2>4 DEF Answered
    <2> QED BY <2>3, <2>5, <2>6, <2>7, OneCallAtATime DEF CallInv
  <1>4. ASSUME NEW c \in Calls, Execute(c)
        PROVE  IInv'
    <2>1. PICK r : r = calls[c] /\ IsCall(r) /\ Decided(r) /\ Answered(r) /\ r.stage = "sent"
      BY <1>4 DEF Execute, IInv, CallInv
    <2>2. PICK V : r \in Record(V)
      BY <2>1 DEF IsCall
    <2> DEFINE s == [r EXCEPT !.stage = "running"]
               More == V \cup {"running"}
    <2>3. calls' = [calls EXCEPT ![c] = s]
      BY <1>4, <2>1 DEF Execute, IInv, ValidationErrors
    <2>4. /\ s \in Record(More)
          /\ s.doc = r.doc /\ s.via = r.via /\ s.variable = r.variable
          /\ s.validate_only = r.validate_only
          /\ s.stage = "running" /\ s.errors = r.errors /\ s.fields = r.fields
          /\ s.status = r.status
      BY <2>2 DEF Record
    <2> HIDE DEF s, More
    <2>5. IsCall(s)
      BY <2>4 DEF IsCall
    <2>6. Decided(s)
      BY <1>4, <2>1, <2>4 DEF Execute, ValidationErrors, Decided
    <2>7. Answered(s)
      <3>1. s.errors = {} /\ DOMAIN s.fields = {}
        BY <2>1, <2>4 DEF Decided
      <3> QED BY <2>4, <3>1 DEF Answered, Whole
    <2> QED BY <2>3, <2>5, <2>6, <2>7, OneCallAtATime DEF CallInv
  <1>5. ASSUME NEW c \in Calls, NEW t, NEW outcome, ResolveToPage(c, t, outcome)
        PROVE  IInv'
    <2>1. PICK r : r = calls[c] /\ IsCall(r) /\ Decided(r) /\ Answered(r) /\ r.stage = "running"
      BY <1>5 DEF ResolveToPage, Resolves, IInv, CallInv
    <2>2. PICK V : r \in Record(V)
      BY <2>1 DEF IsCall
    <2>3. /\ t \in Roots(r.doc) /\ t \notin DOMAIN r.fields /\ ~Emptied(r)
          /\ r.doc \in Documents /\ r.variable \in Variables
      BY <1>5, <2>1 DEF ResolveToPage, Resolves, Resolved, Decided
    <2> DEFINE top == Top(r.doc, t)
               page == [limit |-> EffectiveFirst(Bound(top.first, r.variable)),
                        columns |-> Columns(top),
                        whole |-> outcome = "rows"]
               pages == WithPage(r.fields, t, page)
               errors == r.errors \cup (IF page.whole THEN {} ELSE {"BAD_VALUE"})
               s == [r EXCEPT !.fields = pages, !.errors = errors]
               More == V \cup {pages, errors}
    <2>4. page.limit <= MaxLimit
      BY <2>3, TopInPlace, FirstIsCapped
    <2>5. calls' = [calls EXCEPT ![c] = s]
      BY <1>5, <2>1 DEF ResolveToPage, IInv
    <2>6. errors = {} => page.whole /\ r.errors = {}
      OBVIOUS
    <2>7. errors # {} => r.errors # {} \/ ~page.whole
      OBVIOUS
    <2> HIDE DEF page, errors
    <2>8. /\ DOMAIN pages = DOMAIN r.fields \cup {t}
          /\ pages[t] = page
          /\ \A b \in DOMAIN r.fields : pages[b] = r.fields[b]
      BY <2>3 DEF WithPage
    <2> HIDE DEF pages
    <2>9. /\ s \in Record(More)
          /\ s.doc = r.doc /\ s.via = r.via /\ s.variable = r.variable
          /\ s.stage = r.stage /\ s.status = r.status /\ s.errors = errors
          /\ s.fields = pages
      BY <2>2 DEF Record
    <2> HIDE DEF s, More
    <2>10. IsCall(s)
      BY <2>9 DEF IsCall
    <2>11. Decided(s)
      BY <2>1, <2>9 DEF Decided
    <2>12. Answered(s)
      <3>1. /\ DOMAIN r.fields \subseteq Roots(r.doc)
            /\ \A b \in DOMAIN r.fields : r.fields[b].limit <= MaxLimit
            /\ r.errors = {} => Whole(r.fields)
            /\ r.errors # {} => (Whole(r.fields) => DOMAIN r.fields = {})
        BY <2>1 DEF Answered
      <3>2. DOMAIN pages \subseteq Roots(r.doc) /\ Roots(r.doc) # {}
        BY <2>3, <2>8, <3>1
      <3>3. \A b \in DOMAIN pages : pages[b].limit <= MaxLimit
        BY <2>4, <2>8, <3>1
      <3>4. errors = {} => Whole(pages)
        BY <2>6, <2>8, <3>1 DEF Whole
      <3>5. errors # {} => ~Whole(pages)
        <4>1. CASE r.errors # {}
          <5>1. ~Whole(r.fields)
            BY <2>3, <3>1, <4>1 DEF Emptied
          <5> QED BY <2>8, <5>1 DEF Whole
        <4>2. CASE r.errors = {}
          BY <2>7, <2>8, <4>2 DEF Whole
        <4> QED BY <4>1, <4>2
      <3> QED BY <2>1, <2>9, <3>2, <3>3, <3>4, <3>5 DEF Answered
    <2> QED BY <2>5, <2>10, <2>11, <2>12, OneCallAtATime DEF CallInv
  <1>5a. ASSUME NEW c \in Calls, NEW t, NEW outcome, ResolveToError(c, t, outcome)
         PROVE  IInv'
    <2>1. PICK r : r = calls[c] /\ IsCall(r) /\ Decided(r) /\ Answered(r) /\ r.stage = "running"
      BY <1>5a DEF ResolveToError, Resolves, IInv, CallInv
    <2>2. PICK V : r \in Record(V)
      BY <2>1 DEF IsCall
    <2>3. t \in Roots(r.doc)
      BY <1>5a, <2>1 DEF ResolveToError, Resolves
    <2> DEFINE errors == r.errors \cup {outcome}
               s == [r EXCEPT !.fields = <<>>, !.errors = errors]
               More == V \cup {<<>>, errors}
    <2>4. calls' = [calls EXCEPT ![c] = s]
      BY <1>5a, <2>1 DEF ResolveToError, IInv
    <2>5. errors # {}
      OBVIOUS
    <2> HIDE DEF errors
    <2>6. /\ s \in Record(More)
          /\ s.doc = r.doc /\ s.via = r.via /\ s.variable = r.variable
          /\ s.stage = r.stage /\ s.status = r.status /\ s.errors = errors
          /\ s.fields = <<>>
      BY <2>2 DEF Record
    <2> HIDE DEF s, More
    <2>7. IsCall(s)
      BY <2>6 DEF IsCall
    <2>8. Decided(s)
      BY <2>1, <2>6 DEF Decided
    <2>9. Answered(s)
      <3>1. DOMAIN s.fields = {}
        BY <2>6
      <3> QED BY <2>1, <2>3, <2>5, <2>6, <3>1 DEF Answered
    <2> QED BY <2>4, <2>7, <2>8, <2>9, OneCallAtATime DEF CallInv
  <1>6. ASSUME NEW c \in Calls, Reply(c)
        PROVE  IInv'
    <2>1. PICK r : r = calls[c] /\ IsCall(r) /\ Decided(r) /\ Answered(r) /\ r.stage = "running"
      BY <1>6 DEF Reply, IInv, CallInv
    <2>2. PICK V : r \in Record(V)
      BY <2>1 DEF IsCall
    <2> DEFINE s == [r EXCEPT !.stage = "replied", !.status = Status(r)]
               More == V \cup {"replied", Status(r)}
    <2>3. calls' = [calls EXCEPT ![c] = s]
      BY <1>6, <2>1 DEF Reply, IInv, ValidationErrors
    <2>4. /\ s \in Record(More)
          /\ s.doc = r.doc /\ s.via = r.via /\ s.variable = r.variable
          /\ s.validate_only = r.validate_only
          /\ s.stage = "replied" /\ s.errors = r.errors /\ s.fields = r.fields
          /\ s.status = Status(r)
      BY <2>2 DEF Record
    <2> HIDE DEF s, More
    <2>5. IsCall(s)
      BY <2>4 DEF IsCall
    <2>6. Decided(s)
      BY <2>1, <2>4 DEF Decided
    <2>7. Answered(s)
      BY <1>6, <2>1, <2>4 DEF Reply, Resolved, Answered, Status, Emptied
    <2> QED BY <2>3, <2>5, <2>6, <2>7, OneCallAtATime DEF CallInv
  <1>7. CASE Next
    BY <1>1, <1>2, <1>3, <1>4, <1>5, <1>5a, <1>6, <1>7 DEF Next, Resolve
  <1> QED BY <1>0, <1>7

LEMMA Consistency ==
  Spec => []IInv
  <1>1. Init => IInv
    BY InitIsConsistent
  <1>2. IInv /\ [Next]_calls => IInv'
    BY StepsKeepConsistent
  <1> QED BY <1>1, <1>2, PTL DEF Spec

-----------------------------------------------------------------------------
(* Theorems. *)

(***************************************************************************)
(* What runs is within the limits, of any configuration and any documents: *)
(* no page has more rows than query_max_limit, and without named fragments *)
(* no document is deeper or wider than what the guards let through; each   *)
(* fragment of data adds at most one limit to the depth.                   *)
(***************************************************************************)
THEOREM RunsWithinLimitsAlways ==
  Spec => []RunsWithinLimits
  <1>1. ASSUME IInv
        PROVE  RunsWithinLimits
    <2> SUFFICES ASSUME NEW c \in Calls, Ran(c)
                 PROVE  LET d == calls[c].doc
                        IN  /\ Depth(d) <= MaxDepth * (1 + Cardinality(DataFragments(d)))
                            /\ DataFragments(d) = {} => Cardinality(Leaves(d)) <= MaxFields
                            /\ \A t \in Resolved(c) : calls[c].fields[t].limit <= MaxLimit
      BY DEF RunsWithinLimits
    <2>1. calls[c].doc \in Documents /\ GuardErrors(calls[c].doc) = {}
      BY <1>1 DEF Ran, IInv, CallInv, Decided
    <2>2. ShapeErrors(calls[c].doc) = {}
      BY <2>1 DEF GuardErrors
    <2>3. \A t \in Resolved(c) : calls[c].fields[t].limit <= MaxLimit
      BY <1>1 DEF Ran, IInv, CallInv, Answered, Resolved
    <2> QED BY <2>1, <2>2, <2>3, DepthWithinLimits, WidthWithinLimits
  <1> QED BY <1>1, Consistency, PTL

(***************************************************************************)
(* No document is refused for its shape that is within the limits: what    *)
(* the guards count of it, or of one of its fragments, it really has.  A   *)
(* query_max_depth of 0 is left out: it refuses introspection too, when a  *)
(* fragment asks for it.                                                   *)
(***************************************************************************)
THEOREM RefusalsAreDeservedAlways ==
  ASSUME MaxDepth > 0
  PROVE  Spec => []RefusalsAreDeserved
  <1>1. ASSUME IInv
        PROVE  RefusalsAreDeserved
    <2> SUFFICES ASSUME NEW c \in Calls, calls[c].stage = "refused"
                 PROVE  LET d == calls[c].doc
                        IN  /\ "MAX_DEPTH_EXCEEDED" \in calls[c].errors => Depth(d) > MaxDepth \/ Hollow(d)
                            /\ "MAX_FIELDS_EXCEEDED" \in calls[c].errors =>
                                 Cardinality(Leaves(d)) > MaxFields
      BY DEF RefusalsAreDeserved
    <2>1. calls[c].doc \in Documents /\ calls[c].errors = GuardErrors(calls[c].doc)
      BY <1>1 DEF IInv, CallInv, Decided
    <2>2. ASSUME NEW code \in {"MAX_DEPTH_EXCEEDED", "MAX_FIELDS_EXCEEDED"}, code \in calls[c].errors
          PROVE  code \in ShapeErrors(calls[c].doc)
      BY <2>1, <2>2 DEF GuardErrors, LimitErrors
    <2> QED BY <2>1, <2>2, ShapeErrorsAreDeserved
  <1> QED BY <1>1, Consistency, PTL

(***************************************************************************)
(* The two interfaces give the same verdict on a document, and a document  *)
(* that validate_only approved is not refused when it is run.              *)
(***************************************************************************)
THEOREM InterfacesAgreeAlways ==
  Spec => []InterfacesAgree
  <1>1. ASSUME IInv
        PROVE  InterfacesAgree
    <2> SUFFICES ASSUME NEW b \in Calls, NEW c \in Calls,
                        calls[b].doc = calls[c].doc, calls[b].stage = "refused"
                 PROVE  /\ calls[c].stage \in {"sent", "refused"}
                        /\ calls[c].stage = "refused" => calls[b].errors = calls[c].errors
      BY DEF InterfacesAgree
    <2>1. /\ calls[b].doc \in Documents /\ GuardErrors(calls[b].doc) # {}
          /\ calls[b].errors = GuardErrors(calls[b].doc)
      BY <1>1 DEF IInv, CallInv, Decided
    <2>2. calls[c].stage # "idle"
      <3>1. ASSUME calls[c] = NotSent
            PROVE  calls[c].doc = None
        BY <3>1 DEF NotSent
      <3> QED BY <1>1, <2>1, <3>1, DocumentsAssumption DEF IInv, CallInv, Decided
    <2> QED BY <1>1, <2>1, <2>2 DEF IInv, CallInv, Decided
  <1> QED BY <1>1, Consistency, PTL

(***************************************************************************)
(* For any documents: an answer has errors exactly if it is not complete,  *)
(* and all its tables or none; 503 is the answer to a full pool and to     *)
(* nothing else; what is counted as a success is complete or was found fit *)
(* to run.                                                                 *)
(***************************************************************************)
THEOREM RepliesTellFailuresAlways ==
  Spec => []RepliesTellFailures
  <1>1. ASSUME IInv
        PROVE  RepliesTellFailures
    <2> SUFFICES ASSUME NEW c \in Calls, NEW r, r = calls[c]
                 PROVE  /\ r.stage = "replied" =>
                             /\ r.errors = {} <=> DOMAIN r.fields = Roots(r.doc) /\ Whole(r.fields)
                             /\ DOMAIN r.fields \in {{}, Roots(r.doc)}
                        /\ r.status = "503" <=>
                             /\ r.stage = "replied" /\ r.via = "http"
                             /\ "POOL_TIMEOUT" \in r.errors
                        /\ r.status = "success" =>
                             \/ /\ r.stage = "replied"
                                /\ DOMAIN r.fields = Roots(r.doc) /\ Whole(r.fields)
                             \/ r.validate_only /\ GuardErrors(r.doc) = {}
      BY DEF RepliesTellFailures, Complete, Resolved, Whole
    <2>1. Decided(r) /\ Answered(r) /\ None \notin {"503", "success"}
      BY <1>1, DocumentsAssumption DEF IInv, CallInv
    <2>2. CASE r.stage = "idle"
      <3>1. r.status = None /\ r.errors = {} /\ r.stage = "idle"
        BY <2>1, <2>2 DEF Decided, NotSent
      <3> QED BY <2>1, <3>1
    <2>3. CASE r.stage \in {"sent", "refused", "approved"}
      BY <2>1, <2>3 DEF Decided
    <2>4. CASE r.stage = "running"
      BY <2>1, <2>4 DEF Decided
    <2>5. CASE r.stage = "replied"
      <3>1. r.errors = {} <=> DOMAIN r.fields = Roots(r.doc) /\ Whole(r.fields)
        BY <2>1, <2>5 DEF Answered, Emptied
      <3>2. DOMAIN r.fields \in {{}, Roots(r.doc)}
        BY <2>1, <2>5 DEF Answered, Emptied
      <3>3. r.status = Status(r) /\ (r.via = "http" \/ r.via = "mcp")
        BY <2>1, <2>5 DEF Answered, Decided
      <3> QED BY <2>5, <3>1, <3>2, <3>3 DEF Status
    <2> QED BY <2>1, <2>2, <2>3, <2>4, <2>5 DEF Decided
  <1> QED BY <1>1, Consistency, PTL

=============================================================================
