--------------------------------- MODULE Trees ---------------------------------
(***************************************************************************)
(* Facts about numbers, finite sets and trees that the proofs of several   *)
(* modules rest on.  They take the place of induction: a set of numbers    *)
(* has a least one, a set of trees has a lowest one, and a function whose  *)
(* value at a tree depends on its values at the sub-trees exists.          *)
(***************************************************************************)
EXTENDS Naturals, FiniteSets, FiniteSetTheorems, WellFoundedInduction, TLAPS

LEMMA LeastNumber ==
  ASSUME NEW T \in SUBSET Nat, T # {}
  PROVE  \E x \in T : \A y \in T : ~(y < x)
  <1>1. PICK x \in T : \A y \in T : <<y, x>> \notin OpToRel(<, Nat)
    BY NatLessThanWellFounded, WFMin
  <1>2. \A y \in T : y < x => <<y, x>> \in OpToRel(<, Nat)
    BY DEF OpToRel
  <1> QED BY <1>1, <1>2

LEMMA GreatestNumber ==
  ASSUME NEW T \in SUBSET Nat, T # {}, NEW b \in Nat, \A y \in T : y <= b
  PROVE  \E x \in T : \A y \in T : y <= x
  <1> DEFINE D == {b - y : y \in T}
  <1>1. D \in SUBSET Nat /\ D # {}
    <2>1. \A y \in T : b - y \in Nat
      OBVIOUS
    <2> QED BY <2>1
  <1>2. PICK d \in D : \A y \in D : ~(y < d)
    BY <1>1, LeastNumber
  <1>3. PICK x \in T : d = b - x
    BY <1>2
  <1>4. ASSUME NEW y \in T
        PROVE  y <= x
    <2>1. ~(b - y < b - x)
      BY <1>2, <1>3
    <2> QED BY <2>1
  <1> QED BY <1>4

(* Numbers that have a property at 0, and with n at n + 1, all have it. *)
LEMMA AllNumbers ==
  ASSUME NEW P \in SUBSET Nat, 0 \in P, \A n \in P : n + 1 \in P
  PROVE  P = Nat
  <1>1. ASSUME Nat \ P # {}
        PROVE  FALSE
    <2>1. PICK top \in Nat \ P : \A y \in Nat \ P : ~(y < top)
      BY <1>1, LeastNumber
    <2>2. PICK m \in Nat : top = m + 1
      BY <2>1
    <2>3. m \in P
      BY <2>1, <2>2
    <2> QED BY <2>1, <2>2, <2>3
  <1> QED BY <1>1

-----------------------------------------------------------------------------
(* N are trees, kids[n] what is right below the tree n. *)

IsForest(N, kids, height) ==
  /\ kids \in [N -> SUBSET N]
  /\ height \in [N -> Nat]
  /\ \A n \in N : \A k \in kids[n] : height[k] < height[n]

(* Trees with a property have a lowest one, below which none has it. *)
LEMMA LowestTree ==
  ASSUME NEW N, NEW kids, NEW height, IsForest(N, kids, height),
         NEW T \in SUBSET N, T # {}
  PROVE  \E n \in T : kids[n] \cap T = {}
  <1> USE DEF IsForest
  <1> DEFINE H == {height[n] : n \in T}
  <1>1. H \in SUBSET Nat /\ H # {}
    OBVIOUS
  <1>2. PICK h \in H : \A y \in H : ~(y < h)
    BY <1>1, LeastNumber
  <1>3. PICK n \in T : height[n] = h
    BY <1>2
  <1>4. ASSUME NEW k \in kids[n] \cap T
        PROVE  FALSE
    <2>1. height[k] < height[n]
      OBVIOUS
    <2> QED BY <1>2, <1>3, <2>1
  <1> QED BY <1>4

(* F is in V at a tree when it is at the sub-trees: then it is at every tree. *)
PassedUp(N, kids, V, F) ==
  /\ F = [n \in N |-> F[n]]
  /\ \A n \in N : (\A k \in kids[n] : F[k] \in V) => F[n] \in V

LEMMA TypedByKids ==
  ASSUME NEW N, NEW kids, NEW height, IsForest(N, kids, height),
         NEW V, NEW F, PassedUp(N, kids, V, F)
  PROVE  F \in [N -> V]
  <1> USE DEF PassedUp
  <1> DEFINE T == {n \in N : F[n] \notin V}
  <1>1. T \in SUBSET N
    OBVIOUS
  <1>2. ASSUME T # {}
        PROVE  FALSE
    <2>1. PICK n \in T : kids[n] \cap T = {}
      <3> HIDE DEF T
      <3> QED BY <1>1, <1>2, LowestTree
    <2>2. \A k \in kids[n] : k \in N
      BY DEF IsForest
    <2> QED BY <2>1, <2>2
  <1>3. \A n \in N : F[n] \in V
    BY <1>2
  <1> QED BY <1>3

(***************************************************************************)
(* Recursion over trees: when the value of a tree only depends on those of *)
(* its sub-trees, there is a function that satisfies the equation.  H says *)
(* what a tree is worth, given the worth of others.                        *)
(***************************************************************************)
OfKidsOnly(N, kids, V, H) ==
  /\ V # {} /\ H \in [N -> [[N -> V] -> V]]
  /\ \A n \in N : \A g, h \in [N -> V] :
       (\A k \in kids[n] : g[k] = h[k]) => H[n][g] = H[n][h]

Solutions(N, V, H) == {g \in [N -> V] : \A n \in N : g[n] = H[n][g]}

LEMMA TreeRecursion ==
  ASSUME NEW N, NEW kids, NEW height, IsForest(N, kids, height),
         NEW V, NEW H, OfKidsOnly(N, kids, V, H)
  PROVE  Solutions(N, V, H) # {}
  <1> DEFINE Below(g, d) == \A n \in N : height[n] < d => g[n] = H[n][g]
             Solvable(d) == \E g \in [N -> V] : Below(g, d)
  <1>f. /\ \A n \in N : height[n] \in Nat
        /\ \A n \in N : \A k \in kids[n] : k \in N /\ height[k] \in Nat /\ height[k] < height[n]
    BY DEF IsForest
  <1>h. /\ V # {} /\ H \in [N -> [[N -> V] -> V]]
        /\ \A n \in N : \A g, h \in [N -> V] :
             (\A k \in kids[n] : g[k] = h[k]) => H[n][g] = H[n][h]
    BY DEF OfKidsOnly
  (* there is a solution for the trees below each height *)
  <1>1. Solvable(0)
    <2>1. PICK v \in V : TRUE
      BY <1>h
    <2>2. [n \in N |-> v] \in [N -> V]
      BY <2>1
    <2>3. Below([n \in N |-> v], 0)
      <3> SUFFICES ASSUME NEW n \in N, height[n] < 0
                   PROVE  FALSE
        OBVIOUS
      <3> QED BY <1>f
    <2> QED BY <2>2, <2>3
  <1>2. ASSUME NEW m \in Nat, Solvable(m)
        PROVE  Solvable(m + 1)
    <2>1. PICK g \in [N -> V] : Below(g, m)
      BY <1>2
    <2> DEFINE h == [n \in N |-> H[n][g]]
    <2>2. h \in [N -> V]
      BY <1>h
    <2>3. ASSUME NEW n \in N, height[n] < m + 1
          PROVE  h[n] = H[n][h]
      <3>1. ASSUME NEW k \in kids[n]
            PROVE  h[k] = g[k]
        <4>1. k \in N /\ height[k] \in Nat /\ height[k] < height[n]
          BY <1>f
        <4>2. height[k] < m
          BY <1>f, <2>3, <4>1
        <4>3. g[k] = H[k][g]
          BY <2>1, <4>1, <4>2
        <4> QED BY <4>1, <4>3
      <3>2. h[n] = H[n][g]
        OBVIOUS
      <3> HIDE DEF h
      <3> QED BY <1>h, <2>2, <3>1, <3>2
    <2> HIDE DEF h
    <2> QED BY <2>2, <2>3
  <1>3. \A d \in Nat : Solvable(d)
    <2> HIDE DEF Solvable
    <2> DEFINE P == {d \in Nat : Solvable(d)}
    <2>1. 0 \in P /\ \A n \in P : n + 1 \in P
      BY <1>1, <1>2
    <2>2. P = Nat
      BY <2>1, AllNumbers
    <2> QED BY <2>2
  (* and it is unique there *)
  <1>4. ASSUME NEW d \in Nat, NEW g \in [N -> V], NEW h \in [N -> V],
               Below(g, d), Below(h, d),
               NEW n \in N, height[n] < d
        PROVE  g[n] = h[n]
    <2> DEFINE T == {x \in N : height[x] < d /\ g[x] # h[x]}
    <2>1. ASSUME T # {}
          PROVE  FALSE
      <3>1. PICK x \in T : kids[x] \cap T = {}
        <4>1. T \in SUBSET N
          OBVIOUS
        <4> HIDE DEF T
        <4> QED BY <2>1, <4>1, LowestTree
      <3>2. ASSUME NEW k \in kids[x]
            PROVE  g[k] = h[k]
        <4>1. k \in N /\ height[k] \in Nat /\ height[k] < height[x]
          BY <1>f
        <4>2. height[k] < d
          BY <1>f, <4>1
        <4> QED BY <3>1, <4>1, <4>2
      <3>3. H[x][g] = H[x][h]
        BY <1>h, <3>2
      <3> QED BY <1>4, <3>3
    <2> QED BY <1>4, <2>1
  (* so that solutions for single trees fit together *)
  <1> DEFINE At(n) == CHOOSE g \in [N -> V] : Below(g, height[n] + 1)
             G == [n \in N |-> At(n)[n]]
  <1>5. ASSUME NEW n \in N
        PROVE  At(n) \in [N -> V] /\ Below(At(n), height[n] + 1)
    <2>1. height[n] + 1 \in Nat
      BY <1>f
    <2>2. Solvable(height[n] + 1)
      <3> HIDE DEF Solvable
      <3> QED BY <1>3, <2>1
    <2> QED BY <2>2
  <1>6. ASSUME NEW n \in N
        PROVE  \A k \in kids[n] : At(n)[k] = At(k)[k]
    <2> TAKE k \in kids[n]
    <2>1. k \in N /\ height[k] \in Nat /\ height[n] \in Nat /\ height[k] < height[n]
      BY <1>f
    <2> DEFINE g == At(n)  h == At(k)  d == height[k] + 1
    <2>2. g \in [N -> V] /\ h \in [N -> V]
      BY <1>5, <2>1
    <2>3. Below(g, height[n] + 1) /\ Below(h, d)
      BY <1>5, <2>1
    <2>4. d \in Nat /\ height[k] < d /\ d < height[n] + 1
      BY <2>1
    <2> HIDE DEF g, h, d, At
    <2>5. Below(g, d)
      BY <1>f, <2>1, <2>3, <2>4
    <2>6. g[k] = h[k]
      BY <1>4, <2>1, <2>2, <2>3, <2>4, <2>5
    <2> QED BY <2>6 DEF g, h
  <1>7. ASSUME NEW n \in N
        PROVE  At(n)[n] = H[n][At(n)]
    <2>1. height[n] < height[n] + 1
      BY <1>f
    <2>2. Below(At(n), height[n] + 1)
      BY <1>5
    <2> HIDE DEF At
    <2> QED BY <2>1, <2>2
  <1> HIDE DEF At
  <1>8. G \in [N -> V]
    BY <1>5
  <1>9. ASSUME NEW n \in N
        PROVE  G[n] = H[n][G]
    <2>1. \A k \in kids[n] : At(n)[k] = G[k]
      BY <1>f, <1>6
    <2>2. G[n] = At(n)[n]
      OBVIOUS
    <2> HIDE DEF G
    <2> QED BY <1>h, <1>5, <1>7, <1>8, <2>1, <2>2
  <1> HIDE DEF G
  <1>10. G \in Solutions(N, V, H)
    BY <1>8, <1>9 DEF Solutions
  <1> QED BY <1>10

-----------------------------------------------------------------------------
(* Counting: a value for each number up to n, each from the one before. *)

Counts(n, V, first, step) ==
  {g \in [0 .. n -> V] : /\ g[0] = first
                        /\ \A i \in 1 .. n : g[i] = step[i][g[i - 1]]}

LEMMA Counting ==
  ASSUME NEW n \in Nat, NEW V, NEW first \in V, NEW step \in [1 .. n -> [V -> V]]
  PROVE  Counts(n, V, first, step) # {}
  <1> DEFINE N == 0 .. n
             kids == [i \in N |-> {i - 1} \cap N]
             height == [i \in N |-> i]
             H == [i \in N |-> [g \in [N -> V] |-> IF i = 0 THEN first ELSE step[i][g[i - 1]]]]
  <1>1. IsForest(N, kids, height)
    BY DEF IsForest
  <1>2. \A i \in N : i # 0 => i \in 1 .. n /\ i - 1 \in N /\ i - 1 \in kids[i]
    OBVIOUS
  <1>3. OfKidsOnly(N, kids, V, H)
    <2>1. H \in [N -> [[N -> V] -> V]]
      <3> HIDE DEF N, kids
      <3> QED BY <1>2
    <2>2. ASSUME NEW i \in N, NEW g \in [N -> V], NEW h \in [N -> V],
                 \A k \in kids[i] : g[k] = h[k]
          PROVE  H[i][g] = H[i][h]
      <3> HIDE DEF N, kids
      <3> QED BY <1>2, <2>2
    <2> HIDE DEF H, N, kids
    <2> QED BY <2>1, <2>2 DEF OfKidsOnly
  <1> HIDE DEF H
  <1>4. PICK g \in [N -> V] : \A i \in N : g[i] = H[i][g]
    <2> HIDE DEF N, kids, height
    <2>1. Solutions(N, V, H) # {}
      BY <1>1, <1>3, TreeRecursion
    <2> QED BY <2>1 DEF Solutions
  <1>5. \A i \in N : g[i] = IF i = 0 THEN first ELSE step[i][g[i - 1]]
    BY <1>4 DEF H
  <1> QED BY <1>5 DEF Counts

(* A finite set of numbers has a greatest one. *)
LEMMA FiniteIsBounded ==
  ASSUME NEW T \in SUBSET Nat, IsFiniteSet(T)
  PROVE  \E b \in Nat : \A y \in T : y <= b
  <1>1. PICK n \in Nat : ExistsSurjection(1 .. n, T)
    BY FS_NatSurjection
  <1>2. PICK f \in [1 .. n -> T] : \A t \in T : \E i \in 1 .. n : f[i] = t
    BY <1>1 DEF ExistsSurjection, Surjection
  <1>3. \A i \in 1 .. n : f[i] \in Nat
    OBVIOUS
  <1> DEFINE step == [i \in 1 .. n |-> [v \in Nat |-> v + f[i]]]
  <1>4. PICK g \in Counts(n, Nat, 0, step) : TRUE
    <2>1. step \in [1 .. n -> [Nat -> Nat]]
      BY <1>3
    <2> HIDE DEF step
    <2>2. Counts(n, Nat, 0, step) # {}
      <3>1. 0 \in Nat
        OBVIOUS
      <3> QED BY <2>1, <3>1, Counting
    <2> QED BY <2>2
  <1>5. /\ g \in [0 .. n -> Nat] /\ g[0] = 0
        /\ \A i \in 1 .. n : i - 1 \in 0 .. n /\ g[i] = g[i - 1] + f[i]
    <2>1. /\ g \in [0 .. n -> Nat] /\ g[0] = 0
          /\ \A i \in 1 .. n : g[i] = step[i][g[i - 1]]
      BY <1>4 DEF Counts
    <2>2. ASSUME NEW i \in 1 .. n
          PROVE  i - 1 \in 0 .. n /\ g[i] = g[i - 1] + f[i]
      <3>1. i - 1 \in 0 .. n /\ g[i - 1] \in Nat
        BY <2>1
      <3>2. step[i][g[i - 1]] = g[i - 1] + f[i]
        BY <3>1
      <3> QED BY <2>1, <3>1, <3>2
    <2> QED BY <2>1, <2>2
  <1> DEFINE P == {i \in Nat : i <= n => \A j \in 1 .. i : f[j] <= g[i]}
  <1> HIDE DEF step
  <1>6. 0 \in P
    OBVIOUS
  <1>7. ASSUME NEW i \in P
        PROVE  i + 1 \in P
    <2> SUFFICES ASSUME i + 1 <= n, NEW j \in 1 .. i + 1
                 PROVE  f[j] <= g[i + 1]
      OBVIOUS
    <2>1. g[i + 1] = g[i] + f[i + 1] /\ g[i] \in Nat /\ f[i + 1] \in Nat /\ f[j] \in Nat
      BY <1>3, <1>5
    <2>2. j \in 1 .. i => f[j] <= g[i]
      OBVIOUS
    <2> QED BY <2>1, <2>2
  <1>8. P = Nat
    BY <1>6, <1>7, AllNumbers
  <1>9. g[n] \in Nat /\ \A j \in 1 .. n : f[j] <= g[n]
    <2>1. n \in P
      BY <1>8
    <2> QED BY <1>5, <2>1
  <1> QED BY <1>2, <1>9

LEMMA FiniteHasGreatest ==
  ASSUME NEW T \in SUBSET Nat, T # {}, IsFiniteSet(T)
  PROVE  \E x \in T : \A y \in T : y <= x
  BY FiniteIsBounded, GreatestNumber

=============================================================================
