--------------------------- MODULE SchemaGraphProofs ---------------------------
(***************************************************************************)
(* Proofs about Discovery and SchemaGraph, for any tables, relations and   *)
(* callers, and for every dbt project.                                     *)
(*                                                                         *)
(* find_path returns all shortest joins and nothing else.  Between two     *)
(* rounds the search knows, for each table it reached in the last round,   *)
(* all joins of that many steps (Levels); whatever it has left behind      *)
(* leads only to tables it has seen (Closed), so that a table it has not   *)
(* seen cannot be reached by a join it has not extended.                   *)
(*                                                                         *)
(* What is served is what the project states, under its strongest origin,  *)
(* and what it states and nothing contests is found by find_path.  A       *)
(* declaration is known by the place it stands at.  Places are well        *)
(* ordered by priority (FirstPlace), so that each name has a first place,  *)
(* which is kept, and the kept ones of a column have a last, which is      *)
(* served.                                                                 *)
(***************************************************************************)
EXTENDS SchemaGraph, SequenceTheorems, Trees

(* Joins from the start of the search. *)
JoinsTo(n, t) == Joins(n, asked.from_table, t)

Endpoints ==
  /\ asked.from_table # asked.to_table
  /\ asked.from_table \in visited
  /\ asked.to_table \notin visited

(* The paths of the last round are all the joins of that length. *)
Levels ==
  \A u \in Tables :
    level[u] # {} => /\ u \in visited
                     /\ u # asked.to_table
                     /\ level[u] = JoinsTo(depth, u)

(* Nothing is reached by so many steps that has not been seen. *)
Reached ==
  \A u \in Tables : JoinsTo(depth, u) # {} => u \in visited \/ u = asked.to_table

Shortest ==
  /\ shortest = JoinsTo(depth, asked.to_table)
  /\ \A n \in 0 .. depth - 1 : JoinsTo(n, asked.to_table) = {}

(* What has been left behind leads to what has been seen. *)
Closed ==
  shortest = {} =>
    \A e \in Edges :
      e.from_table \in visited /\ level[e.from_table] = {} => e.to_table \in visited

SearchInv == status = "searching" => Endpoints /\ Levels /\ Reached /\ Shortest /\ Closed

(* AllShortestPaths, without its bound. *)
Complete(paths) ==
  \A n \in Nat :
    /\ JoinsTo(n, asked.to_table) # {} => paths # {} /\ \A p \in paths : Len(p) <= n
    /\ \A p \in paths : Len(p) = n => paths = JoinsTo(n, asked.to_table)

AnswerInv == status = "answered" /\ Permitted => Complete(found)

Inv == TypeOK /\ SearchInv /\ AnswerInv

-----------------------------------------------------------------------------
(* Joins and their last steps. *)

(* Relations and their reversals are steps between tables. *)
LEMMA EdgesAreSteps ==
  ASSUME registry \in SUBSET Steps
  PROVE  \A e \in Edges : e.from_table \in Tables /\ e.to_table \in Tables
BY DEF Edges, Steps, Reversed

(* A join is a sequence of as many edges. *)
LEMMA JoinsAreSequences ==
  ASSUME NEW n \in Nat, NEW s, NEW t, NEW p \in Joins(n, s, t)
  PROVE  p \in Seq(Edges) /\ Len(p) = n
<1>1. p \in [1 .. n -> Edges]
  BY DEF Joins
<1> QED
  BY <1>1

(* One more step from where a join ends. *)
LEMMA ExtendJoin ==
  ASSUME NEW n \in Nat, NEW s, NEW v, NEW p \in Joins(n, s, v),
         NEW e \in Edges, e.from_table = v
  PROVE  Append(p, e) \in Joins(n + 1, s, e.to_table)
<1> DEFINE q == Append(p, e)
<1>1. p \in Seq(Edges) /\ Len(p) = n
  BY JoinsAreSequences
<1>2. /\ q \in Seq(Edges) /\ Len(q) = n + 1
      /\ \A i \in 1 .. n : q[i] = p[i]
      /\ q[n + 1] = e
  BY <1>1, AppendProperties
<1> HIDE DEF q
<1>3. q \in [1 .. n + 1 -> Edges]
  BY <1>2, LenProperties
<1>4. q[1].from_table = s
  BY <1>2 DEF Joins
<1>5. \A i \in 1 .. n : q[i].to_table = q[i + 1].from_table
  <2> SUFFICES ASSUME NEW i \in 1 .. n
               PROVE  q[i].to_table = q[i + 1].from_table
    OBVIOUS
  <2>1. CASE i = n
    <3>1. n > 0 /\ p[n].to_table = v
      BY <2>1 DEF Joins
    <3>2. q[i] = p[n] /\ q[i + 1] = e
      BY <2>1, <1>2
    <3> QED
      BY <3>1, <3>2
  <2>2. CASE i < n
    <3>1. i \in 1 .. n - 1 /\ i + 1 \in 1 .. n
      BY <2>2
    <3>2. p[i].to_table = p[i + 1].from_table
      BY <3>1 DEF Joins
    <3> QED
      BY <3>1, <3>2, <1>2
  <2> QED
    BY <2>1, <2>2
<1>6. q \in Joins(n + 1, s, e.to_table)
  <2>1. n + 1 > 0 /\ n + 1 # 0 /\ (n + 1) - 1 = n
    OBVIOUS
  <2> QED
    BY <1>2, <1>3, <1>4, <1>5, <2>1 DEF Joins
<1> QED
  BY <1>6 DEF q

(* A join of more than no steps is a shorter one and its last step. *)
LEMMA SplitJoin ==
  ASSUME NEW n \in Nat, NEW s, NEW u, NEW q \in Joins(n + 1, s, u)
  PROVE  \E e \in Edges : \E p \in Joins(n, s, e.from_table) :
           e.to_table = u /\ q = Append(p, e)
<1> DEFINE p == [i \in 1 .. n |-> q[i]]
           e == q[n + 1]
<1>1. /\ q \in [1 .. n + 1 -> Edges]
      /\ q[1].from_table = s /\ e.to_table = u
      /\ \A i \in 1 .. n : q[i].to_table = q[i + 1].from_table
  BY DEF Joins
<1>2. e \in Edges /\ p \in [1 .. n -> Edges]
  BY <1>1
<1>3. p \in Joins(n, s, e.from_table)
  <2>1. CASE n = 0
    BY <2>1, <1>1, <1>2 DEF Joins
  <2>2. CASE n > 0
    <3>1. p[1].from_table = s /\ p[n].to_table = e.from_table
      BY <2>2, <1>1
    <3>2. \A i \in 1 .. n - 1 : p[i].to_table = p[i + 1].from_table
      BY <1>1
    <3> QED
      BY <3>1, <3>2, <2>2, <1>2 DEF Joins
  <2> QED
    BY <2>1, <2>2
<1>4. q = Append(p, e)
  <2>1. p \in Seq(Edges) /\ Len(p) = n
    BY <1>2
  <2>2. /\ Append(p, e) \in Seq(Edges) /\ Len(Append(p, e)) = n + 1
        /\ \A i \in 1 .. n : Append(p, e)[i] = p[i]
        /\ Append(p, e)[n + 1] = e
    BY <2>1, <1>2, AppendProperties
  <2>3. q \in Seq(Edges) /\ Len(q) = n + 1
    BY <1>1
  <2>4. \A i \in 1 .. n + 1 : q[i] = Append(p, e)[i]
    BY <2>2
  <2> QED
    BY <2>2, <2>3, <2>4
<1> QED
  BY <1>2, <1>3, <1>4, <1>1

(* No steps lead from a table to itself and nowhere else. *)
LEMMA EmptyJoin ==
  ASSUME NEW s, NEW t
  PROVE  /\ s = t => Joins(0, s, t) = {<<>>}
         /\ s # t => Joins(0, s, t) = {}
<1>1. \A p \in [1 .. 0 -> Edges] : p = <<>>
  <2> SUFFICES ASSUME NEW p \in [1 .. 0 -> Edges]
               PROVE  p = <<>>
    OBVIOUS
  <2>1. p \in Seq(Edges) /\ Len(p) = 0
    OBVIOUS
  <2> QED
    BY <2>1, EmptySeq
<1>2. <<>> \in [1 .. 0 -> Edges]
  <2>1. <<>> \in Seq(Edges) /\ Len(<<>>) = 0
    BY EmptySeq
  <2> QED
    BY <2>1, LenProperties
<1>3. \A i \in 1 .. 0 - 1 : FALSE
  OBVIOUS
<1>4. Joins(0, s, t) = {p \in [1 .. 0 -> Edges] : s = t}
  BY <1>3 DEF Joins
<1> QED
  BY <1>1, <1>2, <1>4

LEMMA NewPathsAre ==
  ASSUME NEW t
  PROVE  \A q : q \in NewPaths(t)
            <=> \E e \in Edges : e.to_table = t /\ \E p \in level[e.from_table] : q = Append(p, e)
BY DEF NewPaths

-----------------------------------------------------------------------------
(* A round of the search. *)

(* Levels and Reached make of the next paths the next joins. *)
LEMMA NewPathsAreJoins ==
  ASSUME TypeOK, Endpoints, Levels, Reached, Closed, Shortest,
         shortest = {}, NEW u \in Tables, u \notin visited
  PROVE  NewPaths(u) = JoinsTo(depth + 1, u)
<1> DEFINE s == asked.from_table
<1>1. depth \in Nat
  BY DEF TypeOK
<1>2. \A e \in Edges : e.from_table \in Tables /\ e.to_table \in Tables
  BY EdgesAreSteps DEF TypeOK
<1>3. ASSUME NEW q \in NewPaths(u)
      PROVE  q \in JoinsTo(depth + 1, u)
  <2>1. PICK e \in Edges : e.to_table = u /\ \E p \in level[e.from_table] : q = Append(p, e)
    BY <1>3, NewPathsAre
  <2>2. PICK p \in level[e.from_table] : q = Append(p, e)
    BY <2>1
  <2>3. p \in Joins(depth, s, e.from_table)
    BY <1>2, <2>2 DEF Levels, JoinsTo
  <2> QED
    BY <1>1, <2>1, <2>2, <2>3, ExtendJoin DEF JoinsTo
<1>4. ASSUME NEW q \in JoinsTo(depth + 1, u)
      PROVE  q \in NewPaths(u)
  <2>1. PICK e \in Edges : \E p \in Joins(depth, s, e.from_table) :
                              e.to_table = u /\ q = Append(p, e)
    BY <1>1, <1>4, SplitJoin DEF JoinsTo
  <2>2. PICK p \in Joins(depth, s, e.from_table) : e.to_table = u /\ q = Append(p, e)
    BY <2>1
  <2>3. e.from_table # asked.to_table
    BY <2>2 DEF Shortest, JoinsTo
  <2>4. e.from_table \in visited
    BY <1>2, <2>2, <2>3 DEF Reached, JoinsTo
  <2>5. level[e.from_table] # {}
    BY <2>2, <2>4 DEF Closed
  <2>6. p \in level[e.from_table]
    BY <1>2, <2>2, <2>5 DEF Levels, JoinsTo
  <2> QED
    BY <2>2, <2>6, NewPathsAre
<1> QED
  BY <1>3, <1>4

(* Paths of the next round are sequences of edges. *)
LEMMA NewPathsAreSequences ==
  ASSUME TypeOK, NEW t
  PROVE  NewPaths(t) \subseteq Seq(Edges)
<1> SUFFICES ASSUME NEW q \in NewPaths(t)
             PROVE  q \in Seq(Edges)
  OBVIOUS
<1>1. PICK e \in Edges : e.to_table = t /\ \E p \in level[e.from_table] : q = Append(p, e)
  BY NewPathsAre
<1>2. PICK p \in level[e.from_table] : q = Append(p, e)
  BY <1>1
<1>3. e.from_table \in Tables
  BY EdgesAreSteps DEF TypeOK
<1>4. p \in Seq(Edges)
  BY <1>2, <1>3 DEF TypeOK
<1> QED
  BY <1>2, <1>4, AppendProperties

-----------------------------------------------------------------------------
(* Types. *)

LEMMA TypeInit == Init => TypeOK
BY EmptySeq DEF Init, TypeOK, NoPaths

LEMMA TypeStep == TypeOK /\ [Next]_vars => TypeOK'
<1> SUFFICES ASSUME TypeOK, [Next]_vars
             PROVE  TypeOK'
  OBVIOUS
<1>1. registry' = registry /\ Edges' = Edges
  BY DEF Next, vars, Call, AskUnseen, AskSame, Ask, Round, Answer, Forget, Edges
<1>2. <<>> \in Seq(Edges)
  BY EmptySeq
<1>3. ASSUME NEW c \in Callers, NEW s \in Tables, NEW t \in Tables, AskUnseen(c, s, t)
      PROVE  TypeOK'
  BY <1>3, <1>1 DEF TypeOK, AskUnseen, Call
<1>4. ASSUME NEW c \in Callers, NEW s \in Tables, AskSame(c, s)
      PROVE  TypeOK'
  BY <1>4, <1>1, <1>2 DEF TypeOK, AskSame, Call
<1>5. ASSUME NEW c \in Callers, NEW s \in Tables, NEW t \in Tables, Ask(c, s, t)
      PROVE  TypeOK'
  BY <1>5, <1>1, <1>2 DEF TypeOK, Ask, Call, NoPaths
<1>6. CASE Round
  <2>1. \A t : NewPaths(t) \subseteq Seq(Edges)
    BY NewPathsAreSequences
  <2>2. level' \in [Tables -> SUBSET Seq(Edges)]
    BY <1>6, <2>1 DEF Round
  <2>3. \A t \in Tables : level'[t] # {} => t \in visited'
    BY <1>6 DEF Round
  <2> QED
    BY <1>6, <1>1, <2>1, <2>2, <2>3 DEF TypeOK, Round
<1>7. CASE Answer
  BY <1>7, <1>1 DEF TypeOK, Answer
<1>8. CASE Forget
  BY <1>8, <1>1 DEF TypeOK, Forget, NoPaths
<1>9. CASE UNCHANGED vars
  BY <1>9, <1>1 DEF TypeOK, vars
<1> QED
  BY <1>3, <1>4, <1>5, <1>6, <1>7, <1>8, <1>9 DEF Next

(***************************************************************************)
(* Type correctness, for any relations and any callers: paths are          *)
(* sequences of edges, and every table that has open paths is marked, so   *)
(* that the loop cannot enter it again (discovery.py:89).                  *)
(***************************************************************************)
THEOREM TypeCorrect == Spec => []TypeOK
BY TypeInit, TypeStep, PTL DEF Spec

-----------------------------------------------------------------------------
(* The search. *)

LEMMA SearchAsk ==
  ASSUME TypeOK, NEW c \in Callers, NEW s \in Tables, NEW t \in Tables, Ask(c, s, t)
  PROVE  SearchInv'
<1>1. /\ asked' = [by |-> c, from_table |-> s, to_table |-> t]
      /\ s # t /\ depth' = 0 /\ visited' = {s} /\ shortest' = {} /\ registry' = registry
      /\ level' = [u \in Tables |-> IF u = s THEN {<<>>} ELSE {}]
  BY DEF Ask, Call, NoPaths
<1>2. \A u : JoinsTo(depth, u)' = Joins(0, s, u)
  BY <1>1 DEF JoinsTo, Joins, Edges
<1>3. \A u : JoinsTo(depth, u)' = IF u = s THEN {<<>>} ELSE {}
  BY <1>2, EmptyJoin
<1>4. Endpoints'
  BY <1>1 DEF Endpoints
<1>5. Levels'
  BY <1>1, <1>3 DEF Levels
<1>6. Reached'
  BY <1>1, <1>3 DEF Reached
<1>7. Shortest'
  <2>1. JoinsTo(depth, asked.to_table)' = Joins(0, s, t)
    BY <1>1 DEF JoinsTo, Joins, Edges
  <2>2. \A n \in 0 .. depth' - 1 : FALSE
    BY <1>1
  <2> QED
    BY <1>1, <2>1, <2>2, EmptyJoin DEF Shortest
<1>8. Closed'
  BY <1>1 DEF Closed
<1> QED
  BY <1>4, <1>5, <1>6, <1>7, <1>8 DEF SearchInv

LEMMA SearchRound ==
  ASSUME TypeOK, SearchInv, Round
  PROVE  SearchInv'
<1> DEFINE to == asked.to_table
<1>1. /\ status = "searching" /\ shortest = {} /\ level # NoPaths
      /\ Endpoints /\ Levels /\ Reached /\ Shortest /\ Closed
  BY DEF Round, Exhausted, SearchInv
<1>2. /\ registry' = registry /\ asked' = asked /\ depth' = depth + 1
      /\ shortest' = NewPaths(to)
      /\ level' = [u \in Tables |-> IF u \in visited \cup {to} THEN {} ELSE NewPaths(u)]
      /\ visited' = visited \cup {u \in Tables : level'[u] # {}}
  BY DEF Round
<1>3. depth \in Nat /\ to \in Tables /\ visited \subseteq Tables
  BY <1>1 DEF TypeOK
<1>4. /\ \A u : JoinsTo(depth, u)' = JoinsTo(depth + 1, u)
      /\ JoinsTo(depth, asked.to_table)' = JoinsTo(depth + 1, to)
      /\ \A n : JoinsTo(n, asked.to_table)' = JoinsTo(n, to)
  BY <1>2 DEF JoinsTo, Joins, Edges
<1>5. \A u \in Tables : u \notin visited => NewPaths(u) = JoinsTo(depth + 1, u)
  BY <1>1, NewPathsAreJoins
<1>6. to \notin visited
  BY <1>1 DEF Endpoints
<1>7. Edges' = Edges /\ \A e \in Edges : e.from_table \in Tables /\ e.to_table \in Tables
  BY <1>2, EdgesAreSteps DEF Edges, TypeOK
<1>8. Endpoints'
  BY <1>1, <1>2, <1>3, <1>6 DEF Endpoints
<1>9. Levels'
  BY <1>2, <1>4, <1>5 DEF Levels
<1>10. Reached'
  <2> SUFFICES ASSUME NEW u \in Tables, JoinsTo(depth + 1, u) # {}, u \notin visited, u # to
               PROVE  u \in visited'
    BY <1>2, <1>4 DEF Reached
  <2>1. level'[u] = NewPaths(u) /\ NewPaths(u) # {}
    BY <1>2, <1>5
  <2> QED
    BY <1>2, <2>1
<1>11. Shortest'
  <2>1. shortest' = JoinsTo(depth + 1, to)
    BY <1>2, <1>3, <1>5, <1>6
  <2>2. ASSUME NEW n \in 0 .. (depth + 1) - 1
        PROVE  JoinsTo(n, to) = {}
    <3>1. n = depth \/ n \in 0 .. depth - 1
      BY <1>3
    <3> QED
      BY <3>1, <1>1 DEF Shortest
  <2> QED
    BY <1>2, <1>4, <2>1, <2>2 DEF Shortest
<1>12. Closed'
  <2> SUFFICES ASSUME shortest' = {}, NEW e \in Edges,
                      e.from_table \in visited', level'[e.from_table] = {}
               PROVE  e.to_table \in visited'
    BY <1>7 DEF Closed
  <2>1. e.from_table \in visited
    BY <1>2
  <2>2. CASE level[e.from_table] = {}
    BY <1>1, <1>2, <2>1, <2>2 DEF Closed
  <2>3. CASE level[e.from_table] # {}
    <3>1. PICK p \in level[e.from_table] : TRUE
      BY <2>3
    <3>2. Append(p, e) \in NewPaths(e.to_table)
      BY NewPathsAre
    <3>3. e.to_table # to
      BY <1>2, <3>2
    <3> QED
      BY <1>2, <1>7, <3>2, <3>3
  <2> QED
    BY <2>2, <2>3
<1> QED
  BY <1>8, <1>9, <1>10, <1>11, <1>12 DEF SearchInv

LEMMA SearchStutter ==
  ASSUME SearchInv, UNCHANGED vars
  PROVE  SearchInv'
<1>1. /\ \A u : JoinsTo(depth, u)' = JoinsTo(depth, u)
      /\ JoinsTo(depth, asked.to_table)' = JoinsTo(depth, asked.to_table)
      /\ \A n : JoinsTo(n, asked.to_table)' = JoinsTo(n, asked.to_table)
      /\ Edges' = Edges
  BY DEF vars, JoinsTo, Joins, Edges
<1> QED
  BY <1>1 DEF vars, SearchInv, Endpoints, Levels, Reached, Shortest, Closed

-----------------------------------------------------------------------------
(* The answer. *)

(* A search that has nothing left to extend has missed nothing. *)
LEMMA NothingBeyond ==
  ASSUME TypeOK, Endpoints, Closed, shortest = {}, level = NoPaths,
         asked.to_table \in Tables, NEW n \in Nat
  PROVE  JoinsTo(n, asked.to_table) = {}
<1> SUFFICES ASSUME NEW p \in JoinsTo(n, asked.to_table)
             PROVE  FALSE
  OBVIOUS
<1> DEFINE unseen == {i \in 1 .. n : p[i].to_table \notin visited}
<1>1. /\ p \in [1 .. n -> Edges]
      /\ n = 0 => asked.from_table = asked.to_table
      /\ n > 0 => p[1].from_table = asked.from_table /\ p[n].to_table = asked.to_table
      /\ \A i \in 1 .. n - 1 : p[i].to_table = p[i + 1].from_table
  BY DEF JoinsTo, Joins
<1>2. n > 0
  BY <1>1 DEF Endpoints
<1>3. n \in unseen
  BY <1>1, <1>2 DEF Endpoints
<1>4. PICK i \in unseen : \A j \in unseen : ~(j < i)
  <2>1. unseen \in SUBSET Nat /\ unseen # {}
    BY <1>3
  <2> HIDE DEF unseen
  <2> QED
    BY <2>1, LeastNumber
<1>5. p[i].from_table \in visited
  <2>1. CASE i = 1
    BY <2>1, <1>1, <1>2 DEF Endpoints
  <2>2. CASE i > 1
    <3>1. i - 1 \in 1 .. n - 1 /\ i - 1 \in 1 .. n /\ i - 1 < i /\ (i - 1) + 1 = i
      BY <2>2
    <3>2. i - 1 \notin unseen
      BY <1>4, <3>1
    <3>3. p[i - 1].to_table = p[i].from_table
      BY <1>1, <3>1
    <3> QED
      BY <3>1, <3>2, <3>3
  <2> QED
    BY <2>1, <2>2
<1>6. p[i] \in Edges /\ p[i].from_table \in Tables
  BY <1>1, EdgesAreSteps DEF TypeOK
<1>7. p[i].to_table \in visited
  BY <1>5, <1>6 DEF Closed, NoPaths
<1> QED
  BY <1>4, <1>7

LEMMA AnswerComplete ==
  ASSUME TypeOK, SearchInv, Answer
  PROVE  Complete(shortest)
<1> DEFINE to == asked.to_table
<1>1. status = "searching" /\ (shortest # {} \/ level = NoPaths)
  BY DEF Answer, Exhausted
<1>2. Endpoints /\ Levels /\ Reached /\ Shortest /\ Closed
  BY <1>1 DEF SearchInv
<1>3. depth \in Nat /\ to \in Tables
  BY <1>1 DEF TypeOK
<1>4. CASE shortest = {}
  BY <1>1, <1>2, <1>3, <1>4, NothingBeyond DEF Complete
<1>5. CASE shortest # {}
  <2>1. \A q \in shortest : Len(q) = depth
    BY <1>2, <1>3, JoinsAreSequences DEF Shortest, JoinsTo
  <2>2. \A n \in Nat : JoinsTo(n, to) # {} => depth <= n
    <3> SUFFICES ASSUME NEW n \in Nat, n < depth
                 PROVE  JoinsTo(n, to) = {}
      BY <1>3
    <3>1. n \in 0 .. depth - 1
      BY <1>3
    <3> QED
      BY <3>1, <1>2 DEF Shortest
  <2> QED
    BY <1>2, <1>3, <1>5, <2>1, <2>2 DEF Complete, Shortest
<1> QED
  BY <1>4, <1>5

LEMMA AnswerStep ==
  ASSUME TypeOK, SearchInv, AnswerInv, [Next]_vars
  PROVE  AnswerInv'
<1>1. ASSUME NEW c \in Callers, NEW s \in Tables, NEW t \in Tables, AskUnseen(c, s, t)
      PROVE  AnswerInv'
  BY <1>1 DEF AskUnseen, Call, AnswerInv, Permitted, Visible
<1>2. ASSUME NEW c \in Callers, NEW s \in Tables, AskSame(c, s)
      PROVE  AnswerInv'
  <2>1. found' = {<<>>} /\ registry' = registry
        /\ asked' = [by |-> c, from_table |-> s, to_table |-> s]
    BY <1>2 DEF AskSame, Call
  <2>2. \A n : JoinsTo(n, asked.to_table)' = Joins(n, s, s)
    BY <2>1 DEF JoinsTo, Joins, Edges
  <2>3. Len(<<>>) = 0 /\ Joins(0, s, s) = {<<>>}
    BY EmptySeq, EmptyJoin
  <2>4. Complete(found)'
    BY <2>1, <2>2, <2>3 DEF Complete
  <2> QED
    BY <2>4 DEF AnswerInv
<1>3. ASSUME NEW c \in Callers, NEW s \in Tables, NEW t \in Tables, Ask(c, s, t)
      PROVE  AnswerInv'
  BY <1>3 DEF Ask, AnswerInv
<1>4. CASE Round
  BY <1>4 DEF Round, AnswerInv
<1>5. CASE Answer
  <2>1. found' = shortest /\ asked' = asked /\ registry' = registry
    BY <1>5 DEF Answer
  <2>2. \A n : JoinsTo(n, asked.to_table)' = JoinsTo(n, asked.to_table)
    BY <2>1 DEF JoinsTo, Joins, Edges
  <2>3. Complete(shortest)
    BY <1>5, AnswerComplete
  <2>4. Complete(found)'
    BY <2>1, <2>2, <2>3 DEF Complete
  <2> QED
    BY <2>4 DEF AnswerInv
<1>6. CASE Forget
  BY <1>6 DEF Forget, AnswerInv
<1>7. CASE UNCHANGED vars
  <2>1. \A n : JoinsTo(n, asked.to_table)' = JoinsTo(n, asked.to_table)
    BY <1>7 DEF vars, JoinsTo, Joins, Edges
  <2>2. Complete(found)' = Complete(found)
    BY <1>7, <2>1 DEF vars, Complete
  <2> QED
    BY <1>7, <2>2 DEF vars, AnswerInv, Permitted, Visible
<1> QED
  BY <1>1, <1>2, <1>3, <1>4, <1>5, <1>6, <1>7 DEF Next

-----------------------------------------------------------------------------

THEOREM Invariance == Spec => []Inv
<1>1. Init => Inv
  BY TypeInit DEF Init, Inv, SearchInv, AnswerInv
<1>2. Inv /\ [Next]_vars => Inv'
  <2> SUFFICES ASSUME Inv, [Next]_vars
               PROVE  Inv'
    OBVIOUS
  <2>1. TypeOK' /\ AnswerInv'
    BY TypeStep, AnswerStep DEF Inv
  <2>2. SearchInv'
    <3>1. ASSUME NEW c \in Callers, NEW s \in Tables, NEW t \in Tables,
                 AskUnseen(c, s, t) \/ AskSame(c, s)
          PROVE  SearchInv'
      BY <3>1 DEF AskUnseen, AskSame, SearchInv
    <3>2. ASSUME NEW c \in Callers, NEW s \in Tables, NEW t \in Tables, Ask(c, s, t)
          PROVE  SearchInv'
      BY <3>2, SearchAsk DEF Inv
    <3>3. CASE Round
      BY <3>3, SearchRound DEF Inv
    <3>4. CASE Answer \/ Forget
      BY <3>4 DEF Answer, Forget, SearchInv
    <3>5. CASE UNCHANGED vars
      BY <3>5, SearchStutter DEF Inv
    <3> QED
      BY <3>1, <3>2, <3>3, <3>4, <3>5 DEF Next
  <2> QED
    BY <2>1, <2>2 DEF Inv
<1> QED
  BY <1>1, <1>2, PTL DEF Spec

(***************************************************************************)
(* find_path is right on every registry: a caller that may see both tables *)
(* is told of every shortest join between them and of nothing else.        *)
(***************************************************************************)
THEOREM AllShortestPathsFound == Spec => []AllShortestPaths
<1>1. Inv => AllShortestPaths
  <2> SUFFICES ASSUME Inv, status = "answered", Permitted, NEW n \in 0 .. MaxSteps
               PROVE  LET joins == Joins(n, asked.from_table, asked.to_table)
                      IN  /\ joins # {} => found # {} /\ \A p \in found : Len(p) <= n
                          /\ \A p \in found : Len(p) = n => found = joins
    BY DEF AllShortestPaths
  <2>1. n \in Nat /\ Complete(found)
    BY DiscoveryAssumption DEF Inv, AnswerInv
  <2> QED
    BY <2>1 DEF Complete, JoinsTo
<1> QED
  BY <1>1, Invariance, PTL

(***************************************************************************)
(* Each round of find_path but the last reaches a new table, so there are  *)
(* no more rounds than tables.                                             *)
(***************************************************************************)
THEOREM RoundsAlwaysAdvance == Spec => RoundsAdvance
<1>1. TypeOK /\ [Next]_vars => [Round => visited # visited' \/ shortest' # {} \/ level' = NoPaths]_vars
  <2> SUFFICES ASSUME TypeOK, Round, visited = visited'
               PROVE  level' = NoPaths
    OBVIOUS
  <2>1. /\ level' = [t \in Tables |-> IF t \in visited \cup {asked.to_table} THEN {} ELSE NewPaths(t)]
        /\ visited' = visited \cup {t \in Tables : level'[t] # {}}
    BY DEF Round
  <2>2. \A t \in Tables : level'[t] = {}
    BY <2>1
  <2> QED
    BY <2>1, <2>2 DEF NoPaths
<1> QED
  BY <1>1, TypeCorrect, PTL DEF Spec, RoundsAdvance

-----------------------------------------------------------------------------
(* Places. *)

LEMMA PlacesAreTyped ==
  ASSUME NEW p \in Projects, NEW x \in Places(p)
  PROVE  /\ x = <<x[1], x[2]>>
         /\ x[1] \in 1 .. 3 /\ x[2] \in Nat
         /\ x[1] = 1 => x[2] \in DOMAIN p.constraints /\ IsForeignKey(p.constraints[x[2]])
         /\ x[1] = 2 => x[2] \in DOMAIN p.tests
         /\ x[1] = 3 => x[2] \in DOMAIN p.joins /\ IsMined(p.joins[x[2]])
<1>1. /\ DOMAIN p.constraints \subseteq Nat /\ DOMAIN p.tests \subseteq Nat
      /\ DOMAIN p.joins \subseteq Nat
  BY ProjectsAssumption DEF IsProject
<1> QED
  BY <1>1 DEF Places, Constraints, Tests, MinedJoins

(* A project declares no more in a source than its longest list. *)
LEMMA PlacesAreBounded ==
  ASSUME NEW p \in Projects
  PROVE  \E n \in Nat : \A x \in Places(p) : x[2] <= n
<1> DEFINE a == Len(p.constraints)
           b == Len(p.tests)
           c == Len(p.joins)
<1>1. /\ a \in Nat /\ b \in Nat /\ c \in Nat
      /\ DOMAIN p.constraints = 1 .. a /\ DOMAIN p.tests = 1 .. b /\ DOMAIN p.joins = 1 .. c
  BY ProjectsAssumption DEF IsProject
<1> HIDE DEF a, b, c
<1>2. a + b + c \in Nat /\ \A x \in Places(p) : x[2] <= a + b + c
  <2>1. ASSUME NEW x \in Places(p)
        PROVE  x[2] <= a + b + c
    BY <1>1, PlacesAreTyped
  <2> QED
    BY <1>1, <2>1
<1> QED
  BY <1>2

LEMMA PlacesAreOrdered ==
  ASSUME NEW p \in Projects, NEW x \in Places(p), NEW y \in Places(p)
  PROVE  Before(x, y) \/ x = y \/ Before(y, x)
<1>1. /\ x = <<x[1], x[2]>> /\ x[1] \in Nat /\ x[2] \in Nat
      /\ y = <<y[1], y[2]>> /\ y[1] \in Nat /\ y[2] \in Nat
  BY PlacesAreTyped
<1>2. x[1] = y[1] /\ x[2] = y[2] => x = y
  BY <1>1
<1> QED
  BY <1>1, <1>2 DEF Before

LEMMA FirstPlace ==
  ASSUME NEW p \in Projects, NEW S \in SUBSET Places(p), S # {}
  PROVE  \E x \in S : \A y \in S : ~Before(y, x)
<1>1. \A x \in S : x[1] \in Nat /\ x[2] \in Nat
  BY PlacesAreTyped
<1>2. PICK a \in {x[1] : x \in S} : \A b \in {x[1] : x \in S} : ~(b < a)
  <2>1. {x[1] : x \in S} \in SUBSET Nat
    BY <1>1
  <2> QED
    BY <2>1, LeastNumber
<1> DEFINE R == {x \in S : x[1] = a}
<1>3. PICK i \in {x[2] : x \in R} : \A k \in {x[2] : x \in R} : ~(k < i)
  <2>1. {x[2] : x \in R} \in SUBSET Nat
    BY <1>1
  <2>2. {x[2] : x \in R} # {}
    BY <1>2
  <2> QED
    BY <2>1, <2>2, LeastNumber
<1>4. PICK x \in S : x[1] = a /\ x[2] = i
  BY <1>3
<1>5. ASSUME NEW y \in S
      PROVE  ~Before(y, x)
  BY <1>2, <1>3, <1>4, <1>5 DEF Before
<1> QED
  BY <1>4, <1>5

LEMMA LastPlace ==
  ASSUME NEW p \in Projects, NEW S \in SUBSET Places(p), S # {}
  PROVE  \E x \in S : \A y \in S : ~Before(x, y)
<1>1. \A x \in S : x[1] \in 1 .. 3 /\ x[2] \in Nat
  BY PlacesAreTyped
<1>n. PICK n \in Nat : \A x \in S : x[2] <= n
  BY PlacesAreBounded
<1>2. PICK a \in {3 - x[1] : x \in S} : \A b \in {3 - x[1] : x \in S} : ~(b < a)
  <2>1. {3 - x[1] : x \in S} \in SUBSET Nat
    BY <1>1
  <2> QED
    BY <2>1, LeastNumber
<1> DEFINE R == {x \in S : 3 - x[1] = a}
<1>3. PICK i \in {n - x[2] : x \in R} : \A k \in {n - x[2] : x \in R} : ~(k < i)
  <2>1. {n - x[2] : x \in R} \in SUBSET Nat
    BY <1>1, <1>n
  <2>2. {n - x[2] : x \in R} # {}
    BY <1>2
  <2> QED
    BY <2>1, <2>2, LeastNumber
<1>4. PICK x \in S : 3 - x[1] = a /\ n - x[2] = i
  BY <1>3
<1>5. ASSUME NEW y \in S, Before(x, y)
      PROVE  FALSE
  <2>1. /\ x[1] \in 1 .. 3 /\ x[2] \in Nat /\ y[1] \in 1 .. 3 /\ y[2] \in Nat
    BY <1>1
  <2>2. ~(3 - y[1] < 3 - x[1])
    BY <1>2, <1>4
  <2>3. x[1] = y[1] /\ x[2] < y[2]
    BY <1>5, <2>1, <2>2 DEF Before
  <2>4. n - y[2] < n - x[2]
    BY <2>1, <2>3
  <2>5. y \in R
    BY <1>4, <2>3
  <2> QED
    BY <1>3, <1>4, <2>4, <2>5
<1> QED
  BY <1>4, <1>5

-----------------------------------------------------------------------------
(* What is declared at a place. *)

NameOf(j) == j.from_table \o j.from_column \o j.to_table \o j.to_column

LEMMA ElementsAreTyped ==
  ASSUME NEW S, NEW s \in Seq(S), NEW i \in DOMAIN s
  PROVE  s[i] \in S
OBVIOUS

LEMMA FirstColumn ==
  ASSUME NEW s \in Seq(Columns) \ {<<>>}
  PROVE  Len(s) >= 1 /\ s[1] \in Columns
<1>1. Len(s) \in Nat /\ Len(s) # 0
  BY EmptySeq
<1> QED
  BY <1>1

LEMMA ConstraintsAreTyped ==
  ASSUME NEW p \in Projects, NEW i \in DOMAIN p.constraints
  PROVE  LET c == p.constraints[i]
         IN  /\ c.from \in Tables /\ c.to \in Tables \cup {Unknown}
             /\ c.columns \in Seq(Columns) /\ Len(c.columns) >= 1
             /\ c.columns[1] \in Columns /\ c.to_columns[1] \in Columns
             /\ c.form = "expression" => Len(c.columns) = 1
<1> DEFINE columns == Seq(Columns) \ {<<>>}
           records == [from : Tables, form : {"to", "expression"}, columns : columns,
                       to : Tables \cup {Unknown}, to_columns : columns]
           c == p.constraints[i]
<1>1. p.constraints \in Seq(records) /\ (c.form = "expression" => Len(c.columns) = 1)
  BY ProjectsAssumption DEF IsProject
<1>2. c \in records
  <2> HIDE DEF records
  <2> QED BY <1>1, ElementsAreTyped
<1>3. /\ c.from \in Tables /\ c.to \in Tables \cup {Unknown}
      /\ c.columns \in columns /\ c.to_columns \in columns
  BY <1>2
<1> QED
  BY <1>1, <1>3, FirstColumn

LEMMA TestsAreTyped ==
  ASSUME NEW p \in Projects, NEW i \in DOMAIN p.tests
  PROVE  LET t == p.tests[i]
         IN  /\ t.from \in Tables /\ t.to \in Tables /\ t.column \in Columns /\ t.field \in Columns
             /\ t = [from |-> t.from, column |-> t.column, to |-> t.to, field |-> t.field]
<1> DEFINE records == [from : Tables, column : Columns, to : Tables, field : Columns]
           t == p.tests[i]
<1>1. p.tests \in Seq(records)
  BY ProjectsAssumption DEF IsProject
<1>2. t \in records
  <2> HIDE DEF records
  <2> QED BY <1>1, ElementsAreTyped
<1> QED
  BY <1>2

LEMMA JoinsAreTyped ==
  ASSUME NEW p \in Projects, NEW i \in DOMAIN p.joins
  PROVE  LET j == p.joins[i]
         IN  /\ j.model \in Tables
             /\ j.left \in [table : Tables \cup {Unknown}, column : Columns]
             /\ j.right \in [table : Tables \cup {Unknown}, column : Columns]
<1> DEFINE refs == [table : Tables \cup {Unknown}, column : Columns]
           records == [model : Tables, left : refs, right : refs]
           j == p.joins[i]
<1>1. p.joins \in Seq(records)
  BY ProjectsAssumption DEF IsProject
<1>2. j \in records
  <2> HIDE DEF records
  <2> QED BY <1>1, ElementsAreTyped
<1> QED
  BY <1>2

(* A relationship that is declared, and the join it stands for. *)
LEMMA DeclaredConstraint ==
  ASSUME NEW p \in Projects, NEW x \in Places(p), x[1] = 1
  PROVE  LET r == Declared(p, x)
         IN  /\ r.origin = "constraint" /\ r.from_columns \in Seq(Columns)
             /\ Len(r.from_columns) >= 1
             /\ r.name = NameOf(JoinOf(r)) /\ JoinOf(r) \in Steps
             /\ r.from_model = JoinOf(r).from_table /\ r.from_columns[1] = JoinOf(r).from_column
             /\ Len(r.from_columns) = 1 => Constrained(p, JoinOf(r))
<1> DEFINE c == p.constraints[x[2]]
           r == Declared(p, x)
<1>1. x[2] \in DOMAIN p.constraints /\ c.to # Unknown
  BY PlacesAreTyped DEF IsForeignKey
<1>2. /\ c.from \in Tables /\ c.to \in Tables
      /\ c.columns \in Seq(Columns) /\ Len(c.columns) >= 1
      /\ c.columns[1] \in Columns /\ c.to_columns[1] \in Columns
      /\ c.form = "expression" => Len(c.columns) = 1
  BY <1>1, ConstraintsAreTyped
<1>3. r = ForeignKey(c)
  BY DEF Declared
<1> HIDE DEF c, r
<1>4. /\ r.origin = "constraint"
      /\ r.name = c.from \o c.columns[1] \o c.to \o c.to_columns[1]
      /\ r.from_model = c.from /\ r.to_model = c.to
      /\ r.from_columns \in Seq(Columns) /\ Len(r.from_columns) >= 1
      /\ r.from_columns[1] = c.columns[1] /\ r.to_columns[1] = c.to_columns[1]
      /\ Len(r.from_columns) = 1 => Len(c.columns) = 1
  <2>1. CASE c.form = "expression"
    <3>1. r = Rel(c.from, <<c.columns[1]>>, c.to, <<c.to_columns[1]>>, "constraint")
      BY <1>3, <2>1 DEF ForeignKey
    <3>2. /\ r.origin = "constraint"
          /\ r.name = c.from \o <<c.columns[1]>>[1] \o c.to \o <<c.to_columns[1]>>[1]
          /\ r.from_model = c.from /\ r.to_model = c.to
          /\ r.from_columns = <<c.columns[1]>> /\ r.to_columns = <<c.to_columns[1]>>
      BY <3>1 DEF Rel
    <3>3. <<c.columns[1]>>[1] = c.columns[1] /\ <<c.to_columns[1]>>[1] = c.to_columns[1]
      OBVIOUS
    <3>4. <<c.columns[1]>> \in Seq(Columns) /\ Len(<<c.columns[1]>>) = 1
      BY <1>2
    <3>5. r.name = c.from \o c.columns[1] \o c.to \o c.to_columns[1]
      BY <3>2, <3>3
    <3> QED
      BY <1>2, <2>1, <3>2, <3>3, <3>4, <3>5
  <2>2. CASE c.form # "expression"
    BY <1>2, <1>3, <2>2 DEF ForeignKey, Rel
  <2> QED
    BY <2>1, <2>2
<1>5. /\ JoinOf(r) = [from_table |-> c.from, from_column |-> c.columns[1],
                      to_table |-> c.to, to_column |-> c.to_columns[1]]
  BY <1>4 DEF JoinOf
<1>6. ASSUME Len(r.from_columns) = 1
      PROVE  Constrained(p, JoinOf(r))
  <2>1. c.columns = <<c.columns[1]>>
    BY <1>2, <1>4, <1>6
  <2> QED
    BY <1>1, <1>5, <2>1 DEF Constrained, c
<1>7. r.name = NameOf(JoinOf(r))
  <2>1. /\ JoinOf(r).from_table = c.from /\ JoinOf(r).from_column = c.columns[1]
        /\ JoinOf(r).to_table = c.to /\ JoinOf(r).to_column = c.to_columns[1]
    BY <1>5
  <2> QED
    BY <1>4, <2>1 DEF NameOf
<1>8. JoinOf(r) \in Steps
  BY <1>2, <1>5 DEF Steps
<1> QED
  BY <1>4, <1>5, <1>6, <1>7, <1>8 DEF r

LEMMA DeclaredTest ==
  ASSUME NEW p \in Projects, NEW x \in Places(p), x[1] = 2
  PROVE  LET r == Declared(p, x)
         IN  /\ r.origin = "data_test" /\ r.from_columns \in Seq(Columns)
             /\ Len(r.from_columns) >= 1
             /\ r.name = NameOf(JoinOf(r)) /\ JoinOf(r) \in Steps
             /\ r.from_model = JoinOf(r).from_table /\ r.from_columns[1] = JoinOf(r).from_column
             /\ Tested(p, JoinOf(r))
<1> DEFINE t == p.tests[x[2]]
           r == Declared(p, x)
<1>1. x[2] \in DOMAIN p.tests
  BY PlacesAreTyped
<1>2. /\ t.from \in Tables /\ t.to \in Tables /\ t.column \in Columns /\ t.field \in Columns
      /\ t = [from |-> t.from, column |-> t.column, to |-> t.to, field |-> t.field]
  BY <1>1, TestsAreTyped
<1>3. r = RelationshipTest(t)
  BY DEF Declared
<1> HIDE DEF t, r
<1>4. /\ r.origin = "data_test"
      /\ r.name = t.from \o t.column \o t.to \o t.field
      /\ r.from_model = t.from /\ r.from_columns = <<t.column>>
      /\ JoinOf(r) = [from_table |-> t.from, from_column |-> t.column,
                      to_table |-> t.to, to_column |-> t.field]
  BY <1>3 DEF RelationshipTest, Rel, JoinOf
<1>5. Tested(p, JoinOf(r))
  <2>1. /\ JoinOf(r).from_table = t.from /\ JoinOf(r).from_column = t.column
        /\ JoinOf(r).to_table = t.to /\ JoinOf(r).to_column = t.field
    BY <1>4
  <2>2. p.tests[x[2]] = [from |-> JoinOf(r).from_table, column |-> JoinOf(r).from_column,
                         to |-> JoinOf(r).to_table, field |-> JoinOf(r).to_column]
    BY <1>2, <2>1 DEF t
  <2> QED
    BY <1>1, <2>2 DEF Tested
<1>6. /\ r.name = NameOf(JoinOf(r)) /\ JoinOf(r) \in Steps
      /\ r.from_columns \in Seq(Columns) /\ Len(r.from_columns) >= 1
      /\ r.from_columns[1] = t.column
  BY <1>2, <1>4 DEF NameOf, Steps
<1> QED
  BY <1>4, <1>5, <1>6 DEF r

LEMMA DeclaredJoin ==
  ASSUME NEW p \in Projects, NEW x \in Places(p), x[1] = 3
  PROVE  LET r == Declared(p, x)
         IN  /\ r.origin = "lineage" /\ r.from_columns \in Seq(Columns)
             /\ Len(r.from_columns) >= 1
             /\ r.name = NameOf(JoinOf(r)) /\ JoinOf(r) \in Steps
             /\ r.from_model = JoinOf(r).from_table /\ r.from_columns[1] = JoinOf(r).from_column
             /\ JoinedBy(p, JoinOf(r))
<1> DEFINE j == p.joins[x[2]]
           r == Declared(p, x)
<1>1. x[2] \in DOMAIN p.joins /\ IsMined(j)
  BY PlacesAreTyped
<1>2. /\ j.left \in [table : Tables \cup {Unknown}, column : Columns]
      /\ j.right \in [table : Tables \cup {Unknown}, column : Columns]
  BY <1>1, JoinsAreTyped
<1>3. r = MinedJoin(j)
  BY DEF Declared
<1> HIDE DEF j, r
<1>4. ASSUME NEW own, NEW other, r = Mined(own, other), own.table = j.model, own # other,
             (j.left = own /\ j.right = other) \/ (j.left = other /\ j.right = own),
             own \in [table : Tables, column : Columns],
             other \in [table : Tables, column : Columns]
      PROVE  /\ r.origin = "lineage" /\ r.from_columns \in Seq(Columns)
             /\ Len(r.from_columns) >= 1
             /\ r.name = NameOf(JoinOf(r)) /\ JoinOf(r) \in Steps
             /\ r.from_model = JoinOf(r).from_table /\ r.from_columns[1] = JoinOf(r).from_column
             /\ JoinedBy(p, JoinOf(r))
  <2>1. /\ r.origin = "lineage"
        /\ r.name = own.table \o own.column \o other.table \o other.column
        /\ r.from_model = own.table /\ r.from_columns = <<own.column>>
        /\ JoinOf(r) = [from_table |-> own.table, from_column |-> own.column,
                        to_table |-> other.table, to_column |-> other.column]
    BY <1>4 DEF Mined, Rel, JoinOf
  <2>2. /\ own = [table |-> own.table, column |-> own.column]
        /\ other = [table |-> other.table, column |-> other.column]
    BY <1>4
  <2>3. /\ JoinOf(r).from_table = own.table /\ JoinOf(r).from_column = own.column
        /\ JoinOf(r).to_table = other.table /\ JoinOf(r).to_column = other.column
    BY <2>1
  <2>4. /\ own = [table |-> JoinOf(r).from_table, column |-> JoinOf(r).from_column]
        /\ other = [table |-> JoinOf(r).to_table, column |-> JoinOf(r).to_column]
    BY <2>2, <2>3
  <2>5. JoinedBy(p, JoinOf(r))
    <3>1. /\ p.joins[x[2]].model = own.table
          /\ \/ p.joins[x[2]].left = own /\ p.joins[x[2]].right = other
             \/ p.joins[x[2]].left = other /\ p.joins[x[2]].right = own
      BY <1>4 DEF j
    <3> HIDE DEF j
    <3> QED
      BY <1>1, <1>4, <2>4, <3>1 DEF JoinedBy
  <2>6. r.name = NameOf(JoinOf(r)) /\ JoinOf(r) \in Steps
    BY <1>4, <2>1, <2>3 DEF NameOf, Steps
  <2> QED
    BY <1>4, <2>1, <2>3, <2>5, <2>6
<1>5. /\ j.left \in [table : Tables, column : Columns]
      /\ j.right \in [table : Tables, column : Columns]
      /\ j.left # j.right /\ j.model \in {j.left.table, j.right.table}
  BY <1>1, <1>2 DEF IsMined
<1>6. \E own, other \in [table : Tables, column : Columns] :
        /\ r = Mined(own, other) /\ own.table = j.model /\ own # other
        /\ \/ j.left = own /\ j.right = other
           \/ j.left = other /\ j.right = own
  <2>1. CASE j.left.table = j.model
    <3>1. r = Mined(j.left, j.right)
      BY <1>3, <2>1 DEF MinedJoin
    <3> QED
      BY <1>5, <2>1, <3>1
  <2>2. CASE j.left.table # j.model
    <3>1. r = Mined(j.right, j.left) /\ j.right.table = j.model
      BY <1>3, <1>5, <2>2 DEF MinedJoin
    <3> QED
      BY <1>5, <3>1
  <2> QED
    BY <2>1, <2>2
<1>7. PICK own, other \in [table : Tables, column : Columns] :
        /\ r = Mined(own, other) /\ own.table = j.model /\ own # other
        /\ \/ j.left = own /\ j.right = other
           \/ j.left = other /\ j.right = own
  BY <1>6
<1> QED
  BY <1>4, <1>7 DEF r

(* Whatever its source, a relationship carries the name of its join. *)
LEMMA DeclaredIsNamed ==
  ASSUME NEW p \in Projects, NEW x \in Places(p)
  PROVE  /\ Declared(p, x).name = NameOf(JoinOf(Declared(p, x)))
         /\ JoinOf(Declared(p, x)) \in Steps
         /\ Declared(p, x).from_columns \in Seq(Columns)
         /\ Len(Declared(p, x).from_columns) >= 1
         /\ Declared(p, x).from_model = JoinOf(Declared(p, x)).from_table
         /\ Declared(p, x).from_columns[1] = JoinOf(Declared(p, x)).from_column
<1>1. x[1] = 1 \/ x[1] = 2 \/ x[1] = 3
  BY PlacesAreTyped
<1> QED
  BY <1>1, DeclaredConstraint, DeclaredTest, DeclaredJoin

(* What the files state has a place of its own. *)
LEMMA StatedHasPlace ==
  ASSUME NEW p \in Projects, NEW j \in Steps
  PROVE  /\ Constrained(p, j) =>
              \E x \in Places(p) : x[1] = 1 /\ JoinOf(Declared(p, x)) = j
         /\ Tested(p, j) =>
              \E x \in Places(p) : x[1] = 2 /\ JoinOf(Declared(p, x)) = j
         /\ JoinedBy(p, j) /\ j.from_table # j.to_table =>
              \E x \in Places(p) : x[1] = 3 /\ JoinOf(Declared(p, x)) = j
<1>j. /\ j.from_table \in Tables /\ j.to_table \in Tables
      /\ j = [from_table |-> j.from_table, from_column |-> j.from_column,
              to_table |-> j.to_table, to_column |-> j.to_column]
  BY DEF Steps
<1>u. Unknown \notin Tables
  BY ProjectsAssumption
<1>1. ASSUME Constrained(p, j)
      PROVE  \E x \in Places(p) : x[1] = 1 /\ JoinOf(Declared(p, x)) = j
  <2>1. PICK i \in DOMAIN p.constraints :
          /\ p.constraints[i].from = j.from_table /\ p.constraints[i].columns = <<j.from_column>>
          /\ p.constraints[i].to = j.to_table /\ p.constraints[i].to_columns[1] = j.to_column
    BY <1>1 DEF Constrained
  <2> DEFINE c == p.constraints[i]
             x == <<1, i>>
  <2>2. IsForeignKey(c)
    BY <1>j, <1>u, <2>1 DEF IsForeignKey
  <2>3. x \in Places(p) /\ x[1] = 1 /\ x[2] = i
    BY <2>2 DEF Places, Constraints, Tests, MinedJoins
  <2>4. Declared(p, x) = ForeignKey(c)
    BY <2>3 DEF Declared
  <2>5. /\ c.from = j.from_table /\ c.columns = <<j.from_column>>
        /\ c.to = j.to_table /\ c.to_columns[1] = j.to_column
    BY <2>1
  <2> HIDE DEF c, x
  <2>6. JoinOf(ForeignKey(c)) = [from_table |-> c.from, from_column |-> c.columns[1],
                                 to_table |-> c.to, to_column |-> c.to_columns[1]]
    BY DEF ForeignKey, Rel, JoinOf
  <2>7. c.columns[1] = j.from_column
    BY <2>5
  <2> QED
    BY <1>j, <2>3, <2>4, <2>5, <2>6, <2>7
<1>2. ASSUME Tested(p, j)
      PROVE  \E x \in Places(p) : x[1] = 2 /\ JoinOf(Declared(p, x)) = j
  <2>1. PICK i \in DOMAIN p.tests :
          p.tests[i] = [from |-> j.from_table, column |-> j.from_column,
                        to |-> j.to_table, field |-> j.to_column]
    BY <1>2 DEF Tested
  <2> DEFINE x == <<2, i>>
  <2>2. x \in Places(p) /\ x[1] = 2 /\ x[2] = i
    BY DEF Places, Constraints, Tests, MinedJoins
  <2>3. Declared(p, x) = RelationshipTest(p.tests[i])
    BY <2>2 DEF Declared
  <2>4. JoinOf(RelationshipTest(p.tests[i])) = j
    BY <1>j, <2>1 DEF RelationshipTest, Rel, JoinOf
  <2> QED
    BY <2>2, <2>3, <2>4
<1>3. ASSUME JoinedBy(p, j), j.from_table # j.to_table
      PROVE  \E x \in Places(p) : x[1] = 3 /\ JoinOf(Declared(p, x)) = j
  <2> DEFINE own == [table |-> j.from_table, column |-> j.from_column]
             other == [table |-> j.to_table, column |-> j.to_column]
  <2>1. PICK i \in DOMAIN p.joins :
          /\ own # other /\ p.joins[i].model = own.table
          /\ \/ p.joins[i].left = own /\ p.joins[i].right = other
             \/ p.joins[i].left = other /\ p.joins[i].right = own
    BY <1>3 DEF JoinedBy
  <2> DEFINE x == <<3, i>>
             k == p.joins[i]
  <2>2. IsMined(k)
    BY <1>j, <1>u, <2>1 DEF IsMined
  <2>3. x \in Places(p) /\ x[1] = 3 /\ x[2] = i
    BY <2>2 DEF Places, Constraints, Tests, MinedJoins
  <2>4. Declared(p, x) = MinedJoin(k)
    BY <2>3 DEF Declared
  <2>5. JoinOf(Mined(own, other)) = j
    BY <1>j DEF Mined, Rel, JoinOf
  <2>6. own.table = j.from_table /\ other.table = j.to_table
    OBVIOUS
  <2>7. k.model = own.table
    BY <2>1
  <2>8. CASE k.left = own /\ k.right = other
    <3>1. MinedJoin(k) = Mined(own, other)
      BY <2>7, <2>8 DEF MinedJoin
    <3> QED
      BY <2>3, <2>4, <2>5, <3>1
  <2>9. CASE k.left = other /\ k.right = own
    <3>1. MinedJoin(k) = Mined(own, other)
      BY <1>3, <2>6, <2>7, <2>9 DEF MinedJoin
    <3> QED
      BY <2>3, <2>4, <2>5, <3>1
  <2> QED
    BY <2>1, <2>8, <2>9
<1> QED
  BY <1>1, <1>2, <1>3

-----------------------------------------------------------------------------
(* What is served. *)

LEMMA ServedIsKept ==
  ASSUME NEW p \in Projects, NEW r \in Served(p)
  PROVE  \E x \in Kept(p) : r = Declared(p, x) /\ Len(r.from_columns) = 1
<1>0. PICK m \in DOMAIN p.models : \E c \in p.models[m] : r \in RelationOf(p, m, c)
  BY DEF Served
<1>1. PICK c \in p.models[m] : r \in RelationOf(p, m, c)
  BY <1>0
<1>2. PICK x \in Kept(p) : r = Declared(p, x) /\ r.from_columns = <<c>>
  BY <1>1 DEF RelationOf
<1> QED
  BY <1>2

(***************************************************************************)
(* A stronger source that states the same join has the same name at an     *)
(* earlier place, so that a kept relationship is of the strongest one.     *)
(***************************************************************************)
LEMMA KeptIsStrongest ==
  ASSUME NEW p \in Projects, NEW x \in Kept(p), NEW y \in Places(p),
         JoinOf(Declared(p, y)) = JoinOf(Declared(p, x))
  PROVE  x[1] <= y[1]
<1>1. x \in Places(p) /\ \A z \in Places(p) : Before(z, x) => Declared(p, z).name # Declared(p, x).name
  BY DEF Kept
<1>2. Declared(p, x).name = Declared(p, y).name
  BY <1>1, DeclaredIsNamed
<1>3. x[1] \in Nat /\ y[1] \in Nat
  BY <1>1, PlacesAreTyped
<1> QED
  BY <1>1, <1>2, <1>3 DEF Before

LEMMA ServedIsStated ==
  ASSUME NEW p \in Projects, NEW r \in Served(p)
  PROVE  Stated(p, JoinOf(r)) /\ r.origin = StrongestOrigin(p, JoinOf(r))
<1>1. PICK x \in Kept(p) : r = Declared(p, x) /\ Len(r.from_columns) = 1
  BY ServedIsKept
<1>2. x \in Places(p)
  BY DEF Kept
<1>3. /\ x[1] = 1 => r.origin = "constraint" /\ Constrained(p, JoinOf(r))
      /\ x[1] = 2 => r.origin = "data_test" /\ Tested(p, JoinOf(r))
      /\ x[1] = 3 => r.origin = "lineage" /\ JoinedBy(p, JoinOf(r))
  BY <1>1, <1>2, DeclaredConstraint, DeclaredTest, DeclaredJoin
<1>4. /\ Constrained(p, JoinOf(r)) => x[1] <= 1
      /\ Tested(p, JoinOf(r)) => x[1] <= 2
  <2>1. JoinOf(r) \in Steps
    BY <1>1, <1>2, DeclaredIsNamed
  <2> QED
    BY <1>1, <2>1, StatedHasPlace, KeptIsStrongest
<1>5. x[1] \in 1 .. 3
  BY <1>2, PlacesAreTyped
<1>6. CASE x[1] = 1
  BY <1>3, <1>6 DEF Stated, StrongestOrigin
<1>7. CASE x[1] = 2
  BY <1>3, <1>4, <1>7 DEF Stated, StrongestOrigin
<1>8. CASE x[1] = 3
  BY <1>3, <1>4, <1>8 DEF Stated, StrongestOrigin
<1> QED
  BY <1>5, <1>6, <1>7, <1>8

(* What nothing contests is served. *)
LEMMA UncontestedIsServed ==
  ASSUME NEW p \in Projects, NEW j \in Steps, j.from_table # j.to_table,
         j.from_table \in DOMAIN p.models, j.from_column \in p.models[j.from_table],
         Stated(p, j), ~Contested(p, j)
  PROVE  j \in Relations(p)
<1> DEFINE name == NameOf(j)
           Named == {x \in Places(p) : Declared(p, x).name = name}
           Own == {x \in Kept(p) : /\ Declared(p, x).from_model = j.from_table
                                   /\ Declared(p, x).from_columns = <<j.from_column>>}
<1>1. Named # {}
  BY StatedHasPlace, DeclaredIsNamed DEF Stated
<1>2. PICK x \in Named : \A y \in Named : ~Before(y, x)
  BY <1>1, FirstPlace
<1>3. x \in Kept(p)
  BY <1>2 DEF Kept
<1>4. ASSUME NEW y \in Places(p),
             \/ Declared(p, y).name = name
             \/ /\ Declared(p, y).from_model = j.from_table
                /\ Declared(p, y).from_columns = <<j.from_column>>
      PROVE  JoinOf(Declared(p, y)) = j /\ Len(Declared(p, y).from_columns) <= 1
  <2>1. Len(Declared(p, y).from_columns) \in Nat
    BY DeclaredIsNamed
  <2>2. name = j.from_table \o j.from_column \o j.to_table \o j.to_column
    BY DEF NameOf
  <2> HIDE DEF name
  <2> DEFINE r == Declared(p, y)
  <2>3. \/ r.name = j.from_table \o j.from_column \o j.to_table \o j.to_column
        \/ r.from_model = j.from_table /\ r.from_columns = <<j.from_column>>
    BY <1>4, <2>2
  <2>4. ~(JoinOf(r) # j \/ Len(r.from_columns) > 1)
    BY <2>3, Zenon DEF Contested
  <2> QED
    BY <2>1, <2>4
<1>5. x \in Own
  <2>1. /\ JoinOf(Declared(p, x)) = j /\ Len(Declared(p, x).from_columns) <= 1
        /\ Declared(p, x).from_columns \in Seq(Columns)
        /\ Len(Declared(p, x).from_columns) >= 1
        /\ Declared(p, x).from_model = j.from_table
        /\ Declared(p, x).from_columns[1] = j.from_column
    BY <1>2, <1>4, DeclaredIsNamed
  <2>2. Declared(p, x).from_columns = <<j.from_column>>
    BY <2>1
  <2> QED
    BY <1>3, <2>1, <2>2
<1>6. PICK z \in Own : \A y \in Own : ~Before(z, y)
  <2>1. Own \in SUBSET Places(p) /\ Own # {}
    BY <1>5 DEF Kept
  <2> HIDE DEF Own
  <2> QED
    BY <2>1, LastPlace
<1>7. Declared(p, z) \in RelationOf(p, j.from_table, j.from_column)
  BY <1>6 DEF RelationOf
<1>8. Declared(p, z) \in Served(p)
  BY <1>7 DEF Served
<1>9. JoinOf(Declared(p, z)) = j
  <2>1. z \in Places(p)
    BY <1>6 DEF Kept
  <2> QED
    BY <1>4, <1>6, <2>1
<1> QED
  BY <1>8, <1>9 DEF Relations

-----------------------------------------------------------------------------
(* Behaviours. *)

GraphInv == project \in Projects /\ registry = Relations(project)

LEMMA GraphAlways == GraphSpec => []GraphInv
<1>1. GraphInit => GraphInv
  BY DEF GraphInit, GraphInv
<1>2. GraphInv /\ [GraphNext]_<<project, vars>> => GraphInv'
  <2>1. Next => UNCHANGED registry
    BY DEF Next, AskUnseen, AskSame, Ask, Round, Answer, Forget
  <2> QED
    BY <2>1 DEF GraphInv, GraphNext, vars
<1> QED
  BY <1>1, <1>2, PTL DEF GraphSpec

(* A server that was started with a project searches as any other. *)
LEMMA GraphSearches == GraphSpec => Spec
<1>1. GraphInit => Init
  BY DEF GraphInit
<1>2. [GraphNext]_<<project, vars>> => [Next]_vars
  BY DEF GraphNext
<1> QED
  BY <1>1, <1>2, PTL DEF GraphSpec, Spec

(***************************************************************************)
(* Priority, for every project and whatever its names come to: what is     *)
(* served is stated, and its origin is the strongest that states it.       *)
(***************************************************************************)
THEOREM ServedAsStatedAlways == GraphSpec => []ServedAsStated
<1>1. GraphInv => ServedAsStated
  BY ServedIsStated DEF GraphInv, ServedAsStated
<1> QED
  BY <1>1, GraphAlways, PTL

(***************************************************************************)
(* From the files to the agent, for every project: a join between two      *)
(* tables that is stated and that nothing contests is among the paths      *)
(* find_path lists, whatever else the project relates.                     *)
(***************************************************************************)
THEOREM StatedJoinsAreFound == GraphSpec => []StatedJoinsFound
<1>1. GraphInv /\ Inv => StatedJoinsFound
  <2> SUFFICES ASSUME GraphInv, Inv, status = "answered", Permitted,
                      NEW c \in Columns, NEW d \in Columns,
                      NEW j, j = [from_table |-> asked.from_table, from_column |-> c,
                                  to_table |-> asked.to_table, to_column |-> d],
                      NEW e \in {j, Reversed(j)},
                      e.from_table # e.to_table,
                      e.from_table \in DOMAIN project.models,
                      e.from_column \in project.models[e.from_table],
                      Stated(project, e), ~Contested(project, e)
               PROVE  <<j>> \in found
    BY DEF StatedJoinsFound
  <2>1. asked.from_table \in Tables /\ asked.to_table \in Tables
    BY DEF Inv, TypeOK
  <2>2. j \in Steps /\ e \in Steps /\ (e = j \/ (e = Reversed(j) /\ Reversed(e) = j))
    BY <2>1 DEF Steps, Reversed
  <2>3. e \in registry
    BY <2>2, UncontestedIsServed DEF GraphInv
  <2>4. j \in Edges
    BY <2>2, <2>3 DEF Edges
  <2>5. asked.from_table # asked.to_table
    BY <2>2 DEF Reversed
  <2>6. <<j>> \in JoinsTo(1, asked.to_table)
    BY <2>4 DEF JoinsTo, Joins
  <2>7. JoinsTo(0, asked.to_table) = {}
    BY <2>5 DEF JoinsTo, Joins
  <2>8. Complete(found) /\ found \subseteq Seq(Edges)
    BY DEF Inv, AnswerInv, TypeOK
  <2>9. PICK p \in found : Len(p) <= 1
    BY <2>6, <2>8 DEF Complete
  <2>10. Len(p) # 0
    BY <2>7, <2>8, <2>9 DEF Complete
  <2>11. Len(p) = 1
    BY <2>8, <2>9, <2>10
  <2> QED
    BY <2>6, <2>8, <2>9, <2>11 DEF Complete
<1> QED
  BY <1>1, GraphAlways, GraphSearches, Invariance, PTL

=============================================================================
