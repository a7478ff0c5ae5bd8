-------------------------- MODULE AccessControlProofs --------------------------
(***************************************************************************)
(* Proofs about AccessPolicy and AccessControl, for any tables, columns,   *)
(* callers, rules, and for any trees, values and claims of row filters.    *)
(*                                                                         *)
(* Of the behaviours one fact is needed: while the server runs its rules   *)
(* do not change, so the last answer and every listing are what the rules  *)
(* now in force decide (Decided).  The rest are facts about the operators  *)
(* that decide.                                                            *)
(*                                                                         *)
(* What a recursive function on row filters computes is shown in three     *)
(* steps: such a function exists (TreeRecursion), hence the functions of   *)
(* RowFilter satisfy their equations (ValidNodesEquation and so on), and   *)
(* what passes from the sub-trees to the tree holds of all trees           *)
(* (LowestTree).                                                           *)
(***************************************************************************)
EXTENDS AccessControl, Trees

Listings ==
  {None} \cup {EffectiveRegistry(P, u) : P \in SUBSET Entries, u \in Subjects}

(* Answers and listings agree with the rules in force. *)
Decided ==
  /\ phase \in {"editing", "serving", "refused"}
  /\ policies \subseteq Entries
  /\ phase # "serving" => asked = NotAsked
  /\ phase # "serving" => \A u \in Subjects : listed[u] = None
  /\ listed \in [Subjects -> Listings]
  /\ \A u \in Subjects : listed[u] # None => listed[u] = EffectiveRegistry(policies, u)
  /\ asked = NotAsked => answer = None
  /\ asked # NotAsked =>
       /\ asked \in [by : Subjects, query : Queries]
       /\ Reads(asked.query) \subseteq Registry[asked.query.table]
       /\ answer = CompileQuery(policies, asked.by, asked.query)

LEMMA DecidedInit == Init => Decided
  BY DEF Init, Decided, Listings

LEMMA DecidedNext == Decided /\ [Next]_vars => Decided'
<1> SUFFICES ASSUME Decided, [Next]_vars PROVE Decided'
  OBVIOUS
<1>1. ASSUME NEW e \in Entries, WriteRule(e) PROVE Decided'
  BY <1>1 DEF WriteRule, Decided
<1>2. CASE Start
  BY <1>2 DEF Start, Decided
<1>3. ASSUME NEW u \in Subjects, Discover(u) PROVE Decided'
  <2>1. /\ listed' \in [Subjects -> Listings]
        /\ \A v \in Subjects : listed'[v] # None => listed'[v] = EffectiveRegistry(policies, v)
    <3>1. EffectiveRegistry(policies, u) \in Listings
      BY DEF Listings, Decided
    <3>2. QED BY <1>3, <3>1 DEF Discover, Decided
  <2>2. QED BY <1>3, <2>1 DEF Discover, Decided
<1>4. ASSUME NEW u \in Subjects, NEW q \in Queries, Query(u, q) PROVE Decided'
  <2>1. asked' # NotAsked
    BY <1>4, PolicyAssumption DEF Query, NotAsked
  <2>2. Reads(q) \subseteq Registry[q.table]
    BY <1>4 DEF Query, Reads, ScalarColumns
  <2>3. QED BY <1>4, <2>1, <2>2 DEF Query, Decided
<1>5. CASE Stop
  <2>1. listed' \in [Subjects -> Listings]
    BY <1>5 DEF Stop, Listings
  <2>2. QED BY <1>5, <2>1 DEF Stop, Decided
<1>6. CASE UNCHANGED vars
  BY <1>6 DEF vars, Decided
<1>7. QED BY <1>1, <1>2, <1>3, <1>4, <1>5, <1>6 DEF Next

LEMMA DecidedAlways == Spec => []Decided
  BY DecidedInit, DecidedNext, PTL DEF Spec

-----------------------------------------------------------------------------
(* What a granted query says about the decision behind it. *)

LEMMA GrantedMeans ==
  ASSUME Decided, Granted
  PROVE  /\ asked \in [by : Subjects, query : Queries]
         /\ Decide(policies, asked.query.table, asked.by).code = "ok"
         /\ Reads(asked.query) \subseteq Decide(policies, asked.query.table, asked.by).visible
         /\ Reads(asked.query) \subseteq Columns
         /\ DOMAIN answer.values \subseteq Reads(asked.query)
         /\ \A c \in DOMAIN answer.values :
              answer.values[c] = Shown(Decide(policies, asked.query.table, asked.by), c)
         /\ answer.rows = Decide(policies, asked.query.table, asked.by).rows
         /\ answer.filtered = Decide(policies, asked.query.table, asked.by).filtered
<1>1. asked # NotAsked
  BY DEF Decided, Granted
<1>2. asked \in [by : Subjects, query : Queries]
  BY <1>1 DEF Decided
<1>3. answer = CompileQuery(policies, asked.by, asked.query) /\ answer.code = "ok"
  BY <1>1 DEF Decided, Granted
<1>4. Reads(asked.query) \subseteq Columns
  BY <1>2 DEF Reads, Queries
<1>5. QED BY <1>2, <1>3, <1>4 DEF CompileQuery, Refused, Reads

LEMMA ResolveVisible ==
  ASSUME NEW allows, NEW denies, NEW u
  PROVE  Resolve(allows, denies, u).visible =
           (AllowedColumns(Levels(allows)) \ BlockedColumns(Levels(allows)))
             \ DeniedColumns(denies)
  BY DEF Resolve

LEMMA ResolveMasks ==
  ASSUME NEW allows, NEW denies, NEW u
  PROVE  /\ DOMAIN Resolve(allows, denies, u).masks =
              MaskedColumns(Levels(allows)) \ DeniedColumns(denies)
         /\ \A c \in MaskedColumns(Levels(allows)) \ DeniedColumns(denies) :
              Resolve(allows, denies, u).masks[c] = (CHOOSE l \in Levels(allows) : TRUE).mask[c]
  BY DEF Resolve

LEMMA ResolveRows ==
  ASSUME NEW allows, NEW denies, NEW u
  PROVE  Resolve(allows, denies, u).rows = AdmittedRows(allows, u)
  BY DEF Resolve

LEMMA ResolveCode ==
  ASSUME NEW allows, NEW denies, NEW u
  PROVE  /\ Resolve(allows, denies, u).code = "ok"
         /\ Resolve(allows, denies, u).filtered \in BOOLEAN
  BY DEF Resolve

(* The column policies and filters that are merged have the shapes pydantic gave them. *)
LEMMA LevelsTyped ==
  ASSUME NEW P, P \subseteq Entries, NEW t, NEW u
  PROVE  /\ \A l \in Levels(TablePoliciesOf(P, t, u, "allow")) : IsColumnLevel(l)
         /\ RowFilters(TablePoliciesOf(P, t, u, "allow")) \subseteq Filters
<1>1. \A p \in TablePoliciesOf(P, t, u, "allow") : IsTablePolicy(p)
  BY PolicyAssumption DEF TablePoliciesOf, Matching, IsPolicyEntry
<1>2. QED BY <1>1 DEF Levels, RowFilters, IsTablePolicy

LEMMA DecideMeans ==
  ASSUME NEW P, NEW t, NEW u, P # {}, Decide(P, t, u).code = "ok"
  PROVE  /\ \A p \in TablePoliciesOf(P, t, u, "deny") : ~p.deny_all
         /\ TablePoliciesOf(P, t, u, "allow") # {}
         /\ ~MaskConflict(Levels(TablePoliciesOf(P, t, u, "allow")))
         /\ Decide(P, t, u) =
              Resolve(TablePoliciesOf(P, t, u, "allow"), TablePoliciesOf(P, t, u, "deny"), u)
  BY DEF Decide, Evaluate, Refusal

LEMMA MasksAreExpressions ==
  ASSUME NEW P, P \subseteq Entries, NEW t, NEW u, Decide(P, t, u).code = "ok",
         NEW c \in DOMAIN Decide(P, t, u).masks
  PROVE  Decide(P, t, u).masks[c] \in Exprs
<1> DEFINE levels == Levels(TablePoliciesOf(P, t, u, "allow"))
<1>1. P # {}
  BY DEF Decide, Unenforced
<1>2. Decide(P, t, u) = Resolve(TablePoliciesOf(P, t, u, "allow"), TablePoliciesOf(P, t, u, "deny"), u)
  BY <1>1, DecideMeans
<1>3. c \in MaskedColumns(levels) /\ Decide(P, t, u).masks[c] = (CHOOSE l \in levels : TRUE).mask[c]
  BY <1>2, ResolveMasks
<1>4. (CHOOSE l \in levels : TRUE) \in levels
  BY <1>3 DEF MaskedColumns
<1>5. QED BY <1>3, <1>4, LevelsTyped DEF MaskedColumns, IsColumnLevel

-----------------------------------------------------------------------------

(***************************************************************************)
(* A deny always wins over an allow, for every rule set.                   *)
(***************************************************************************)
THEOREM DenyWinsAlways == Spec => []DenyWins
<1>1. Decided => DenyWins
  <2> SUFFICES ASSUME Decided, Granted,
                      NEW e \in Matching(policies, asked.query.table, asked.by, "deny")
               PROVE  LET tp == e.tables[asked.query.table]
                      IN  ~tp.deny_all /\ tp.deny_columns \cap Reads(asked.query) = {}
    BY DEF DenyWins
  <2> DEFINE t == asked.query.table
             u == asked.by
             denies == TablePoliciesOf(policies, t, u, "deny")
  <2>1. e.tables[t] \in denies /\ policies # {}
    BY DEF TablePoliciesOf, Matching
  <2>2. Decide(policies, t, u).code = "ok" /\ Reads(asked.query) \subseteq Decide(policies, t, u).visible
    BY GrantedMeans
  <2>3. ~e.tables[t].deny_all
    BY <2>1, <2>2, DecideMeans
  <2>4. Decide(policies, t, u).visible \cap DeniedColumns(denies) = {}
    <3>1. Decide(policies, t, u) = Resolve(TablePoliciesOf(policies, t, u, "allow"), denies, u)
      BY <2>1, <2>2, DecideMeans
    <3>2. QED BY <3>1, ResolveVisible
  <2>5. e.tables[t].deny_columns \subseteq DeniedColumns(denies)
    BY <2>1 DEF DeniedColumns
  <2>6. QED BY <2>2, <2>3, <2>4, <2>5
<1>2. QED BY <1>1, DecidedAlways, PTL

(***************************************************************************)
(* Default-deny: nothing is granted but by a matching allow rule.          *)
(***************************************************************************)
THEOREM GrantedByAllowAlways == Spec => []GrantedByAllow
<1>1. Decided => GrantedByAllow
  <2> SUFFICES ASSUME Decided, Granted, policies # {}
               PROVE  GrantedByAllow
    BY DEF GrantedByAllow
  <2> DEFINE t == asked.query.table
             u == asked.by
             allows == TablePoliciesOf(policies, t, u, "allow")
             levels == Levels(allows)
  <2>1. Decide(policies, t, u).code = "ok" /\ Reads(asked.query) \subseteq Decide(policies, t, u).visible
    BY GrantedMeans
  <2>2. allows # {} /\ Reads(asked.query) \subseteq AllowedColumns(levels)
    <3>1. /\ allows # {}
          /\ Decide(policies, t, u)
               = Resolve(allows, TablePoliciesOf(policies, t, u, "deny"), u)
      BY <2>1, DecideMeans
    <3>2. QED BY <2>1, <3>1, ResolveVisible
  <2>3. ASSUME levels # {}, NEW c \in Reads(asked.query)
        PROVE  \E l \in levels : l.include_all \/ c \in l.includes
    BY <2>2, <2>3 DEF AllowedColumns
  <2>4. QED BY <2>2, <2>3 DEF GrantedByAllow
<1>2. QED BY <1>1, DecidedAlways, PTL

(***************************************************************************)
(* A row filter of a matching rule is never bypassed by another rule.      *)
(***************************************************************************)
THEOREM RowsPassAFilterAlways == Spec => []RowsPassAFilter
<1>1. Decided => RowsPassAFilter
  <2> SUFFICES ASSUME Decided, Granted,
                      RowFilters(TablePoliciesOf(policies, asked.query.table, asked.by, "allow")) # {},
                      NEW r \in answer.rows
               PROVE  \E f \in RowFilters(TablePoliciesOf(policies, asked.query.table,
                                                          asked.by, "allow")) :
                        r \in RowsOf(f, asked.by)
    BY DEF RowsPassAFilter
  <2> DEFINE t == asked.query.table
             u == asked.by
             allows == TablePoliciesOf(policies, t, u, "allow")
  <2>1. policies # {}
    BY DEF RowFilters, TablePoliciesOf, Matching
  <2>2. Decide(policies, t, u).code = "ok" /\ r \in Decide(policies, t, u).rows
    BY GrantedMeans
  <2>3. r \in AdmittedRows(allows, u)
    <3>1. Decide(policies, t, u)
            = Resolve(allows, TablePoliciesOf(policies, t, u, "deny"), u)
      BY <2>1, <2>2, DecideMeans
    <3>2. QED BY <2>2, <3>1, ResolveRows
  <2>4. QED BY <2>3 DEF AdmittedRows
<1>2. QED BY <1>1, DecidedAlways, PTL

(***************************************************************************)
(* A value of a row is masked only by common consent, raw only without it. *)
(***************************************************************************)
THEOREM MasksUnanimousAlways == Spec => []MasksUnanimous
<1>1. Decided => MasksUnanimous
  <2> SUFFICES ASSUME Decided, Granted, NEW c \in DOMAIN answer.values
               PROVE  LET levels == Levels(TablePoliciesOf(policies, asked.query.table,
                                                           asked.by, "allow"))
                      IN  IF answer.values[c] = Raw
                            THEN levels = {} \/ \E l \in levels : c \notin DOMAIN l.mask
                            ELSE \A l \in levels :
                                   c \in DOMAIN l.mask /\ l.mask[c] = answer.values[c]
    BY DEF MasksUnanimous
  <2> DEFINE t == asked.query.table
             u == asked.by
             allows == TablePoliciesOf(policies, t, u, "allow")
             denies == TablePoliciesOf(policies, t, u, "deny")
             levels == Levels(allows)
  <2>1. /\ Decide(policies, t, u).code = "ok"
        /\ c \in Decide(policies, t, u).visible
        /\ c \in Columns
        /\ answer.values[c] = Shown(Decide(policies, t, u), c)
    BY GrantedMeans
  <2>2. CASE policies = {}
    <3>1. levels = {}
      BY <2>2 DEF Levels, TablePoliciesOf, Matching
    <3>2. QED BY <3>1
  <2>3. CASE policies # {}
    <3>1. Decide(policies, t, u) = Resolve(allows, denies, u) /\ ~MaskConflict(levels)
      BY <2>1, <2>3, DecideMeans
    <3>2. c \notin DeniedColumns(denies)
      BY <2>1, <3>1, ResolveVisible
    <3>3. /\ DOMAIN Decide(policies, t, u).masks = MaskedColumns(levels) \ DeniedColumns(denies)
          /\ \A d \in MaskedColumns(levels) \ DeniedColumns(denies) :
               Decide(policies, t, u).masks[d] = (CHOOSE l \in levels : TRUE).mask[d]
      BY <3>1, ResolveMasks
    <3>4. CASE c \in MaskedColumns(levels)
      <4>1. answer.values[c] = (CHOOSE l \in levels : TRUE).mask[c]
        BY <2>1, <3>2, <3>3, <3>4 DEF Shown
      <4>2. (CHOOSE l \in levels : TRUE) \in levels
        BY <3>4 DEF MaskedColumns
      <4>3. \A l \in levels : c \in DOMAIN l.mask
        BY <3>4 DEF MaskedColumns
      <4>4. \A l \in levels : l.mask[c] = answer.values[c]
        BY <3>1, <3>4, <4>1, <4>2 DEF MaskConflict
      <4>5. answer.values[c] \in Exprs
        <5>1. \A l \in levels : IsColumnLevel(l)
          BY LevelsTyped DEF Decided
        <5>2. QED BY <4>2, <4>3, <4>4, <5>1 DEF IsColumnLevel
      <4>6. QED BY <4>3, <4>4, <4>5, PolicyAssumption
    <3>5. CASE c \notin MaskedColumns(levels)
      <4>1. answer.values[c] = Raw
        BY <2>1, <3>3, <3>5 DEF Shown
      <4>2. QED BY <2>1, <3>5, <4>1 DEF MaskedColumns
    <3>6. QED BY <3>4, <3>5
  <2>4. QED BY <2>2, <2>3
<1>2. QED BY <1>1, DecidedAlways, PTL

(***************************************************************************)
(* What a caller was shown of the registry is what its queries get.        *)
(***************************************************************************)
THEOREM DiscoveryAgreesAlways == Spec => []DiscoveryAgrees
<1>1. Decided => DiscoveryAgrees
  <2> SUFFICES ASSUME Decided, answer # None, listed[asked.by] # None
               PROVE  DiscoveryAgrees
    BY DEF DiscoveryAgrees
  <2> DEFINE q == asked.query
             resolved == Decide(policies, asked.query.table, asked.by)
             view == listed[asked.by]
  <2>1. /\ asked \in [by : Subjects, query : Queries]
        /\ Reads(q) \subseteq Registry[q.table]
        /\ answer = CompileQuery(policies, asked.by, q)
    BY DEF Decided
  <2>2. view = EffectiveRegistry(policies, asked.by) /\ q.table \in RegistryTables
    BY <2>1 DEF Decided, Queries
  <2>3. q.table \in DOMAIN view <=> resolved.code = "ok"
    <3>1. DOMAIN EffectiveRegistry(policies, asked.by)
            = {s \in RegistryTables : Decide(policies, s, asked.by).code = "ok"}
      BY DEF EffectiveRegistry
    <3>2. QED BY <2>2, <3>1
  <2>4. ASSUME resolved.code = "ok"
        PROVE  /\ view[q.table].filtered = resolved.filtered
               /\ DOMAIN view[q.table].masked = Registry[q.table] \cap resolved.visible
               /\ \A c \in Registry[q.table] \cap resolved.visible :
                    view[q.table].masked[c] <=>
                      c \in DOMAIN resolved.masks /\ resolved.masks[c] # NullMask
    BY <2>2, <2>4 DEF EffectiveRegistry
  <2>5. Granted <=> resolved.code = "ok" /\ Reads(q) \subseteq resolved.visible
    BY <2>1 DEF Granted, CompileQuery, Refused
  <2>6. Granted => answer.filtered = resolved.filtered
    BY GrantedMeans
  <2>7. ASSUME Granted, NEW c \in DOMAIN answer.values
        PROVE  view[q.table].masked[c] <=> answer.values[c] \notin {Raw, NullMask}
    <3>1. /\ c \in Registry[q.table] \cap resolved.visible
          /\ answer.values[c] = Shown(resolved, c)
      BY <2>1, <2>7, GrantedMeans
    <3>2. view[q.table].masked[c] <=> c \in DOMAIN resolved.masks /\ resolved.masks[c] # NullMask
      BY <2>4, <2>5, <2>7, <3>1
    <3>3. c \in DOMAIN resolved.masks => resolved.masks[c] # Raw
      BY <2>5, <2>7, MasksAreExpressions, PolicyAssumption DEF Decided
    <3>4. QED BY <3>1, <3>2, <3>3 DEF Shown
  <2>8. QED BY <2>1, <2>3, <2>4, <2>5, <2>6, <2>7 DEF DiscoveryAgrees
<1>2. QED BY <1>1, DecidedAlways, PTL

-----------------------------------------------------------------------------

LEMMA DenyAddsNothing ==
  ASSUME NEW P, NEW e, e.effect = "deny", NEW t, NEW u
  PROVE  Cells(P \cup {e}, t, u) \subseteq Cells(P, t, u)
<1> DEFINE Q == P \cup {e}
           allows == TablePoliciesOf(P, t, u, "allow")
           before == TablePoliciesOf(P, t, u, "deny")
           after == TablePoliciesOf(Q, t, u, "deny")
<1>1. TablePoliciesOf(Q, t, u, "allow") = allows /\ before \subseteq after
  BY DEF TablePoliciesOf, Matching
<1>2. CASE Decide(Q, t, u).code # "ok"
  <2>1. Decide(Q, t, u).rows = {}
    BY <1>2, ResolveCode DEF Decide, Evaluate, Refusal, Unenforced
  <2>2. QED BY <2>1 DEF Cells
<1>3. CASE Decide(Q, t, u).code = "ok"
  <2>1. /\ allows # {}
        /\ \A p \in after : ~p.deny_all
        /\ ~MaskConflict(Levels(allows))
        /\ Decide(Q, t, u) = Resolve(allows, after, u)
    BY <1>1, <1>3, DecideMeans
  <2>1a. Decide(Q, t, u) = Resolve(allows, after, u)
    BY <2>1
  <2>2. P # {}
    BY <2>1 DEF TablePoliciesOf, Matching
  <2>3. Decide(P, t, u) = Resolve(allows, before, u)
    BY <1>1, <2>1, <2>2 DEF Decide, Evaluate
  <2>4. DeniedColumns(before) \subseteq DeniedColumns(after)
    BY <1>1 DEF DeniedColumns
  <2>5. Decide(Q, t, u).rows = Decide(P, t, u).rows
    BY <2>1, <2>3, ResolveRows
  <2>6. Decide(Q, t, u).visible \subseteq Decide(P, t, u).visible
    BY <2>1, <2>3, <2>4, ResolveVisible
  <2>7. ASSUME NEW c \in Decide(Q, t, u).visible
        PROVE  Shown(Decide(Q, t, u), c) = Shown(Decide(P, t, u), c)
    <3>1. c \notin DeniedColumns(after) /\ c \notin DeniedColumns(before)
      BY <2>1, <2>4, ResolveVisible
    <3>2. /\ DOMAIN Decide(Q, t, u).masks = MaskedColumns(Levels(allows)) \ DeniedColumns(after)
          /\ \A d \in MaskedColumns(Levels(allows)) \ DeniedColumns(after) :
               Decide(Q, t, u).masks[d] = (CHOOSE l \in Levels(allows) : TRUE).mask[d]
      BY <2>1a, ResolveMasks
    <3>3. /\ DOMAIN Decide(P, t, u).masks = MaskedColumns(Levels(allows)) \ DeniedColumns(before)
          /\ \A d \in MaskedColumns(Levels(allows)) \ DeniedColumns(before) :
               Decide(P, t, u).masks[d] = (CHOOSE l \in Levels(allows) : TRUE).mask[d]
      BY <2>3, ResolveMasks
    <3>4. QED BY <3>1, <3>2, <3>3 DEF Shown
  <2>8. QED BY <2>5, <2>6, <2>7 DEF Cells
<1>4. QED BY <1>2, <1>3

(***************************************************************************)
(* One more deny rule never shows anybody anything more.                   *)
(***************************************************************************)
THEOREM DenyShrinksAlways == Spec => DenyShrinks
<1>1. \A e \in Entries :
        WriteRule(e) /\ e.effect = "deny" =>
          \A u \in Subjects, t \in RegistryTables :
            Cells(policies', t, u) \subseteq Cells(policies, t, u)
  BY DenyAddsNothing DEF WriteRule
<1>2. QED BY <1>1, PTL DEF Spec, DenyShrinks

-----------------------------------------------------------------------------

LEMMA AnswersTyped ==
  ASSUME NEW P, P \subseteq Entries, NEW u \in Subjects, NEW q \in Queries
  PROVE  CompileQuery(P, u, q) \in Answers
<1> DEFINE resolved == Decide(P, q.table, u)
           allows == TablePoliciesOf(P, q.table, u, "allow")
           levels == Levels(allows)
<1>1. \A c : c \in {"FORBIDDEN_TABLE", "FORBIDDEN_COLUMN", "POLICY_MASK_CONFLICT"}
             => Refused(c) \in Answers
  <2>1. [x \in {} |-> Raw] \in [{} -> Exprs \cup {Raw}]
    OBVIOUS
  <2>2. [x \in {} |-> Raw] \in Projections
    BY <2>1 DEF Projections
  <2>3. QED BY <2>2 DEF Refused, Answers
<1>2. resolved.code \in {"ok", "FORBIDDEN_TABLE", "POLICY_MASK_CONFLICT"}
  BY ResolveCode DEF Decide, Evaluate, Refusal, Unenforced
<1>3. ASSUME resolved.code = "ok"
      PROVE  /\ resolved.rows \subseteq Rows
             /\ resolved.filtered \in BOOLEAN
             /\ \A c : Shown(resolved, c) \in Exprs \cup {Raw}
  <2>1. CASE P = {}
    BY <2>1 DEF Decide, Unenforced, Shown
  <2>2. CASE P # {}
    <3>1. resolved = Resolve(allows, TablePoliciesOf(P, q.table, u, "deny"), u)
      BY <1>3, <2>2, DecideMeans
    <3>2. resolved.rows \subseteq Rows
      <4>1. resolved.rows = AdmittedRows(allows, u)
        BY <3>1, ResolveRows
      <4>2. RowFilters(allows) \subseteq Filters
        BY LevelsTyped
      <4>3. \A f \in RowFilters(allows) : RowsOf(f, u) \subseteq Rows
        BY <4>2, PolicyAssumption
      <4>4. QED BY <4>1, <4>3 DEF AdmittedRows
    <3>3. resolved.filtered \in BOOLEAN
      BY <3>1, ResolveCode
    <3>4. ASSUME NEW c \in DOMAIN resolved.masks PROVE resolved.masks[c] \in Exprs
      BY <1>3, MasksAreExpressions
    <3>5. QED BY <3>2, <3>3, <3>4 DEF Shown
  <2>3. QED BY <2>1, <2>2
<1>4. CASE resolved.code = "ok" /\ Reads(q) \subseteq resolved.visible
  <2> DEFINE rowsOf == q.select \cap ScalarColumns(q.table)
  <2>1. rowsOf \in SUBSET Columns /\ q.aggregates \in SUBSET Columns
    BY DEF Queries
  <2>2. /\ [c \in rowsOf |-> Shown(resolved, c)] \in [rowsOf -> Exprs \cup {Raw}]
        /\ [c \in q.aggregates |-> Raw] \in [q.aggregates -> Exprs \cup {Raw}]
    BY <1>3, <1>4
  <2>3. /\ [c \in rowsOf |-> Shown(resolved, c)] \in Projections
        /\ [c \in q.aggregates |-> Raw] \in Projections
    BY <2>1, <2>2 DEF Projections
  <2>4. QED BY <1>3, <1>4, <2>3 DEF CompileQuery, Answers
<1>5. CASE ~(resolved.code = "ok" /\ Reads(q) \subseteq resolved.visible)
  BY <1>1, <1>2, <1>5 DEF CompileQuery
<1>6. QED BY <1>4, <1>5

(***************************************************************************)
(* Type correctness.                                                       *)
(***************************************************************************)
THEOREM TypeCorrect == Spec => []TypeOK
<1>1. Decided => TypeOK
  <2> SUFFICES ASSUME Decided PROVE TypeOK
    OBVIOUS
  <2>1. CASE asked = NotAsked
    BY <2>1 DEF Decided, TypeOK
  <2>2. CASE asked # NotAsked
    <3>1. answer \in Answers
      BY <2>2, AnswersTyped DEF Decided
    <3>2. answer # None
      BY <3>1, AnswersAssumption
    <3>3. QED BY <2>2, <3>1, <3>2 DEF Decided, TypeOK
  <2>3. QED BY <2>1, <2>2
<1>2. QED BY <1>1, DecidedAlways, PTL

-----------------------------------------------------------------------------
(* The trees of row filters. *)

KidsOf == [n \in Nodes |-> Kids(n)]

LEMMA HeightOfKids ==
  /\ \A n \in Nodes : Height[n] \in Nat
  /\ \A n \in Nodes : \A k \in Kids(n) : k \in Nodes /\ Height[k] \in Nat /\ Height[k] < Height[n]
  <1>1. /\ Height \in [Nodes -> Nat]
        /\ \A n \in Nodes : \A k \in Kids(n) : k \in Nodes /\ Height[k] < Height[n]
    BY TreesAssumption
  <1> QED BY <1>1

LEMMA NodesForest == IsForest(Nodes, KidsOf, Height)
  <1>1. /\ Height \in [Nodes -> Nat]
        /\ \A n \in Nodes : \A k \in Kids(n) : k \in Nodes /\ Height[k] < Height[n]
    BY TreesAssumption
  <1>2. KidsOf \in [Nodes -> SUBSET Nodes]
    BY <1>1 DEF KidsOf
  <1> QED BY <1>1, <1>2 DEF IsForest, KidsOf

(* Of nodes with a property one is lowest. *)
LEMMA LowestNode ==
  ASSUME NEW T \in SUBSET Nodes, T # {}
  PROVE  \E n \in T : Kids(n) \cap T = {}
  BY NodesForest, LowestTree DEF KidsOf

LEMMA NodeRecursion ==
  ASSUME NEW V, NEW H, OfKidsOnly(Nodes, KidsOf, V, H)
  PROVE  \E g \in [Nodes -> V] : \A n \in Nodes : g[n] = H[n][g]
  BY NodesForest, TreeRecursion DEF Solutions

(* The sub-trees below a logical operator are those of its first key. *)
LEMMA FirstKids ==
  ASSUME NEW n \in Nodes, n.ops # <<>>
  PROVE  /\ n.ops[1] \in ToSet(n.ops)
         /\ ToSet(n.ops[1].kids) \subseteq Kids(n)
  <1>1. IsSequence(n.ops)
    BY TreesAssumption
  <1>2. Len(n.ops) > 0
    BY <1>1 DEF IsSequence
  <1>3. 1 \in DOMAIN n.ops
    BY <1>1, <1>2 DEF IsSequence
  <1>4. n.ops[1] \in ToSet(n.ops)
    BY <1>3 DEF ToSet
  <1> QED BY <1>4 DEF Kids

LEMMA OnlyKid ==
  ASSUME NEW n \in Nodes, NEW o \in ToSet(n.ops), Len(o.kids) = 1
  PROVE  \E k \in ToSet(o.kids) : ToSet(o.kids) = {k}
  <1>1. IsSequence(o.kids)
    BY TreesAssumption
  <1>2. DOMAIN o.kids = {1}
    BY <1>1 DEF IsSequence
  <1> QED BY <1>2 DEF ToSet

LEMMA FirstKey ==
  ASSUME NEW n \in Nodes, Len(n.keys) > 0
  PROVE  Head(n.keys) \in ToSet(n.keys)
  <1>1. IsSequence(n.keys)
    BY TreesAssumption
  <1>2. 1 \in DOMAIN n.keys /\ Head(n.keys) = n.keys[1]
    BY <1>1 DEF IsSequence
  <1> QED BY <1>2 DEF ToSet

LEMMA OnlyKey ==
  ASSUME NEW n \in Nodes, Len(n.keys) > 0, Len(n.keys) <= 1
  PROVE  ToSet(n.keys) = {Head(n.keys)}
  <1>1. IsSequence(n.keys)
    BY TreesAssumption
  <1>2. DOMAIN n.keys = {1} /\ Head(n.keys) = n.keys[1]
    BY <1>1 DEF IsSequence
  <1> QED BY <1>2 DEF ToSet

LEMMA OnlyOp ==
  ASSUME NEW n \in Nodes, n.ops # <<>>, Len(n.ops) <= 1
  PROVE  ToSet(n.ops[1].kids) = Kids(n)
  <1>1. IsSequence(n.ops)
    BY TreesAssumption
  <1>2. DOMAIN n.ops = {1}
    BY <1>1 DEF IsSequence
  <1>3. ToSet(n.ops) = {n.ops[1]}
    BY <1>2 DEF ToSet
  <1> QED BY <1>3 DEF Kids

-----------------------------------------------------------------------------
(* The recursive functions of RowFilter satisfy their equations. *)

LEMMA ValidNodesEquation ==
  ASSUME NEW columns
  PROVE  /\ ValidNodes(columns) \in [Nodes -> BOOLEAN]
         /\ \A n \in Nodes :
              ValidNodes(columns)[n] = WellFormedNode(n, ValidNodes(columns), columns)
  <1> DEFINE P(v) == v = [n \in Nodes |-> WellFormedNode(n, v, columns)]
             H == [n \in Nodes |-> [g \in [Nodes -> BOOLEAN] |-> WellFormedNode(n, g, columns)]]
  <1>1. \A v : \A n \in Nodes : WellFormedNode(n, v, columns) \in BOOLEAN
    BY DEF WellFormedNode
  <1>2. H \in [Nodes -> [[Nodes -> BOOLEAN] -> BOOLEAN]]
    BY <1>1
  <1>3. ASSUME NEW n \in Nodes, NEW g \in [Nodes -> BOOLEAN], NEW h \in [Nodes -> BOOLEAN],
               \A k \in Kids(n) : g[k] = h[k]
        PROVE  WellFormedNode(n, g, columns) = WellFormedNode(n, h, columns)
    BY <1>3 DEF WellFormedNode, Kids
  <1>4. OfKidsOnly(Nodes, KidsOf, BOOLEAN, H)
    <2>1. BOOLEAN # {}
      OBVIOUS
    <2>2. \A n \in Nodes : \A g, h \in [Nodes -> BOOLEAN] :
            (\A k \in Kids(n) : g[k] = h[k]) => H[n][g] = H[n][h]
      BY <1>3
    <2> QED BY <1>2, <2>1, <2>2 DEF OfKidsOnly, KidsOf
  <1>5. PICK v \in [Nodes -> BOOLEAN] : \A n \in Nodes : v[n] = H[n][v]
    BY <1>4, NodeRecursion
  <1>6. P(v)
    BY <1>5
  <1>7. ValidNodes(columns) = CHOOSE f : P(f)
    BY DEF ValidNodes
  <1>8. P(ValidNodes(columns))
    BY <1>6, <1>7
  <1> QED BY <1>1, <1>8

Truths == {TRUE3, FALSE3, UNKNOWN}

LEMMA TruthOfConnectives ==
  /\ \A a : Not3(a) \in Truths
  /\ \A S : And3(S) \in Truths /\ Or3(S) \in Truths
  /\ \A op, x, y : Compare(op, x, y) \in Truths
  BY DEF Truths, Not3, And3, Or3, Compare, Truth, TRUE3, FALSE3, UNKNOWN

LEMMA TruthOfComparisons ==
  ASSUME NEW c, NEW row, NEW claims
  PROVE  ApplyComparison(c, row, claims) \in Truths
  BY TruthOfConnectives DEF ApplyComparison, Truths, Truth

LEMMA TruthOfNodes ==
  ASSUME NEW n, NEW truth, NEW row, NEW claims
  PROVE  CompiledNode(n, truth, row, claims) \in Truths
  BY TruthOfConnectives, TruthOfComparisons DEF CompiledNode, Connect

LEMMA CompiledTruthsEquation ==
  ASSUME NEW row, NEW claims
  PROVE  /\ CompiledTruths(row, claims) \in [Nodes -> Truths]
         /\ \A n \in Nodes :
              CompiledTruths(row, claims)[n]
                = CompiledNode(n, CompiledTruths(row, claims), row, claims)
  <1> DEFINE P(t) == t = [n \in Nodes |-> CompiledNode(n, t, row, claims)]
             H == [n \in Nodes |-> [g \in [Nodes -> Truths] |-> CompiledNode(n, g, row, claims)]]
  <1>1. \A t : \A n \in Nodes : CompiledNode(n, t, row, claims) \in Truths
    BY TruthOfNodes
  <1>2. H \in [Nodes -> [[Nodes -> Truths] -> Truths]]
    BY <1>1
  <1>3. ASSUME NEW n \in Nodes, NEW g \in [Nodes -> Truths], NEW h \in [Nodes -> Truths],
               \A k \in Kids(n) : g[k] = h[k]
        PROVE  CompiledNode(n, g, row, claims) = CompiledNode(n, h, row, claims)
    <2>1. CASE n.ops = <<>>
      BY <2>1 DEF CompiledNode
    <2>2. CASE n.ops # <<>>
      <3>1. {g[k] : k \in ToSet(n.ops[1].kids)} = {h[k] : k \in ToSet(n.ops[1].kids)}
        BY <1>3, <2>2, FirstKids
      <3> QED BY <2>2, <3>1 DEF CompiledNode
    <2> QED BY <2>1, <2>2
  <1>4. OfKidsOnly(Nodes, KidsOf, Truths, H)
    <2>1. Truths # {}
      BY DEF Truths
    <2>2. \A n \in Nodes : \A g, h \in [Nodes -> Truths] :
            (\A k \in Kids(n) : g[k] = h[k]) => H[n][g] = H[n][h]
      BY <1>3
    <2> QED BY <1>2, <2>1, <2>2 DEF OfKidsOnly, KidsOf
  <1>5. PICK t \in [Nodes -> Truths] : \A n \in Nodes : t[n] = H[n][t]
    BY <1>4, NodeRecursion
  <1>6. P(t)
    BY <1>5
  <1>7. CompiledTruths(row, claims) = CHOOSE f : P(f)
    BY DEF CompiledTruths
  <1>8. P(CompiledTruths(row, claims))
    BY <1>6, <1>7
  <1> QED BY <1>1, <1>8

LEMMA StatedTruthsEquation ==
  ASSUME NEW row, NEW claims
  PROVE  /\ StatedTruths(row, claims) \in [Nodes -> Truths]
         /\ \A n \in Nodes :
              StatedTruths(row, claims)[n]
                = StatedNode(n, StatedTruths(row, claims), row, claims)
  <1> DEFINE P(t) == t = [n \in Nodes |-> StatedNode(n, t, row, claims)]
             H == [n \in Nodes |-> [g \in [Nodes -> Truths] |-> StatedNode(n, g, row, claims)]]
  <1>1. \A t : \A n \in Nodes : StatedNode(n, t, row, claims) \in Truths
    BY TruthOfConnectives DEF StatedNode, Connect
  <1>2. H \in [Nodes -> [[Nodes -> Truths] -> Truths]]
    BY <1>1
  <1>3. ASSUME NEW n \in Nodes, NEW g \in [Nodes -> Truths], NEW h \in [Nodes -> Truths],
               \A k \in Kids(n) : g[k] = h[k]
        PROVE  StatedNode(n, g, row, claims) = StatedNode(n, h, row, claims)
    <2>1. {g[k] : k \in Kids(n)} = {h[k] : k \in Kids(n)}
      BY <1>3
    <2> QED BY <2>1 DEF StatedNode
  <1>4. OfKidsOnly(Nodes, KidsOf, Truths, H)
    <2>1. Truths # {}
      BY DEF Truths
    <2>2. \A n \in Nodes : \A g, h \in [Nodes -> Truths] :
            (\A k \in Kids(n) : g[k] = h[k]) => H[n][g] = H[n][h]
      BY <1>3
    <2> QED BY <1>2, <2>1, <2>2 DEF OfKidsOnly, KidsOf
  <1>5. PICK t \in [Nodes -> Truths] : \A n \in Nodes : t[n] = H[n][t]
    BY <1>4, NodeRecursion
  <1>6. P(t)
    BY <1>5
  <1>7. StatedTruths(row, claims) = CHOOSE f : P(f)
    BY DEF StatedTruths
  <1>8. P(StatedTruths(row, claims))
    BY <1>6, <1>7
  <1> QED BY <1>1, <1>8

-----------------------------------------------------------------------------
(***************************************************************************)
(* A caller that lacks claims is told less: where it does not get UNKNOWN, *)
(* it gets what a caller with those claims gets.                           *)
(***************************************************************************)

Vaguer(a, b) == a = UNKNOWN \/ a = b

VaguerSets(S, T) ==
  /\ \A a \in S : \E b \in T : Vaguer(a, b)
  /\ \A b \in T : \E a \in S : Vaguer(a, b)

Lacks(claims, more) == \A c \in Claims : claims[c] = Null \/ claims[c] = more[c]

LEMMA VaguerNot ==
  ASSUME NEW a, NEW b, Vaguer(a, b)
  PROVE  Vaguer(Not3(a), Not3(b))
  BY DEF Vaguer, Not3, TRUE3, FALSE3, UNKNOWN

LEMMA VaguerAnd ==
  ASSUME NEW S, NEW T, VaguerSets(S, T)
  PROVE  Vaguer(And3(S), And3(T))
  <1>1. CASE FALSE3 \in S
    <2>1. FALSE3 \in T
      BY <1>1 DEF VaguerSets, Vaguer, FALSE3, UNKNOWN
    <2> QED BY <1>1, <2>1 DEF And3, Vaguer
  <1>2. CASE FALSE3 \notin S /\ UNKNOWN \in S
    BY <1>2 DEF And3, Vaguer
  <1>3. CASE FALSE3 \notin S /\ UNKNOWN \notin S
    <2>1. FALSE3 \notin T /\ UNKNOWN \notin T
      BY <1>3 DEF VaguerSets, Vaguer
    <2> QED BY <1>3, <2>1 DEF And3, Vaguer
  <1> QED BY <1>1, <1>2, <1>3

LEMMA VaguerOr ==
  ASSUME NEW S, NEW T, VaguerSets(S, T)
  PROVE  Vaguer(Or3(S), Or3(T))
  <1>1. \A a, b : Vaguer(a, b) => Vaguer(Not3(a), Not3(b))
    BY VaguerNot
  <1>2. \A a \in S : \E b \in T : Vaguer(Not3(a), Not3(b))
    BY <1>1 DEF VaguerSets
  <1>3. \A b \in T : \E a \in S : Vaguer(Not3(a), Not3(b))
    BY <1>1 DEF VaguerSets
  <1>4. VaguerSets({Not3(a) : a \in S}, {Not3(a) : a \in T})
    BY <1>2, <1>3 DEF VaguerSets
  <1> QED BY <1>4, VaguerAnd, VaguerNot DEF Or3

LEMMA VaguerComparison ==
  ASSUME NEW n \in Nodes, NEW c \in ToSet(n.keys), ValidComparison(c),
         NEW row, NEW claims, NEW more, Lacks(claims, more)
  PROVE  Vaguer(ApplyComparison(c, row, claims), ApplyComparison(c, row, more))
  <1> DEFINE x == row[c.col]
             poor == [i \in DOMAIN c.values |-> ResolveJwtPath(c.values[i], claims)]
             rich == [i \in DOMAIN c.values |-> ResolveJwtPath(c.values[i], more)]
  <1>1. IsSequence(c.values)
    BY TreesAssumption
  <1>2. \A i \in DOMAIN c.values : poor[i] = Null \/ poor[i] = rich[i]
    <2> TAKE i \in DOMAIN c.values
    <2>1. c.values[i] \in ToSet(c.values)
      BY DEF ToSet
    <2>2. c.values[i].jwt \in Claims \cup {Null}
      BY <2>1, ControlAssumption
    <2> QED BY <2>2 DEF ResolveJwtPath, Lacks
  <1>3. \A op : \A i \in DOMAIN c.values : Vaguer(Compare(op, x, poor[i]), Compare(op, x, rich[i]))
    <2> HIDE DEF poor, rich, x
    <2> TAKE op
    <2> TAKE i \in DOMAIN c.values
    <2>1. CASE poor[i] = Null
      <3>1. Compare(op, x, poor[i]) = UNKNOWN
        BY <2>1 DEF Compare
      <3> QED BY <3>1 DEF Vaguer
    <2>2. CASE poor[i] = rich[i]
      BY <2>2 DEF Vaguer
    <2> QED BY <1>2, <2>1, <2>2
  <1>4. VaguerSets({Compare("_eq", x, y) : y \in ToSet(poor)},
                   {Compare("_eq", x, y) : y \in ToSet(rich)})
    <2>1. DOMAIN poor = DOMAIN c.values /\ DOMAIN rich = DOMAIN c.values
      OBVIOUS
    <2> HIDE DEF poor, rich, x
    <2> QED BY <1>3, <2>1 DEF VaguerSets, ToSet
  <1>5. c.op \notin ListOps => 1 \in DOMAIN c.values
    BY <1>1 DEF ValidComparison, IsSequence
  <1>6. \A a : Vaguer(a, a)
    BY DEF Vaguer
  <1> DEFINE out(bound) ==
        LET isIn == Or3({Compare("_eq", x, y) : y \in ToSet(bound)})
        IN  CASE c.op = "_in" -> isIn
              [] c.op = "_nin" -> Not3(isIn)
              [] c.op = "_is_null" -> Truth((x = Null) = c.values[1].literal)
              [] c.op = "_iregex" -> IF x = Null THEN UNKNOWN ELSE FALSE3
              [] OTHER -> Compare(c.op, x, bound[1])
  <1>7. /\ ApplyComparison(c, row, claims) = out(poor)
        /\ ApplyComparison(c, row, more) = out(rich)
    BY DEF ApplyComparison
  <1> HIDE DEF poor, rich, x
  <1>8. CASE c.op = "_in"
    BY <1>4, <1>7, <1>8, VaguerOr
  <1>9. CASE c.op = "_nin"
    BY <1>4, <1>7, <1>9, VaguerOr, VaguerNot
  <1>10. CASE c.op \in {"_is_null", "_iregex"}
    BY <1>6, <1>7, <1>10
  <1>11. CASE c.op \notin {"_in", "_nin", "_is_null", "_iregex"}
    BY <1>3, <1>5, <1>7, <1>11 DEF ListOps
  <1> QED BY <1>8, <1>9, <1>10, <1>11

LEMMA VaguerTruths ==
  ASSUME NEW columns, NEW row, NEW claims, NEW more, Lacks(claims, more)
  PROVE  \A n \in Nodes : ValidNode(n, columns) =>
           Vaguer(CompiledTruth(n, row, claims), CompiledTruth(n, row, more))
  <1> DEFINE poor == CompiledTruths(row, claims)
             rich == CompiledTruths(row, more)
             valid == ValidNodes(columns)
             T == {n \in Nodes : valid[n] /\ ~Vaguer(poor[n], rich[n])}
  <1>1. ASSUME T # {}
        PROVE  FALSE
    <2>1. PICK n \in T : Kids(n) \cap T = {}
      BY <1>1, LowestNode
    <2>2. /\ n \in Nodes /\ WellFormedNode(n, valid, columns)
          /\ poor[n] = CompiledNode(n, poor, row, claims)
          /\ rich[n] = CompiledNode(n, rich, row, more)
      BY ValidNodesEquation, CompiledTruthsEquation
    <2>3. ~Vaguer(poor[n], rich[n])
      OBVIOUS
    <2>4. CASE n.ops = <<>>
      <3>1. Head(n.keys) \in ToSet(n.keys) /\ ValidComparison(Head(n.keys))
        BY <2>2, <2>4, FirstKey DEF WellFormedNode
      <3>2. Vaguer(ApplyComparison(Head(n.keys), row, claims),
                   ApplyComparison(Head(n.keys), row, more))
        BY <2>2, <3>1, VaguerComparison
      <3> QED BY <2>2, <2>3, <2>4, <3>2 DEF CompiledNode
    <2>5. CASE n.ops # <<>>
      <3> DEFINE o == n.ops[1]
                 S == {poor[k] : k \in ToSet(o.kids)}
                 U == {rich[k] : k \in ToSet(o.kids)}
      <3>1. o \in ToSet(n.ops) /\ ToSet(o.kids) \subseteq Kids(n)
        BY <2>2, <2>5, FirstKids
      <3>2. \A k \in ToSet(o.kids) : Vaguer(poor[k], rich[k])
        <4>1. \A k \in ToSet(o.kids) : k \in Nodes /\ valid[k]
          BY <2>2, <3>1, HeightOfKids DEF WellFormedNode
        <4> QED BY <2>1, <3>1, <4>1
      <3>3. VaguerSets(S, U)
        <4> HIDE DEF poor, rich, o
        <4> QED BY <3>2 DEF VaguerSets
      <3>4. o.op \in {"_and", "_or", "_not"}
        BY <2>2, <3>1 DEF WellFormedNode
      <3>5. poor[n] = Connect(o.op, S) /\ rich[n] = Connect(o.op, U)
        BY <2>2, <2>5 DEF CompiledNode
      <3>6. CASE o.op = "_and"
        <4> HIDE DEF poor, rich, o, S, U
        <4> QED BY <2>3, <3>3, <3>5, <3>6, VaguerAnd DEF Connect
      <3>7. CASE o.op = "_or"
        <4> HIDE DEF poor, rich, o, S, U
        <4> QED BY <2>3, <3>3, <3>5, <3>7, VaguerOr DEF Connect
      <3>8. CASE o.op = "_not"
        <4>1. PICK k \in ToSet(o.kids) : ToSet(o.kids) = {k}
          BY <2>2, <3>1, <3>8, OnlyKid DEF WellFormedNode
        <4>2. S = {poor[k]} /\ U = {rich[k]}
          BY <4>1
        <4> HIDE DEF poor, rich, o, S, U
        <4>3. poor[n] = Not3(poor[k]) /\ rich[n] = Not3(rich[k])
          BY <3>5, <3>8, <4>2 DEF Connect
        <4> QED BY <2>3, <3>2, <4>3, VaguerNot
      <3> QED BY <3>4, <3>6, <3>7, <3>8
    <2> QED BY <2>4, <2>5
  <1> QED BY <1>1 DEF CompiledTruth, ValidNode

-----------------------------------------------------------------------------

(***************************************************************************)
(* A missing claim fails closed (row_filter.py:212-217), whatever trees    *)
(* the policy nests: what a caller without a claim sees through a served   *)
(* filter it also sees with that claim, for every value of it.             *)
(***************************************************************************)
THEOREM MissingClaimFailsClosedAlways == Spec => []MissingClaimFailsClosed
  <1>1. Decided => MissingClaimFailsClosed
    <2> SUFFICES ASSUME Decided,
                        NEW f \in FiltersServed, NEW u \in Subjects, NEW claim \in Claims,
                        ClaimsOf[u][claim] = Null,
                        NEW r \in FilteredRows(f, u), NEW v \in Values
                 PROVE  CompiledTruth(f, r, [ClaimsOf[u] EXCEPT ![claim] = v]) = TRUE3
      BY DEF MissingClaimFailsClosed
    <2> DEFINE more == [ClaimsOf[u] EXCEPT ![claim] = v]
    <2>1. Lacks(ClaimsOf[u], more)
      BY ControlAssumption DEF Lacks
    <2>2. /\ f \in Nodes /\ ValidNode(f, Columns)
          /\ CompiledTruth(f, r, ClaimsOf[u]) = TRUE3
      BY ControlAssumption DEF FiltersServed, FilteredRows
    <2>3. Vaguer(CompiledTruth(f, r, ClaimsOf[u]), CompiledTruth(f, r, more))
      BY <2>1, <2>2, VaguerTruths
    <2> QED BY <2>2, <2>3 DEF Vaguer, TRUE3, UNKNOWN
  <1> QED BY <1>1, DecidedAlways, PTL

(* What the columns of one table accept, all columns together accept. *)
LEMMA ValidForMoreColumns ==
  ASSUME NEW few, NEW many, few \subseteq many
  PROVE  \A n \in Nodes : ValidNode(n, few) => ValidNode(n, many)
  <1> DEFINE T == {n \in Nodes : ValidNodes(few)[n] /\ ~ValidNodes(many)[n]}
  <1>1. ASSUME T # {}
        PROVE  FALSE
    <2>1. PICK n \in T : Kids(n) \cap T = {}
      BY <1>1, LowestNode
    <2>2. WellFormedNode(n, ValidNodes(few), few) /\ ~WellFormedNode(n, ValidNodes(many), many)
      BY ValidNodesEquation
    <2>3. ASSUME NEW o \in ToSet(n.ops), NEW k \in ToSet(o.kids)
          PROVE  ValidNodes(many)[k]
      <3>1. ValidNodes(few)[k]
        BY <2>2 DEF WellFormedNode
      <3>2. k \in Kids(n) /\ k \in Nodes
        BY HeightOfKids DEF Kids
      <3> QED BY <2>1, <3>1, <3>2
    <2> QED BY <2>2, <2>3 DEF WellFormedNode
  <1> QED BY <1>1 DEF ValidNode

(* The rules in force are those the server accepted when it started. *)
Accepted ==
  /\ policies \subseteq Entries
  /\ phase = "serving" => \A e \in policies : LoadsOk(e)

LEMMA AcceptedAlways == Spec => []Accepted
  <1>1. Init => Accepted
    BY DEF Init, Accepted
  <1>2. Accepted /\ [Next]_vars => Accepted'
    <2> SUFFICES ASSUME Accepted, [Next]_vars
                 PROVE  Accepted'
      OBVIOUS
    <2>1. ASSUME NEW e \in Entries, WriteRule(e)
          PROVE  Accepted'
      BY <2>1 DEF Accepted, WriteRule
    <2>2. CASE Start
      BY <2>2 DEF Accepted, Start
    <2>3. ASSUME NEW u \in Subjects, Discover(u)
          PROVE  Accepted'
      BY <2>3 DEF Accepted, Discover
    <2>4. ASSUME NEW u \in Subjects, NEW q \in Queries, Query(u, q)
          PROVE  Accepted'
      BY <2>4 DEF Accepted, Query
    <2>5. CASE Stop
      BY <2>5 DEF Accepted, Stop
    <2>6. CASE UNCHANGED vars
      BY <2>6 DEF Accepted, vars
    <2> QED BY <2>1, <2>2, <2>3, <2>4, <2>5, <2>6 DEF Next
  <1> QED BY <1>1, <1>2, PTL DEF Spec

ServedFiltersValid == \A f \in FiltersServed : ValidNode(f, Columns)

(***************************************************************************)
(* Only trees that validate_row_filter accepted are ever compiled          *)
(* (policy.py:197-210): FilteredRows leaves no served tree out.            *)
(***************************************************************************)
THEOREM ServedFiltersValidAlways == Spec => []ServedFiltersValid
  <1>1. Accepted => ServedFiltersValid
    <2> SUFFICES ASSUME Accepted, NEW f \in FiltersServed
                 PROVE  ValidNode(f, Columns)
      BY DEF ServedFiltersValid
    <2>1. PICK e \in policies : \E t \in DOMAIN e.tables : e.tables[t].row_filter = f
      BY DEF FiltersServed
    <2>2. PICK t \in DOMAIN e.tables : e.tables[t].row_filter = f
      BY <2>1
    <2>3. f \in Filters /\ f # None /\ f \in Nodes
      BY PolicyAssumption, ControlAssumption DEF FiltersServed
    <2>4. KnownToRegistry(t, e.tables[t])
      BY DEF FiltersServed, Accepted, LoadsOk
    <2>5. t \in RegistryTables /\ ValidFilter(f, Registry[t])
      BY <2>2, <2>3, <2>4 DEF KnownToRegistry
    <2>6. ValidNode(f, Registry[t]) /\ Registry[t] \subseteq Columns
      BY <2>3, <2>5, PolicyAssumption, ControlAssumption
    <2> QED BY <2>3, <2>6, ValidForMoreColumns
  <1> QED BY <1>1, AcceptedAlways, PTL

-----------------------------------------------------------------------------
(* Trees with one condition to a node, none of them a pattern. *)
PlainTrees ==
  \A n \in Nodes : Len(n.keys) <= 1 /\ \A c \in ToSet(n.keys) : c.op # "_iregex"

LEMMA PlainTreesMeanWhatTheySay ==
  ASSUME PlainTrees, NEW columns, NEW row, NEW claims
  PROVE  \A n \in Nodes : ValidNode(n, columns) =>
           CompiledTruth(n, row, claims) = StatedTruth(n, row, claims)
  <1> DEFINE compiled == CompiledTruths(row, claims)
             stated == StatedTruths(row, claims)
             valid == ValidNodes(columns)
             T == {n \in Nodes : valid[n] /\ compiled[n] # stated[n]}
  <1>1. ASSUME T # {}
        PROVE  FALSE
    <2>1. PICK n \in T : Kids(n) \cap T = {}
      BY <1>1, LowestNode
    <2>2. /\ n \in Nodes /\ WellFormedNode(n, valid, columns)
          /\ compiled[n] = CompiledNode(n, compiled, row, claims)
          /\ stated[n] = StatedNode(n, stated, row, claims)
      BY ValidNodesEquation, CompiledTruthsEquation, StatedTruthsEquation
    <2>3. compiled[n] # stated[n]
      OBVIOUS
    <2>4. CASE n.ops = <<>>
      <3> DEFINE c == Head(n.keys)
      <3>1. ToSet(n.keys) = {c}
        BY <2>2, <2>4, OnlyKey DEF WellFormedNode, PlainTrees
      <3>2. c.op # "_iregex"
        BY <2>2, <3>1 DEF PlainTrees
      <3>3. StatedNode(n, stated, row, claims) = And3({ApplyComparison(c, row, claims)})
        <4> HIDE DEF c, stated
        <4> QED BY <2>4, <3>1, <3>2 DEF StatedNode
      <3>4. \A a \in Truths : And3({a}) = a
        BY DEF Truths, And3, TRUE3, FALSE3, UNKNOWN
      <3>5. And3({ApplyComparison(c, row, claims)}) = ApplyComparison(c, row, claims)
        BY <3>4, TruthOfComparisons
      <3> QED BY <2>2, <2>3, <2>4, <3>3, <3>5 DEF CompiledNode
    <2>5. CASE n.ops # <<>>
      <3>1. ToSet(n.ops[1].kids) = Kids(n)
        BY <2>2, <2>5, OnlyOp DEF WellFormedNode
      <3>2. ASSUME NEW k \in Kids(n)
            PROVE  compiled[k] = stated[k]
        <4>1. n.ops[1] \in ToSet(n.ops)
          BY <2>2, <2>5, FirstKids
        <4>2. valid[k] /\ k \in Nodes
          BY <2>2, <3>1, <4>1, HeightOfKids DEF WellFormedNode
        <4> QED BY <2>1, <4>2
      <3>3. {compiled[k] : k \in Kids(n)} = {stated[k] : k \in Kids(n)}
        BY <3>2
      <3>4. /\ CompiledNode(n, compiled, row, claims)
                 = Connect(n.ops[1].op, {compiled[k] : k \in Kids(n)})
            /\ StatedNode(n, stated, row, claims)
                 = Connect(n.ops[1].op, {stated[k] : k \in Kids(n)})
        <4> HIDE DEF compiled, stated
        <4> QED BY <2>5, <3>1 DEF CompiledNode, StatedNode
      <3> QED BY <2>2, <2>3, <3>3, <3>4
    <2> QED BY <2>4, <2>5
  <1> QED BY <1>1 DEF CompiledTruth, StatedTruth, ValidNode

(***************************************************************************)
(* What the loader accepts is what is enforced (row_filter.py:50-54), but  *)
(* for nodes with several column keys and for patterns: with neither, the  *)
(* rows that pass a served filter are exactly those its tree states.       *)
(***************************************************************************)
THEOREM PlainFiltersMeanWhatTheySay ==
  ASSUME PlainTrees
  PROVE  Spec => []FiltersMeanWhatTheySay
  <1>1. ServedFiltersValid => FiltersMeanWhatTheySay
    <2> SUFFICES ASSUME ServedFiltersValid, NEW f \in FiltersServed, NEW u \in Subjects
                 PROVE  FilteredRows(f, u) = {r \in Table : StatedTruth(f, r, ClaimsOf[u]) = TRUE3}
      BY DEF FiltersMeanWhatTheySay
    <2>1. f \in Nodes /\ ValidNode(f, Columns)
      BY ControlAssumption DEF ServedFiltersValid, FiltersServed
    <2>2. \A r \in Table : CompiledTruth(f, r, ClaimsOf[u]) = StatedTruth(f, r, ClaimsOf[u])
      BY <2>1, PlainTreesMeanWhatTheySay
    <2> QED BY <2>1, <2>2 DEF FilteredRows
  <1> QED BY <1>1, ServedFiltersValidAlways, PTL

=============================================================================
