----------------------------- MODULE AccessControl -----------------------------
(***************************************************************************)
(* The policy engine together with its row filters: AccessPolicy with the  *)
(* trees of RowFilter, over rows whose cells hold values or NULL, for      *)
(* callers whose JWTs carry claims or lack them.                           *)
(***************************************************************************)
EXTENDS AccessPolicy, RowFilter

CONSTANTS
  Values,      \* what cells and claims hold
  Claims,      \* claim paths
  ClaimsOf     \* the claims of each subject, Null where one is missing

(* The filters of a policy are trees, validated as such; Claims has what they name. *)
ASSUME ControlAssumption ==
  /\ Filters \subseteq Nodes
  /\ \A f \in Filters, t \in RegistryTables :
       ValidFilter(f, Registry[t]) <=> ValidNode(f, Registry[t])
  /\ \A n \in Nodes : \A c \in ToSet(n.keys) :
       \A v \in ToSet(c.values) : v.jwt \in Claims \cup {Null}
  /\ ClaimsOf \in [Subjects -> [Claims -> Values \cup {Null}]]

Table == [Columns -> Values \cup {Null}]

(* Only trees that were accepted are compiled. *)
FilteredRows(f, u) ==
  {r \in Table : ValidNode(f, Columns) /\ CompiledTruth(f, r, ClaimsOf[u]) = TRUE3}

(* The filters in force. *)
FiltersServed ==
  {f \in Filters : /\ phase = "serving"
                   /\ \E e \in policies : \E t \in DOMAIN e.tables : e.tables[t].row_filter = f}

(***************************************************************************)
(* A missing claim fails closed (row_filter.py:212-217): through a served  *)
(* filter a caller without a claim sees only rows that a caller with that  *)
(* claim sees whatever its value, under _not, _nin and _or as well.        *)
(***************************************************************************)
MissingClaimFailsClosed ==
  \A f \in FiltersServed, u \in Subjects, claim \in Claims :
    ClaimsOf[u][claim] = Null =>
      \A r \in FilteredRows(f, u), v \in Values :
        CompiledTruth(f, r, [ClaimsOf[u] EXCEPT ![claim] = v]) = TRUE3

(***************************************************************************)
(* What the loader accepts is what is enforced (row_filter.py:50-54): rows *)
(* that pass a served filter meet every condition its tree states.         *)
(***************************************************************************)
FiltersMeanWhatTheySay ==
  \A f \in FiltersServed, u \in Subjects :
    FilteredRows(f, u) = {r \in Table : StatedTruth(f, r, ClaimsOf[u]) = TRUE3}

=============================================================================
