------------------------------- MODULE Discovery -------------------------------
(***************************************************************************)
(* find_path, the MCP tool that lists every shortest way to join two       *)
(* tables: SchemaDiscovery.find_path, a breadth-first search by levels     *)
(* over the relations of the registry, and the check of McpTools that the  *)
(* caller may see both ends.                                               *)
(*                                                                         *)
(* The tool is synchronous, so one search runs at a time; each of its      *)
(* rounds is an action.  A path is a sequence of join steps.  The code     *)
(* lists a path twice if two relations state the same join; the sets of    *)
(* this module do not.                                                     *)
(***************************************************************************)
EXTENDS Naturals, Sequences, FiniteSets

CONSTANTS
  Tables,      \* names a relation or a caller can mention
  Columns,     \* names of columns
  Callers,     \* who asks
  VisibleTo,   \* the tables each caller's policy lets it see
  MaxSteps,    \* bound: the paths an answer is compared with
  None         \* nobody has asked

Steps == [from_table : Tables, from_column : Columns, to_table : Tables, to_column : Columns]

ASSUME DiscoveryAssumption ==
  /\ VisibleTo \in [Callers -> SUBSET Tables]
  /\ MaxSteps \in Nat

VARIABLES
  registry,  \* the relations of the columns, one step each
  status,    \* of the call of find_path: "idle", "searching", "answered"
  asked,     \* by whom, from where, to where
  level,     \* current_level: the paths found in the last round, by table
  visited,   \* tables reached so far
  shortest,  \* the paths that reach the end
  depth,     \* history: rounds so far
  found      \* what the caller is told: a set of paths

vars == <<registry, status, asked, level, visited, shortest, depth, found>>

-----------------------------------------------------------------------------

Reversed(e) ==
  [from_table |-> e.to_table, from_column |-> e.to_column,
   to_table |-> e.from_table, to_column |-> e.from_column]

(* Mutant: only the way a foreign key points. *)
OutgoingOnly == registry

(* The adjacency lists: each relation, and each the other way round. *)
Edges == registry \cup {Reversed(e) : e \in registry}

NoPaths == [t \in Tables |-> {}]

(* Paths of the last round, one step longer, that end in t. *)
NewPaths(t) ==
  UNION {{Append(p, e) : p \in level[e.from_table]} : e \in {f \in Edges : f.to_table = t}}

Visible(c, t) == t \in VisibleTo[c]

Init ==
  /\ registry \in SUBSET Steps
  /\ status = "idle"
  /\ asked = None
  /\ level = NoPaths
  /\ visited = {}
  /\ shortest = {}
  /\ depth = 0
  /\ found = {}

Call(c, s, t) ==
  /\ status = "idle"
  /\ asked' = [by |-> c, from_table |-> s, to_table |-> t]
  /\ depth' = 0

(* Both ends must be visible; what lies between is not looked at. *)
AskUnseen(c, s, t) ==
  /\ Call(c, s, t)
  /\ ~(Visible(c, s) /\ Visible(c, t))
  /\ status' = "answered"
  /\ found' = {}
  /\ UNCHANGED <<registry, level, visited, shortest>>

(* From a table to itself: the empty path. *)
AskSame(c, s) ==
  /\ Call(c, s, s)
  /\ Visible(c, s)
  /\ status' = "answered"
  /\ found' = {<<>>}
  /\ UNCHANGED <<registry, level, visited, shortest>>

Ask(c, s, t) ==
  /\ Call(c, s, t)
  /\ Visible(c, s) /\ Visible(c, t) /\ s # t
  /\ status' = "searching"
  /\ level' = [NoPaths EXCEPT ![s] = {<<>>}]
  /\ visited' = {s}
  /\ shortest' = {}
  /\ UNCHANGED <<registry, found>>

Exhausted == shortest # {} \/ level = NoPaths

(* Mutant: a table is closed as soon as one path has reached it. *)
RoundClosingEarly ==
  /\ status = "searching" /\ ~Exhausted
  /\ shortest' = NewPaths(asked.to_table)
  /\ level' = [t \in Tables |->
                 IF t \in visited \cup {asked.to_table} \/ NewPaths(t) = {}
                   THEN {} ELSE {CHOOSE p \in NewPaths(t) : TRUE}]
  /\ visited' = visited \cup {t \in Tables : level'[t] # {}}
  /\ depth' = depth + 1
  /\ UNCHANGED <<registry, status, asked, found>>

(* Mutant: a table is marked when its paths are extended, not when it is reached. *)
RoundMarkingLate ==
  /\ status = "searching" /\ ~Exhausted
  /\ shortest' = NewPaths(asked.to_table)
  /\ level' = [t \in Tables |-> IF t \in visited \cup {asked.to_table} THEN {} ELSE NewPaths(t)]
  /\ visited' = visited \cup {t \in Tables : level[t] # {}}
  /\ depth' = depth + 1
  /\ UNCHANGED <<registry, status, asked, found>>

(* One pass of the while loop. *)
Round ==
  /\ status = "searching" /\ ~Exhausted
  /\ shortest' = NewPaths(asked.to_table)
  /\ level' = [t \in Tables |-> IF t \in visited \cup {asked.to_table} THEN {} ELSE NewPaths(t)]
  /\ visited' = visited \cup {t \in Tables : level'[t] # {}}
  /\ depth' = depth + 1
  /\ UNCHANGED <<registry, status, asked, found>>

Answer ==
  /\ status = "searching" /\ Exhausted
  /\ status' = "answered"
  /\ found' = shortest
  /\ UNCHANGED <<registry, asked, level, visited, shortest, depth>>

(* The caller has its answer; the search is gone. *)
Forget ==
  /\ status = "answered"
  /\ status' = "idle"
  /\ asked' = None
  /\ level' = NoPaths
  /\ visited' = {}
  /\ shortest' = {}
  /\ depth' = 0
  /\ found' = {}
  /\ UNCHANGED registry

Next ==
  \/ \E c \in Callers, s, t \in Tables : AskUnseen(c, s, t) \/ Ask(c, s, t)
  \/ \E c \in Callers, s \in Tables : AskSame(c, s)
  \/ Round \/ Answer \/ Forget

Spec == Init /\ [][Next]_vars

-----------------------------------------------------------------------------
(* Properties. *)

(***************************************************************************)
(* The joins of n steps from s to t.                                       *)
(***************************************************************************)
Joins(n, s, t) ==
  {p \in [1 .. n -> Edges] :
     /\ n = 0 => s = t
     /\ n > 0 => p[1].from_table = s /\ p[n].to_table = t
     /\ \A i \in 1 .. n - 1 : p[i].to_table = p[i + 1].from_table}

(***************************************************************************)
(* The types, and the one thing the loop keeps between its two locals:     *)
(* a table with open paths is marked, so that no later round enters it     *)
(* again by a longer way (visited.update, discovery.py:89).                *)
(***************************************************************************)
TypeOK ==
  /\ registry \in SUBSET Steps
  /\ status \in {"idle", "searching", "answered"}
  /\ status # "idle" => asked \in [by : Callers, from_table : Tables, to_table : Tables]
  /\ level \in [Tables -> SUBSET Seq(Edges)]
  /\ visited \subseteq Tables
  /\ \A t \in Tables : level[t] # {} => t \in visited
  /\ shortest \subseteq Seq(Edges)
  /\ depth \in Nat
  /\ found \subseteq Seq(Edges)

Permitted ==
  Visible(asked.by, asked.from_table) /\ Visible(asked.by, asked.to_table)

(***************************************************************************)
(* "Find all shortest join paths" (discovery.py:60, docs/mcp.md:57): a     *)
(* caller that may see both tables is told of every join that no other     *)
(* join is shorter than, and of nothing else; it is told of none only if   *)
(* there is none.                                                          *)
(***************************************************************************)
AllShortestPaths ==
  status = "answered" /\ Permitted =>
    \A n \in 0 .. MaxSteps :
      LET joins == Joins(n, asked.from_table, asked.to_table)
      IN  /\ joins # {} => found # {} /\ \A p \in found : Len(p) <= n
          /\ \A p \in found : Len(p) = n => found = joins

(***************************************************************************)
(* The search comes to an end, whatever cycles the relations form: each    *)
(* round either reaches a table for the first time or is the last one.     *)
(***************************************************************************)
RoundsAdvance ==
  [][Round => visited # visited' \/ shortest' # {} \/ level' = NoPaths]_vars

=============================================================================
