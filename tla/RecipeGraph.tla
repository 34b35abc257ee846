---------------------------- MODULE RecipeGraph ----------------------------
(***************************************************************************)
(* A recipe is a graph: actions use food-states that other actions produce. *)
(* Constructing a Recipe checks the graph (schema/recipe.py,               *)
(* _validate_graph and _assert_acyclic); rendering puts the actions in     *)
(* order (render/toposort.py, topological_actions).  Both run Kahn's       *)
(* algorithm on the dependencies between action ids.                       *)
(*                                                                         *)
(* One behaviour takes one recipe through both; each turn of a while loop  *)
(* is a step.  The first loop pops from a list and only counts, so which   *)
(* ready action it takes is left open; the second pops from a heap.        *)
(*                                                                         *)
(* Of an action only what the graph depends on is kept.  uses is a list:   *)
(* an action that names a state twice depends on it twice.  Nothing in the *)
(* schema keeps two actions from carrying one id.                          *)
(***************************************************************************)
EXTENDS Integers, Sequences, FiniteSets

CONSTANTS ActionIds,     \* action ids, ordered
          States,        \* food-state ids
          Recipes        \* the recipes somebody tries to construct

ActionType == [id : ActionIds, order : Int, uses : Seq(States), produces : States]

(* A use: a position in the recipe and a position in that action's uses.   *)
Uses(rc) == UNION {{i} \X DOMAIN rc[i].uses : i \in DOMAIN rc}

ASSUME IdsAreOrdered == ActionIds \subseteq Int
ASSUME RecipesAreLists == \A rc \in Recipes : rc \in Seq(ActionType)
ASSUME RecipesAreFinite == \A rc \in Recipes : IsFiniteSet(Uses(rc))

VARIABLES recipe,        \* the recipe; it never changes
          phase,         \* where it is, or the exception raised
          indegree,      \* of each action id, in the loop that runs
          ready,         \* the ids on the list, or on the heap
          ordered        \* the ids popped so far, in that order

vars == <<recipe, phase, indegree, ready, ordered>>

-----------------------------------------------------------------------------
(* by_id: a dict, in which the last action of an id wins.                  *)
Ids(rc) == {rc[i].id : i \in DOMAIN rc}
ById(rc, a) == rc[CHOOSE i \in DOMAIN rc : rc[i].id = a /\ \A j \in DOMAIN rc : rc[j].id = a => j =< i]

(* produced_states: the action that produces s.                            *)
Producer(rc, s) == rc[CHOOSE i \in DOMAIN rc : rc[i].produces = s].id

(* The dependency a use stands for: the id that uses, the id used.         *)
Down(rc, e) == rc[e[1]].id
Up(rc, e)   == Producer(rc, rc[e[1]].uses[e[2]])

(* dependents[u], the entries of d.                                        *)
Edges(rc, u, d) == {e \in Uses(rc) : Up(rc, e) = u /\ Down(rc, e) = d}

SingleWriter(rc) == \A i, j \in DOMAIN rc : rc[i].produces = rc[j].produces => i = j
Resolved(rc)     == \A e \in Uses(rc) : \E j \in DOMAIN rc : rc[j].produces = rc[e[1]].uses[e[2]]
UsesItself(rc)   == \E e \in Uses(rc) : Up(rc, e) = Down(rc, e)

(* Fault: only the action written last can end a recipe.                   *)
StateOfTheLast(rc) ==
  {rc[Len(rc)].produces} \ {rc[e[1]].uses[e[2]] : e \in Uses(rc)}

(* terminal_state_ids: produced and used by nothing.                       *)
TerminalStates(rc) ==
  {rc[i].produces : i \in DOMAIN rc} \ {rc[e[1]].uses[e[2]] : e \in Uses(rc)}

(* The heap's order: (order, id).                                          *)
Precedes(rc, a, b) ==
  \/ ById(rc, a).order < ById(rc, b).order
  \/ ById(rc, a).order = ById(rc, b).order /\ a < b

-----------------------------------------------------------------------------
Init ==
  /\ recipe \in Recipes
  /\ phase = "construct"
  /\ indegree = <<>> /\ ready = {} /\ ordered = <<>>

(* No actions, or a food-state with two producers.                         *)
RejectGraph ==
  /\ phase = "construct"
  /\ recipe = <<>> \/ ~SingleWriter(recipe)
  /\ phase' = "GraphError"
  /\ UNCHANGED <<recipe, indegree, ready, ordered>>

(* A use of a state nothing produces.                                      *)
RejectDangling ==
  /\ phase = "construct"
  /\ recipe # <<>> /\ SingleWriter(recipe) /\ ~Resolved(recipe)
  /\ phase' = "DanglingReferenceError"
  /\ UNCHANGED <<recipe, indegree, ready, ordered>>

(* An action that consumes its own output, found while indegrees are       *)
(* counted.                                                                *)
RejectSelfUse ==
  /\ phase = "construct"
  /\ recipe # <<>> /\ SingleWriter(recipe) /\ Resolved(recipe) /\ UsesItself(recipe)
  /\ phase' = "CyclicGraphError"
  /\ UNCHANGED <<recipe, indegree, ready, ordered>>

(* Fault: a state used twice by one action counts once.                    *)
LoadStates ==
  /\ indegree' = [d \in Ids(recipe) |-> Cardinality({Up(recipe, e) : e \in
                                          {x \in Uses(recipe) : Down(recipe, x) = d}})]
  /\ ready'    = {d \in Ids(recipe) : \A e \in Uses(recipe) : Down(recipe, e) # d}
  /\ ordered'  = <<>>

(* Count the indegrees and collect the ids that wait for nothing.          *)
Load ==
  LET Incoming(d) == {e \in Uses(recipe) : Down(recipe, e) = d} IN
  /\ indegree' = [d \in Ids(recipe) |-> Cardinality(Incoming(d))]
  /\ ready'    = {d \in Ids(recipe) : Incoming(d) = {}}
  /\ ordered'  = <<>>

(* Fault: an action is ready although it waits for one more.               *)
PopTooEarly(u) ==
  LET left == [d \in Ids(recipe) |-> indegree[d] - Cardinality(Edges(recipe, u, d))] IN
  /\ indegree' = left
  /\ ready'    = (ready \ {u}) \cup {d \in Ids(recipe) : Edges(recipe, u, d) # {} /\ left[d] = 1}
  /\ ordered'  = Append(ordered, u)

(* One turn: emit u, take its edges away, add what waits for nothing now.  *)
Pop(u) ==
  LET left == [d \in Ids(recipe) |-> indegree[d] - Cardinality(Edges(recipe, u, d))] IN
  /\ indegree' = left
  /\ ready'    = (ready \ {u}) \cup {d \in Ids(recipe) : Edges(recipe, u, d) # {} /\ left[d] = 0}
  /\ ordered'  = Append(ordered, u)

BeginCheck ==
  /\ phase = "construct"
  /\ recipe # <<>> /\ SingleWriter(recipe) /\ Resolved(recipe) /\ ~UsesItself(recipe)
  /\ Load
  /\ phase' = "check"
  /\ UNCHANGED recipe

CheckPop(u) ==
  /\ phase = "check" /\ u \in ready
  /\ Pop(u)
  /\ UNCHANGED <<recipe, phase>>

EmittedAll == Len(ordered) = Cardinality(Ids(recipe))

(* Faults: a cycle is not noticed; the check waits for the rest.           *)
EndCheckBlindly ==
  /\ phase = "check" /\ ready = {}
  /\ phase' = IF TerminalStates(recipe) = {} THEN "GraphError" ELSE "accepted"
  /\ UNCHANGED <<recipe, indegree, ready, ordered>>

EndCheckWhenComplete ==
  /\ phase = "check" /\ ready = {} /\ EmittedAll
  /\ phase' = IF TerminalStates(recipe) = {} THEN "GraphError" ELSE "accepted"
  /\ UNCHANGED <<recipe, indegree, ready, ordered>>

EndCheck ==
  /\ phase = "check" /\ ready = {}
  /\ phase' = IF ~EmittedAll THEN "CyclicGraphError"
              ELSE IF TerminalStates(recipe) = {} THEN "GraphError"
              ELSE "accepted"
  /\ UNCHANGED <<recipe, indegree, ready, ordered>>

BeginSort ==
  /\ phase = "accepted"
  /\ Load
  /\ phase' = "sort"
  /\ UNCHANGED recipe

(* Fault: the heap is keyed on the id alone.                               *)
SortPopById(u) ==
  /\ phase = "sort" /\ u \in ready
  /\ \A v \in ready : u =< v
  /\ Pop(u)
  /\ UNCHANGED <<recipe, phase>>

SortPop(u) ==
  /\ phase = "sort" /\ u \in ready
  /\ \A v \in ready \ {u} : Precedes(recipe, u, v)
  /\ Pop(u)
  /\ UNCHANGED <<recipe, phase>>

EndSort ==
  /\ phase = "sort" /\ ready = {}
  /\ phase' = IF EmittedAll THEN "sorted" ELSE "sort raised"
  /\ UNCHANGED <<recipe, indegree, ready, ordered>>

Next ==
  \/ RejectGraph \/ RejectDangling \/ RejectSelfUse
  \/ BeginCheck \/ EndCheck \/ BeginSort \/ EndSort
  \/ \E u \in ActionIds : CheckPop(u) \/ SortPop(u)

Spec == Init /\ [][Next]_vars

-----------------------------------------------------------------------------
Accepted == phase \in {"accepted", "sort", "sorted", "sort raised"}
Running  == phase \in {"check", "accepted", "sort", "sorted", "sort raised"}
Over     == phase \in {"GraphError", "DanglingReferenceError", "CyclicGraphError",
                       "sorted", "sort raised"}

(* What each variable holds; indegrees are never negative.                 *)
TypeOK ==
  /\ recipe \in Recipes
  /\ phase \in {"construct", "check", "accepted", "sort", "sorted", "sort raised",
                "GraphError", "DanglingReferenceError", "CyclicGraphError"}
  /\ ready \subseteq Ids(recipe)
  /\ ordered \in Seq(Ids(recipe))
  /\ Running => indegree \in [Ids(recipe) -> Nat]

(* A set of actions each of which waits for another of the set.            *)
WaitsInCircles(rc, U) ==
  U # {} /\ \A d \in U : \E e \in Uses(rc) : Down(rc, e) = d /\ Up(rc, e) \in U

(* "The graph is acyclic", enforced at construction: an accepted recipe has *)
(* no set of actions that wait for each other, and a recipe refused with    *)
(* CyclicGraphError has one.                                               *)
VerdictIsRight ==
  /\ Accepted => \A U \in SUBSET Ids(recipe) : ~WaitsInCircles(recipe, U)
  /\ phase = "CyclicGraphError" => \E U \in SUBSET Ids(recipe) : WaitsInCircles(recipe, U)

(* "The graph is acyclic" implies a terminal state: the last check of       *)
(* _validate_graph never refuses a recipe, GraphError means no actions or   *)
(* two producers.                                                          *)
AcyclicHasATerminal == phase = "GraphError" => recipe = <<>> \/ ~SingleWriter(recipe)

(* topological_actions: "a constructed Recipe is already acyclic by         *)
(* validation, so this only fires on a graph assembled by bypassing the     *)
(* model".                                                                 *)
SortNeverRaises == phase # "sort raised"

(* A step never comes before a step it depends on.                         *)
DependenciesFirst ==
  \A i \in DOMAIN ordered : \A e \in Uses(recipe) :
    Down(recipe, e) = ordered[i] => \E j \in 1..(i - 1) : ordered[j] = Up(recipe, e)

(* "The same graph has to produce the same order": the result is the least  *)
(* of all dependency orders by (order, id), a function of the graph alone.  *)
TopologicalOrders(rc) ==
  {s \in [1..Cardinality(Ids(rc)) -> Ids(rc)] :
    \A d \in Ids(rc) : \E i \in DOMAIN s :
      /\ s[i] = d
      /\ \A e \in Uses(rc) : Down(rc, e) = d => \E j \in 1..(i - 1) : s[j] = Up(rc, e)}

ComesBefore(rc, s, t) ==
  \E k \in DOMAIN s : Precedes(rc, s[k], t[k]) /\ \A j \in 1..(k - 1) : s[j] = t[j]

SortIsLeast ==
  phase = "sorted" =>
    \A s \in TopologicalOrders(recipe) : s = ordered \/ ComesBefore(recipe, ordered, s)

=============================================================================
