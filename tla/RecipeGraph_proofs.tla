------------------------- MODULE RecipeGraph_proofs -------------------------
(***************************************************************************)
(* Kahn's algorithm, for every recipe: what the check accepts is acyclic,  *)
(* what it refuses as cyclic is not, the order respects the dependencies,  *)
(* and topological_actions never raises on a recipe that was constructed.  *)
(*                                                                         *)
(* The loop invariant is Kahn: an indegree is the number of uses whose     *)
(* producer has not been emitted, an id is ready exactly if that number is *)
(* zero, and no member of a set that waits in circles is ever emitted.     *)
(* Counting uses, not states, is what makes a state named twice harmless.  *)
(***************************************************************************)
EXTENDS RecipeGraph, FiniteSetTheorems, TLAPS

Emitted == {ordered[i] : i \in DOMAIN ordered}

(* The uses d still waits for.                                             *)
Waiting(d) == {e \in Uses(recipe) : Down(recipe, e) = d /\ Up(recipe, e) \notin Emitted}

EmittedOnce == \A i, j \in DOMAIN ordered : ordered[i] = ordered[j] => i = j

Counted == \A d \in Ids(recipe) : indegree[d] = Cardinality(Waiting(d))

ReadyIsFree == ready = {d \in Ids(recipe) \ Emitted : Waiting(d) = {}}

CirclesStay == \A U \in SUBSET Ids(recipe) : WaitsInCircles(recipe, U) => U \cap Emitted = {}

EmittedIsFree == \A d \in Emitted : Waiting(d) = {}

Kahn == EmittedOnce /\ Counted /\ ReadyIsFree /\ CirclesStay /\ EmittedIsFree

(* What the checks before the loop have established.                       *)
WellPosed == recipe # <<>> /\ SingleWriter(recipe) /\ Resolved(recipe)

IInv ==
  /\ TypeOK /\ DependenciesFirst
  /\ Running => WellPosed /\ Kahn
  /\ VerdictIsRight /\ AcyclicHasATerminal /\ SortNeverRaises

-----------------------------------------------------------------------------
(* A recipe is a list of actions, and a use lies at a position of it.       *)
LEMMA RecipeShape ==
  ASSUME NEW rc \in Recipes
  PROVE  /\ Len(rc) \in Nat /\ DOMAIN rc = 1..Len(rc)
         /\ \A i \in DOMAIN rc : rc[i] \in ActionType
         /\ IsFiniteSet(Uses(rc))
         /\ \A e \in Uses(rc) : e[1] \in DOMAIN rc
<1>1. rc \in Seq(ActionType)
  BY RecipesAreLists
<1>2. \A i \in DOMAIN rc : rc[i] \in ActionType
  BY <1>1
<1>3. \A e \in Uses(rc) : e[1] \in DOMAIN rc
  BY DEF Uses
<1> QED
  BY <1>1, <1>2, <1>3, RecipesAreFinite

LEMMA IdsAreFinite ==
  ASSUME NEW rc \in Recipes PROVE IsFiniteSet(Ids(rc)) /\ Cardinality(Ids(rc)) \in Nat
<1> DEFINE f == [i \in 1..Len(rc) |-> rc[i].id]
<1>1. Len(rc) \in Nat /\ DOMAIN rc = 1..Len(rc)
  BY RecipeShape
<1>2. IsFiniteSet(1..Len(rc))
  BY <1>1, FS_Interval
<1>3. f \in Surjection(1..Len(rc), Ids(rc))
  BY <1>1 DEF Surjection, Ids
<1>4. IsFiniteSet(Ids(rc))
  BY <1>2, <1>3, FS_Surjection
<1> QED
  BY <1>4, FS_CardinalityType

(* The user of a use is an action of the recipe; so is its producer, once   *)
(* references resolve.                                                     *)
LEMMA DependenciesAreActions ==
  ASSUME NEW rc \in Recipes, NEW e \in Uses(rc)
  PROVE  Down(rc, e) \in Ids(rc) /\ (Resolved(rc) => Up(rc, e) \in Ids(rc))
<1>1. e[1] \in DOMAIN rc
  BY RecipeShape
<1>2. Down(rc, e) \in Ids(rc)
  BY <1>1 DEF Down, Ids
<1>3. ASSUME Resolved(rc) PROVE Up(rc, e) \in Ids(rc)
  <2>1. \E j \in DOMAIN rc : rc[j].produces = rc[e[1]].uses[e[2]]
    BY <1>3 DEF Resolved
  <2> QED
    BY <2>1 DEF Up, Producer, Ids
<1> QED
  BY <1>2, <1>3

-----------------------------------------------------------------------------
(* Entering a loop: nothing is emitted, every use is waited for.           *)
LEMMA LoadStartsKahn ==
  ASSUME recipe \in Recipes, Load, recipe' = recipe
  PROVE  /\ Kahn' /\ DependenciesFirst'
         /\ ready' \subseteq Ids(recipe)' /\ ordered' \in Seq(Ids(recipe)')
         /\ indegree' \in [Ids(recipe)' -> Nat]
<1>1. /\ Emitted' = {} /\ ordered' = <<>> /\ DOMAIN ordered' = {}
  BY DEF Load, Emitted
<1>2. Ids(recipe)' = Ids(recipe)
  OBVIOUS
<1>3. \A d : Waiting(d)' = {e \in Uses(recipe) : Down(recipe, e) = d}
  BY <1>1 DEF Waiting
<1>4. \A d : IsFiniteSet(Waiting(d)')
  <2> SUFFICES ASSUME NEW d PROVE IsFiniteSet(Waiting(d)')
    OBVIOUS
  <2>1. Waiting(d)' \subseteq Uses(recipe) /\ IsFiniteSet(Uses(recipe))
    BY <1>3, RecipeShape
  <2> QED
    BY <2>1, FS_Subset
<1>5. \A d : Cardinality(Waiting(d)') \in Nat
  BY <1>4, FS_CardinalityType
<1>6. /\ indegree' = [d \in Ids(recipe) |-> Cardinality(Waiting(d)')]
      /\ ready' = {d \in Ids(recipe) : Waiting(d)' = {}}
  BY <1>3 DEF Load
<1>7. Kahn'
  <2>1. EmittedOnce' /\ CirclesStay' /\ EmittedIsFree'
    BY <1>1 DEF EmittedOnce, CirclesStay, EmittedIsFree
  <2>2. Counted'
    BY <1>2, <1>6 DEF Counted
  <2>3. ReadyIsFree'
    BY <1>1, <1>2, <1>6 DEF ReadyIsFree
  <2> QED
    BY <2>1, <2>2, <2>3 DEF Kahn
<1>8. DependenciesFirst'
  BY <1>1 DEF DependenciesFirst
<1> QED
  BY <1>1, <1>2, <1>5, <1>6, <1>7, <1>8

(* One turn of either loop.                                                *)
LEMMA PopKeepsKahn ==
  ASSUME TypeOK, Running, WellPosed, Kahn, DependenciesFirst, recipe' = recipe,
         NEW u \in ready, Pop(u)
  PROVE  /\ Kahn' /\ DependenciesFirst'
         /\ ready' \subseteq Ids(recipe)' /\ ordered' \in Seq(Ids(recipe)')
         /\ indegree' \in [Ids(recipe)' -> Nat]
<1> DEFINE Rest(d) == Waiting(d) \ Edges(recipe, u, d)
           left    == [d \in Ids(recipe) |-> indegree[d] - Cardinality(Edges(recipe, u, d))]
           n       == Len(ordered)
<1>1. /\ recipe \in Recipes /\ ready \subseteq Ids(recipe) /\ ordered \in Seq(Ids(recipe))
      /\ indegree \in [Ids(recipe) -> Nat]
  BY DEF TypeOK
<1>2. u \in Ids(recipe) /\ u \notin Emitted /\ Waiting(u) = {}
  BY DEF Kahn, ReadyIsFree
<1>3. /\ n \in Nat /\ DOMAIN ordered = 1..n
      /\ ordered' = Append(ordered, u) /\ DOMAIN ordered' = 1..(n + 1)
      /\ ordered'[n + 1] = u /\ \A i \in 1..n : ordered'[i] = ordered[i]
      /\ ordered' \in Seq(Ids(recipe))
  BY <1>1, <1>2 DEF Pop
<1>4. Emitted' = Emitted \cup {u}
  BY <1>3 DEF Emitted
<1>5. \A d : Edges(recipe, u, d) \subseteq Waiting(d)
  BY <1>2 DEF Edges, Waiting
<1>6. \A d : Waiting(d)' = Rest(d)
  BY <1>4 DEF Waiting, Edges
<1>7. \A d : IsFiniteSet(Waiting(d)) /\ Cardinality(Waiting(d)) \in Nat
  <2> SUFFICES ASSUME NEW d PROVE IsFiniteSet(Waiting(d)) /\ Cardinality(Waiting(d)) \in Nat
    OBVIOUS
  <2>1. Waiting(d) \subseteq Uses(recipe) /\ IsFiniteSet(Uses(recipe))
    BY <1>1, RecipeShape DEF Waiting
  <2>2. IsFiniteSet(Waiting(d))
    BY <2>1, FS_Subset
  <2> QED
    BY <2>2, FS_CardinalityType
<1>8. \A d : /\ IsFiniteSet(Rest(d))
             /\ Cardinality(Rest(d)) = Cardinality(Waiting(d)) - Cardinality(Edges(recipe, u, d))
             /\ Cardinality(Rest(d)) \in Nat
  <2> SUFFICES ASSUME NEW d
               PROVE  /\ IsFiniteSet(Rest(d))
                      /\ Cardinality(Rest(d)) = Cardinality(Waiting(d)) - Cardinality(Edges(recipe, u, d))
                      /\ Cardinality(Rest(d)) \in Nat
    OBVIOUS
  <2>1. Waiting(d) \cap Edges(recipe, u, d) = Edges(recipe, u, d)
    BY <1>5
  <2>2. IsFiniteSet(Rest(d)) /\ Cardinality(Rest(d)) = Cardinality(Waiting(d)) - Cardinality(Edges(recipe, u, d))
    BY <1>7, <2>1, FS_Difference
  <2> QED
    BY <2>2, FS_CardinalityType
<1>9. \A d \in Ids(recipe) : left[d] = Cardinality(Rest(d))
  BY <1>8 DEF Kahn, Counted
<1>10. \A d \in Ids(recipe) : left[d] = 0 <=> Rest(d) = {}
  BY <1>8, <1>9, FS_EmptySet
<1>11. /\ indegree' = left
       /\ ready' = (ready \ {u}) \cup {d \in Ids(recipe) : Edges(recipe, u, d) # {} /\ left[d] = 0}
  BY DEF Pop
<1>12. Counted'
  BY <1>6, <1>9, <1>11 DEF Counted
<1>13. ReadyIsFree'
  <2>1. ready = {d \in Ids(recipe) \ Emitted : Waiting(d) = {}}
    BY DEF Kahn, ReadyIsFree
  <2>2. \A d \in Emitted : Waiting(d) = {}
    BY DEF Kahn, EmittedIsFree
  <2>3. ready' = (ready \ {u}) \cup {d \in Ids(recipe) : Edges(recipe, u, d) # {} /\ Rest(d) = {}}
    BY <1>10, <1>11
  <2>4. \A d \in Ids(recipe) : Edges(recipe, u, d) # {} => d \notin Emitted /\ d # u
    BY <1>2, <1>5, <2>2
  <2>5. \A d \in Ids(recipe) : Rest(d) = {} => Waiting(d) = {} \/ Edges(recipe, u, d) # {}
    OBVIOUS
  <2>6. \A d \in Ids(recipe) : d \in ready' <=> d \notin Emitted /\ d # u /\ Rest(d) = {}
    <3> SUFFICES ASSUME NEW d \in Ids(recipe)
                 PROVE  d \in ready' <=> d \notin Emitted /\ d # u /\ Rest(d) = {}
      OBVIOUS
    <3>1. ASSUME d \in ready' PROVE d \notin Emitted /\ d # u /\ Rest(d) = {}
      <4>1. CASE d \in ready \ {u}
        BY <4>1, <2>1
      <4>2. CASE Edges(recipe, u, d) # {} /\ Rest(d) = {}
        BY <4>2, <2>4
      <4> QED
        BY <3>1, <4>1, <4>2, <2>3
    <3>2. ASSUME d \notin Emitted, d # u, Rest(d) = {} PROVE d \in ready'
      <4>1. CASE Waiting(d) = {}
        BY <3>2, <4>1, <2>1, <2>3
      <4>2. CASE Edges(recipe, u, d) # {}
        BY <3>2, <4>2, <2>3
      <4> QED
        BY <3>2, <4>1, <4>2, <2>5
    <3> QED
      BY <3>1, <3>2
  <2>7. ready' \subseteq Ids(recipe)
    BY <1>1, <1>11
  <2> QED
    BY <2>6, <2>7, <1>4, <1>6 DEF ReadyIsFree
<1>14. EmittedOnce'
  <2>1. \A i \in 1..n : ordered[i] # u
    BY <1>2, <1>3 DEF Emitted
  <2>2. \A i, j \in 1..n : ordered[i] = ordered[j] => i = j
    BY <1>3 DEF Kahn, EmittedOnce
  <2>3. \A i \in 1..(n + 1) : i = n + 1 \/ i \in 1..n
    BY <1>3
  <2>4. \A i, j \in 1..(n + 1) : ordered'[i] = ordered'[j] => i = j
    BY <1>3, <2>1, <2>2, <2>3
  <2> QED
    BY <1>3, <2>4 DEF EmittedOnce
<1>15. EmittedIsFree'
  BY <1>2, <1>4, <1>6 DEF Kahn, EmittedIsFree
<1>16. \A e \in Uses(recipe) : Down(recipe, e) = u => Up(recipe, e) \in Emitted
  BY <1>2 DEF Waiting
<1>17. CirclesStay'
  <2> SUFFICES ASSUME NEW U \in SUBSET Ids(recipe), WaitsInCircles(recipe, U)
               PROVE  U \cap Emitted' = {}
    BY DEF CirclesStay
  <2>1. U \cap Emitted = {}
    BY DEF Kahn, CirclesStay
  <2>2. u \notin U
    BY <2>1, <1>16 DEF WaitsInCircles
  <2> QED
    BY <2>1, <2>2, <1>4
<1>18. DependenciesFirst'
  <2> SUFFICES ASSUME NEW i \in 1..(n + 1), NEW e \in Uses(recipe), Down(recipe, e) = ordered'[i]
               PROVE  \E j \in 1..(i - 1) : ordered'[j] = Up(recipe, e)
    BY <1>3 DEF DependenciesFirst
  <2>1. CASE i = n + 1
    <3>1. Up(recipe, e) \in Emitted
      BY <2>1, <1>3, <1>16
    <3>2. PICK j \in 1..n : ordered[j] = Up(recipe, e)
      BY <3>1, <1>3 DEF Emitted
    <3> QED
      BY <3>2, <2>1, <1>3
  <2>2. CASE i \in 1..n
    <3>1. Down(recipe, e) = ordered[i]
      BY <2>2, <1>3
    <3>2. PICK j \in 1..(i - 1) : ordered[j] = Up(recipe, e)
      BY <3>1, <2>2, <1>3 DEF DependenciesFirst
    <3>3. j \in 1..n
      BY <2>2, <1>3
    <3> QED
      BY <3>2, <3>3, <1>3
  <2> QED
    BY <2>1, <2>2, <1>3
<1>19. indegree' \in [Ids(recipe) -> Nat]
  BY <1>8, <1>9, <1>11
<1>20. ready' \subseteq Ids(recipe)
  BY <1>1, <1>11
<1> QED
  BY <1>3, <1>12, <1>13, <1>14, <1>15, <1>17, <1>18, <1>19, <1>20 DEF Kahn

-----------------------------------------------------------------------------
(* Each id is emitted at most once, so the length that the code compares   *)
(* tells whether every action has been emitted.                            *)
LEMMA LengthTellsAll ==
  ASSUME TypeOK, EmittedOnce PROVE EmittedAll <=> Emitted = Ids(recipe)
<1> DEFINE n == Len(ordered)
           f == [i \in 1..n |-> ordered[i]]
<1>1. n \in Nat /\ DOMAIN ordered = 1..n /\ \A i \in 1..n : ordered[i] \in Ids(recipe)
  <2>1. ordered \in Seq(Ids(recipe))
    BY DEF TypeOK
  <2> QED
    BY <2>1
<1>2. f \in Bijection(1..n, Emitted)
  <2>1. f \in [1..n -> Emitted]
    BY <1>1 DEF Emitted
  <2>2. \A i, j \in 1..n : f[i] = f[j] => i = j
    BY <1>1 DEF EmittedOnce
  <2>3. \A d \in Emitted : \E i \in 1..n : f[i] = d
    BY <1>1 DEF Emitted
  <2> QED
    BY <2>1, <2>2, <2>3 DEF Bijection, Injection, Surjection, IsInjective
<1>3. ExistsBijection(1..n, Emitted)
  BY <1>2 DEF ExistsBijection
<1>4. Cardinality(Emitted) = n
  <2>1. n \in Nat
    BY <1>1
  <2> HIDE DEF n
  <2> QED
    BY <2>1, <1>3, FS_CountingElements
<1>5. Emitted \subseteq Ids(recipe)
  BY <1>1 DEF Emitted
<1>6. IsFiniteSet(Ids(recipe))
  BY IdsAreFinite DEF TypeOK
<1>7. ASSUME Cardinality(Emitted) = Cardinality(Ids(recipe)) PROVE Emitted = Ids(recipe)
  BY <1>5, <1>6, <1>7, FS_Subset
<1> QED
  BY <1>4, <1>7 DEF EmittedAll

(* If the loop stops early, what is left waits in circles.                 *)
LEMMA StuckIsACircle ==
  ASSUME TypeOK, WellPosed, Kahn, ready = {}, ~EmittedAll
  PROVE  \E U \in SUBSET Ids(recipe) : WaitsInCircles(recipe, U)
<1> DEFINE U == Ids(recipe) \ Emitted
<1>1. Emitted \subseteq Ids(recipe)
  <2>1. ordered \in Seq(Ids(recipe))
    BY DEF TypeOK
  <2> QED
    BY <2>1 DEF Emitted
<1>2. U # {}
  BY <1>1, LengthTellsAll DEF Kahn
<1>3. ASSUME NEW d \in U PROVE \E e \in Uses(recipe) : Down(recipe, e) = d /\ Up(recipe, e) \in U
  <2>1. PICK e \in Waiting(d) : TRUE
    BY DEF Kahn, ReadyIsFree
  <2>2. e \in Uses(recipe) /\ Down(recipe, e) = d /\ Up(recipe, e) \notin Emitted
    BY <2>1 DEF Waiting
  <2>3. Up(recipe, e) \in Ids(recipe)
    BY <2>2, DependenciesAreActions DEF TypeOK, WellPosed
  <2> QED
    BY <2>2, <2>3
<1> QED
  BY <1>2, <1>3 DEF WaitsInCircles

(* If the loop emits everything, nothing waits in circles.                 *)
LEMMA CompleteIsAcyclic ==
  ASSUME TypeOK, Kahn, EmittedAll
  PROVE  \A U \in SUBSET Ids(recipe) : ~WaitsInCircles(recipe, U)
<1>1. Emitted = Ids(recipe)
  BY LengthTellsAll DEF Kahn
<1> QED
  BY <1>1 DEF Kahn, CirclesStay, WaitsInCircles

(* ... and what the last action emitted produces is a terminal state: an   *)
(* action that used it would have been emitted later.                      *)
LEMMA CompleteHasATerminal ==
  ASSUME TypeOK, WellPosed, Kahn, DependenciesFirst, EmittedAll
  PROVE  TerminalStates(recipe) # {}
<1> DEFINE n == Len(ordered)
<1>1. recipe \in Recipes /\ ordered \in Seq(Ids(recipe)) /\ n \in Nat /\ DOMAIN ordered = 1..n
  <2>1. recipe \in Recipes /\ ordered \in Seq(Ids(recipe))
    BY DEF TypeOK
  <2> QED
    BY <2>1
<1>2. Emitted = Ids(recipe)
  BY LengthTellsAll DEF Kahn
<1>3. 1 \in DOMAIN recipe
  <2>1. recipe \in Seq(ActionType)
    BY <1>1, RecipesAreLists
  <2> QED
    BY <2>1 DEF WellPosed
<1>4. n >= 1
  <2>1. recipe[1].id \in Emitted
    BY <1>2, <1>3 DEF Ids
  <2> QED
    BY <2>1, <1>1 DEF Emitted
<1>5. n \in DOMAIN ordered /\ ordered[n] \in Ids(recipe)
  BY <1>1, <1>4
<1>6. PICK k \in DOMAIN recipe : recipe[k].id = ordered[n]
  BY <1>5 DEF Ids
<1>7. ASSUME NEW e \in Uses(recipe), recipe[e[1]].uses[e[2]] = recipe[k].produces PROVE FALSE
  <2>1. Up(recipe, e) = ordered[n]
    <3> DEFINE s == recipe[e[1]].uses[e[2]]
               p == CHOOSE i \in DOMAIN recipe : recipe[i].produces = s
    <3>1. p \in DOMAIN recipe /\ recipe[p].produces = s
      BY <1>7
    <3>2. p = k
      BY <3>1, <1>7 DEF WellPosed, SingleWriter
    <3> QED
      BY <3>2, <1>6 DEF Up, Producer
  <2>2. Down(recipe, e) \in Emitted
    BY <1>1, <1>2, DependenciesAreActions
  <2>3. PICK i \in 1..n : ordered[i] = Down(recipe, e)
    BY <2>2, <1>1 DEF Emitted
  <2>4. PICK j \in 1..(i - 1) : ordered[j] = ordered[n]
    BY <2>1, <2>3, <1>1 DEF DependenciesFirst
  <2>5. j \in 1..n /\ j # n
    <3>1. n \in Nat
      BY <1>1
    <3> HIDE DEF n
    <3> QED
      BY <3>1
  <2> QED
    BY <2>4, <2>5, <1>1, <1>5 DEF Kahn, EmittedOnce
<1> QED
  BY <1>6, <1>7 DEF TerminalStates

-----------------------------------------------------------------------------
LEMMA InitIsGood == Init => IInv
  BY DEF Init, IInv, TypeOK, Running, Accepted, DependenciesFirst, VerdictIsRight,
         AcyclicHasATerminal, SortNeverRaises

(* A refusal before the loop.                                              *)
LEMMA RejectIsGood ==
  ASSUME IInv, RejectGraph \/ RejectDangling \/ RejectSelfUse PROVE IInv'
<1>1. UNCHANGED <<recipe, indegree, ready, ordered>>
  BY DEF RejectGraph, RejectDangling, RejectSelfUse
<1>2. phase' \in {"GraphError", "DanglingReferenceError", "CyclicGraphError"}
  BY DEF RejectGraph, RejectDangling, RejectSelfUse
<1>3. ~Running' /\ ~Accepted' /\ SortNeverRaises'
  BY <1>2 DEF Running, Accepted, SortNeverRaises
<1>4. TypeOK'
  BY <1>1, <1>2, <1>3 DEF IInv, TypeOK
<1>5. DependenciesFirst'
  BY <1>1 DEF IInv, DependenciesFirst
<1>6. AcyclicHasATerminal'
  BY <1>1 DEF AcyclicHasATerminal, RejectGraph, RejectDangling, RejectSelfUse
<1>7. ASSUME phase' = "CyclicGraphError"
      PROVE  \E U \in SUBSET Ids(recipe) : WaitsInCircles(recipe, U)
  <2>1. UsesItself(recipe)
    BY <1>7 DEF RejectGraph, RejectDangling, RejectSelfUse
  <2>2. PICK e \in Uses(recipe) : Up(recipe, e) = Down(recipe, e)
    BY <2>1 DEF UsesItself
  <2>3. Down(recipe, e) \in Ids(recipe)
    BY <2>2, DependenciesAreActions DEF IInv, TypeOK
  <2>4. WaitsInCircles(recipe, {Down(recipe, e)})
    BY <2>2 DEF WaitsInCircles
  <2> QED
    BY <2>3, <2>4
<1>8. VerdictIsRight'
  BY <1>1, <1>3, <1>7 DEF VerdictIsRight
<1> QED
  BY <1>3, <1>4, <1>5, <1>6, <1>8 DEF IInv

(* Entering the check, or the sort.                                        *)
LEMMA BeginIsGood ==
  ASSUME IInv, BeginCheck \/ BeginSort PROVE IInv'
<1>1. recipe \in Recipes /\ Load /\ recipe' = recipe
  BY DEF IInv, TypeOK, BeginCheck, BeginSort
<1>2. /\ Kahn' /\ DependenciesFirst'
      /\ ready' \subseteq Ids(recipe)' /\ ordered' \in Seq(Ids(recipe)')
      /\ indegree' \in [Ids(recipe)' -> Nat]
  BY <1>1, LoadStartsKahn
<1>3. phase' \in {"check", "sort"}
  BY DEF BeginCheck, BeginSort
<1>4. WellPosed'
  BY <1>1 DEF IInv, WellPosed, Running, BeginCheck, BeginSort
<1>5. TypeOK'
  BY <1>1, <1>2, <1>3 DEF TypeOK
<1>6. Accepted' => Accepted
  BY DEF Accepted, BeginCheck, BeginSort
<1>7. VerdictIsRight'
  BY <1>1, <1>3, <1>6 DEF IInv, VerdictIsRight
<1>8. AcyclicHasATerminal' /\ SortNeverRaises'
  BY <1>3 DEF AcyclicHasATerminal, SortNeverRaises
<1> QED
  BY <1>2, <1>4, <1>5, <1>7, <1>8 DEF IInv

(* A turn of either loop.                                                  *)
LEMMA TurnIsGood ==
  ASSUME IInv, NEW u \in ActionIds, CheckPop(u) \/ SortPop(u) PROVE IInv'
<1>1. /\ u \in ready /\ Pop(u) /\ recipe' = recipe /\ phase' = phase
      /\ phase \in {"check", "sort"}
  BY DEF CheckPop, SortPop
<1>2. Running /\ TypeOK /\ WellPosed /\ Kahn /\ DependenciesFirst
  BY <1>1 DEF IInv, Running
<1>3. /\ Kahn' /\ DependenciesFirst'
      /\ ready' \subseteq Ids(recipe)' /\ ordered' \in Seq(Ids(recipe)')
      /\ indegree' \in [Ids(recipe)' -> Nat]
  BY <1>1, <1>2, PopKeepsKahn
<1>4. WellPosed'
  BY <1>1, <1>2 DEF WellPosed
<1>5. TypeOK'
  BY <1>1, <1>2, <1>3 DEF TypeOK
<1>6. VerdictIsRight' /\ AcyclicHasATerminal' /\ SortNeverRaises'
  BY <1>1 DEF IInv, VerdictIsRight, AcyclicHasATerminal, SortNeverRaises, Accepted
<1> QED
  BY <1>3, <1>4, <1>5, <1>6 DEF IInv

(* Leaving a loop: the verdict of the check, and of the sort.              *)
LEMMA EndIsGood ==
  ASSUME IInv, EndCheck \/ EndSort PROVE IInv'
<1>1. ready = {} /\ phase \in {"check", "sort"} /\ UNCHANGED <<recipe, indegree, ready, ordered>>
  BY DEF EndCheck, EndSort
<1>2. Running /\ TypeOK /\ WellPosed /\ Kahn /\ DependenciesFirst
  BY <1>1 DEF IInv, Running
<1>3. phase' \in {"CyclicGraphError", "GraphError", "accepted", "sorted", "sort raised"}
  BY DEF EndCheck, EndSort
<1>4. TypeOK' /\ DependenciesFirst' /\ WellPosed' /\ Kahn'
  <2>1. TypeOK'
    BY <1>1, <1>2, <1>3 DEF TypeOK
  <2>2. DependenciesFirst' /\ WellPosed'
    BY <1>1, <1>2 DEF DependenciesFirst, WellPosed
  <2>3. Emitted' = Emitted
    BY <1>1 DEF Emitted
  <2>4. \A d : Waiting(d)' = Waiting(d)
    BY <1>1, <2>3 DEF Waiting
  <2>5. Kahn'
    BY <1>1, <1>2, <2>3, <2>4
       DEF Kahn, EmittedOnce, Counted, ReadyIsFree, CirclesStay, EmittedIsFree
  <2> QED
    BY <2>1, <2>2, <2>5
<1>5. CASE EmittedAll
  <2>1. \A U \in SUBSET Ids(recipe) : ~WaitsInCircles(recipe, U)
    BY <1>2, <1>5, CompleteIsAcyclic
  <2>2. TerminalStates(recipe) # {}
    BY <1>2, <1>5, CompleteHasATerminal
  <2>3. phase' \in {"accepted", "sorted"}
    BY <1>5, <2>2 DEF EndCheck, EndSort
  <2>4. VerdictIsRight' /\ AcyclicHasATerminal' /\ SortNeverRaises'
    BY <1>1, <2>1, <2>3 DEF VerdictIsRight, AcyclicHasATerminal, SortNeverRaises
  <2> QED
    BY <1>4, <2>4 DEF IInv
<1>6. CASE ~EmittedAll
  <2>1. \E U \in SUBSET Ids(recipe) : WaitsInCircles(recipe, U)
    BY <1>1, <1>2, <1>6, StuckIsACircle
  <2>2. ~Accepted
    BY <2>1 DEF IInv, VerdictIsRight
  <2>3. phase' = "CyclicGraphError"
    BY <1>6, <2>2 DEF Accepted, EndCheck, EndSort
  <2>4. VerdictIsRight' /\ AcyclicHasATerminal' /\ SortNeverRaises'
    BY <1>1, <2>1, <2>3 DEF VerdictIsRight, AcyclicHasATerminal, SortNeverRaises, Accepted
  <2> QED
    BY <1>4, <2>4 DEF IInv
<1> QED
  BY <1>5, <1>6

-----------------------------------------------------------------------------
(* The invariant that carries the theorems below.                          *)
THEOREM GraphInvariant == Spec => []IInv
<1>1. Init => IInv
  BY InitIsGood
<1>2. IInv /\ [Next]_vars => IInv'
  <2> SUFFICES ASSUME IInv, [Next]_vars PROVE IInv'
    OBVIOUS
  <2>1. CASE RejectGraph \/ RejectDangling \/ RejectSelfUse
    BY <2>1, RejectIsGood
  <2>2. CASE BeginCheck \/ BeginSort
    BY <2>2, BeginIsGood
  <2>3. CASE \E u \in ActionIds : CheckPop(u) \/ SortPop(u)
    BY <2>3, TurnIsGood
  <2>4. CASE EndCheck \/ EndSort
    BY <2>4, EndIsGood
  <2>5. CASE UNCHANGED vars
    <3>1. UNCHANGED <<recipe, phase, indegree, ready, ordered>>
      BY <2>5 DEF vars
    <3>2. Emitted' = Emitted
      BY <3>1 DEF Emitted
    <3>3. \A d : Waiting(d)' = Waiting(d)
      BY <3>1, <3>2 DEF Waiting
    <3>4. Kahn => Kahn'
      BY <3>1, <3>2, <3>3 DEF Kahn, EmittedOnce, Counted, ReadyIsFree, CirclesStay, EmittedIsFree
    <3>5. (Running => WellPosed /\ Kahn)'
      BY <3>1, <3>4 DEF IInv, Running, WellPosed
    <3>6. TypeOK' /\ DependenciesFirst'
      BY <3>1 DEF IInv, TypeOK, Running, DependenciesFirst
    <3>7. VerdictIsRight' /\ AcyclicHasATerminal' /\ SortNeverRaises'
      BY <3>1 DEF IInv, VerdictIsRight, AcyclicHasATerminal, SortNeverRaises, Accepted
    <3> QED
      BY <3>5, <3>6, <3>7 DEF IInv
  <2> QED
    BY <2>1, <2>2, <2>3, <2>4, <2>5 DEF Next
<1> QED
  BY <1>1, <1>2, PTL DEF Spec

(* What each variable holds; in particular no indegree goes below zero.    *)
THEOREM TypeCorrect == Spec => []TypeOK
<1>1. IInv => TypeOK
  BY DEF IInv
<1> QED
  BY <1>1, GraphInvariant, PTL

(* Neither loop emits an action before one that it depends on.             *)
THEOREM DependenciesComeFirst == Spec => []DependenciesFirst
<1>1. IInv => DependenciesFirst
  BY DEF IInv
<1> QED
  BY <1>1, GraphInvariant, PTL

(* A recipe that was constructed has no set of actions waiting in circles;  *)
(* one refused as cyclic has one.                                          *)
THEOREM VerdictsAreRight == Spec => []VerdictIsRight
<1>1. IInv => VerdictIsRight
  BY DEF IInv
<1> QED
  BY <1>1, GraphInvariant, PTL

(* The terminal-state check of _validate_graph refuses nothing that the     *)
(* checks before it have let through.                                      *)
THEOREM TerminalCheckIsRedundant == Spec => []AcyclicHasATerminal
<1>1. IInv => AcyclicHasATerminal
  BY DEF IInv
<1> QED
  BY <1>1, GraphInvariant, PTL

(* topological_actions does not raise on a recipe that was constructed.     *)
THEOREM SortNeverFails == Spec => []SortNeverRaises
<1>1. IInv => SortNeverRaises
  BY DEF IInv
<1> QED
  BY <1>1, GraphInvariant, PTL

-----------------------------------------------------------------------------
(* While the sort runs, no dependency order is less than what is emitted.   *)
Agrees(s)  == \A j \in DOMAIN ordered : s[j] = ordered[j]
Exceeds(s) == \E k \in DOMAIN ordered :
                Precedes(recipe, ordered[k], s[k]) /\ \A j \in 1..(k - 1) : s[j] = ordered[j]

LeastSoFar ==
  /\ phase \in {"sort", "sorted"} => \A s \in TopologicalOrders(recipe) : Agrees(s) \/ Exceeds(s)
  /\ phase = "sorted" => EmittedAll

(* A dependency order lists each id once.                                   *)
LEMMA OrdersAreInjective ==
  ASSUME TypeOK, NEW s \in TopologicalOrders(recipe)
  PROVE  /\ Cardinality(Ids(recipe)) \in Nat
         /\ \A i, j \in 1..Cardinality(Ids(recipe)) : s[i] = s[j] => i = j
<1> DEFINE N == Cardinality(Ids(recipe))
<1>1. IsFiniteSet(Ids(recipe))
  BY IdsAreFinite DEF TypeOK
<1>2. N \in Nat
  BY <1>1, FS_CardinalityType
<1>3. s \in [1..N -> Ids(recipe)] /\ \A d \in Ids(recipe) : \E i \in 1..N : s[i] = d
  BY DEF TopologicalOrders
<1> HIDE DEF N
<1>4. s \in Surjection(1..N, Ids(recipe))
  BY <1>3 DEF Surjection
<1>5. IsFiniteSet(1..N) /\ Cardinality(1..N) = N
  BY <1>2, FS_Interval
<1>6. s \in Injection(1..N, Ids(recipe))
  BY <1>4, <1>5, FS_SurjSameCardinalityImpliesInj DEF N
<1>7. QED BY <1>2, <1>6 DEF Injection, IsInjective, N

(* An id that is emitted next fits into the order.                          *)
LEMMA RoomForOneMore ==
  ASSUME TypeOK, Kahn, ready # {}
  PROVE  Len(ordered) + 1 =< Cardinality(Ids(recipe))
<1> DEFINE n == Len(ordered)
           f == [i \in 1..n |-> ordered[i]]
<1>1. ordered \in Seq(Ids(recipe))
  BY DEF TypeOK
<1>2. n \in Nat /\ DOMAIN ordered = 1..n /\ \A i \in 1..n : ordered[i] \in Ids(recipe)
  BY <1>1
<1>3. IsFiniteSet(Ids(recipe)) /\ Cardinality(Ids(recipe)) \in Nat
  BY IdsAreFinite, FS_CardinalityType DEF TypeOK
<1>4. f \in Injection(1..n, Ids(recipe))
  <2>1. f \in [1..n -> Ids(recipe)] /\ \A i, j \in 1..n : f[i] = f[j] => i = j
    BY <1>2 DEF Kahn, EmittedOnce
  <2>2. QED BY <2>1 DEF Injection, IsInjective
<1>5. Cardinality(1..n) = n
  <2>1. n \in Nat
    BY <1>2
  <2> HIDE DEF n
  <2>2. QED BY <2>1, FS_Interval
<1>6. n =< Cardinality(Ids(recipe))
  BY <1>3, <1>4, <1>5, FS_Injection
<1>7. n # Cardinality(Ids(recipe))
  <2>1. Emitted # Ids(recipe)
    BY DEF Kahn, ReadyIsFree
  <2>2. QED BY <2>1, LengthTellsAll DEF Kahn, EmittedAll
<1>8. QED BY <1>2, <1>3, <1>6, <1>7

(* The heap's choice: an order that goes on differently is greater.         *)
LEMMA LeastChoice ==
  ASSUME TypeOK, Kahn, NEW u \in ready, \A v \in ready \ {u} : Precedes(recipe, u, v),
         NEW s \in TopologicalOrders(recipe), Agrees(s)
  PROVE  LET n == Len(ordered) + 1 IN s[n] = u \/ Precedes(recipe, u, s[n])
<1> DEFINE n == Len(ordered) + 1
           N == Cardinality(Ids(recipe))
<1>1. ordered \in Seq(Ids(recipe))
  BY DEF TypeOK
<1>2. n \in 1..N /\ DOMAIN ordered = 1..(n - 1) /\ N \in Nat /\ n \in Nat
  BY <1>1, RoomForOneMore, OrdersAreInjective
<1>3. s \in [1..N -> Ids(recipe)] /\ \A i, j \in 1..N : s[i] = s[j] => i = j
  BY OrdersAreInjective DEF TopologicalOrders
<1> HIDE DEF n, N
<1>4. s[n] \in Ids(recipe)
  BY <1>2, <1>3
<1>5. \A j \in 1..(n - 1) : s[j] = ordered[j] /\ j \in 1..N /\ j # n
  BY <1>2 DEF Agrees
<1>6. s[n] \notin Emitted
  BY <1>2, <1>3, <1>5 DEF Emitted
<1>7. PICK i \in 1..N : /\ s[i] = s[n]
                        /\ \A e \in Uses(recipe) : Down(recipe, e) = s[n] =>
                             \E j \in 1..(i - 1) : s[j] = Up(recipe, e)
  BY <1>3, <1>4 DEF TopologicalOrders
<1>8. i = n
  BY <1>2, <1>3, <1>7
<1>9. Waiting(s[n]) = {}
  <2> SUFFICES ASSUME NEW e \in Uses(recipe), Down(recipe, e) = s[n] PROVE Up(recipe, e) \in Emitted
    BY DEF Waiting
  <2>1. PICK j \in 1..(n - 1) : s[j] = Up(recipe, e)
    BY <1>7, <1>8
  <2>2. QED BY <1>2, <1>5, <2>1 DEF Emitted
<1>10. s[n] \in ready
  BY <1>4, <1>6, <1>9 DEF Kahn, ReadyIsFree
<1>11. QED BY <1>10 DEF n

LEMMA StepLeast == IInv /\ LeastSoFar /\ [Next]_vars => LeastSoFar'
<1> SUFFICES ASSUME IInv, LeastSoFar, [Next]_vars PROVE LeastSoFar'
  OBVIOUS
<1>1. CASE RejectGraph \/ RejectDangling \/ RejectSelfUse \/ BeginCheck
           \/ EndCheck \/ \E u \in ActionIds : CheckPop(u)
  <2>1. phase' \notin {"sort", "sorted"}
    BY <1>1 DEF RejectGraph, RejectDangling, RejectSelfUse, BeginCheck, EndCheck, CheckPop
  <2>2. QED BY <2>1 DEF LeastSoFar
<1>2. CASE BeginSort
  <2>1. ordered' = <<>> /\ phase' = "sort"
    BY <1>2 DEF BeginSort, Load
  <2>2. \A s : Agrees(s)'
    BY <2>1 DEF Agrees
  <2>3. QED BY <2>1, <2>2 DEF LeastSoFar
<1>3. ASSUME NEW u \in ActionIds, SortPop(u) PROVE LeastSoFar'
  <2>1. /\ phase = "sort" /\ phase' = "sort" /\ recipe' = recipe /\ u \in ready
        /\ \A v \in ready \ {u} : Precedes(recipe, u, v)
        /\ ordered' = Append(ordered, u)
    BY <1>3 DEF SortPop, Pop
  <2>2. TypeOK /\ Kahn /\ ordered \in Seq(Ids(recipe)) /\ u \in Ids(recipe)
    BY <2>1 DEF IInv, Running, TypeOK
  <2> DEFINE n == Len(ordered) + 1
  <2>3. /\ n \in Nat \ {0} /\ DOMAIN ordered = 1..(n - 1) /\ DOMAIN ordered' = 1..n
        /\ ordered'[n] = u /\ \A j \in 1..(n - 1) : ordered'[j] = ordered[j]
    BY <2>1, <2>2
  <2> SUFFICES ASSUME NEW s \in TopologicalOrders(recipe) PROVE Agrees(s)' \/ Exceeds(s)'
    BY <2>1 DEF LeastSoFar
  <2>4. CASE Agrees(s)
    <3>1. s[n] = u \/ Precedes(recipe, u, s[n])
      BY <2>1, <2>2, <2>4, LeastChoice
    <3> HIDE DEF n
    <3>2. CASE s[n] = u
      BY <2>3, <2>4, <3>2 DEF Agrees
    <3>3. CASE Precedes(recipe, u, s[n])
      <4>1. n \in DOMAIN ordered' /\ \A j \in 1..(n - 1) : s[j] = ordered'[j]
        BY <2>3, <2>4 DEF Agrees
      <4>2. Precedes(recipe', ordered'[n], s[n])
        BY <2>1, <2>3, <3>3
      <4>3. QED BY <4>1, <4>2 DEF Exceeds
    <3>4. QED BY <3>1, <3>2, <3>3
  <2>5. CASE Exceeds(s)
    <3> HIDE DEF n
    <3>1. PICK k \in 1..(n - 1) : /\ Precedes(recipe, ordered[k], s[k])
                                  /\ \A j \in 1..(k - 1) : s[j] = ordered[j]
      BY <2>3, <2>5 DEF Exceeds
    <3>2. k \in DOMAIN ordered' /\ ordered'[k] = ordered[k]
      BY <2>3
    <3>3. \A j \in 1..(k - 1) : s[j] = ordered'[j]
      BY <2>3, <3>1
    <3>4. QED BY <2>1, <3>1, <3>2, <3>3 DEF Exceeds
  <2>6. QED BY <2>1, <2>4, <2>5 DEF LeastSoFar
<1>4. CASE EndSort
  <2>1. phase = "sort" /\ UNCHANGED <<recipe, ordered>> /\ (phase' = "sorted" => EmittedAll)
    BY <1>4 DEF EndSort
  <2>2. QED BY <2>1 DEF LeastSoFar, Agrees, Exceeds, EmittedAll
<1>5. CASE UNCHANGED vars
  BY <1>5 DEF vars, LeastSoFar, Agrees, Exceeds, EmittedAll
<1>6. QED BY <1>1, <1>2, <1>3, <1>4, <1>5 DEF Next

(* topological_actions returns the least of all dependency orders by         *)
(* (order, id), so what it returns is a function of the recipe alone.        *)
THEOREM SortReturnsTheLeast == Spec => []SortIsLeast
<1>1. Init => LeastSoFar
  BY DEF Init, LeastSoFar
<1>2. IInv /\ LeastSoFar /\ [Next]_vars => LeastSoFar'
  BY StepLeast
<1>3. IInv /\ LeastSoFar => SortIsLeast
  <2> SUFFICES ASSUME IInv, LeastSoFar, phase = "sorted", NEW s \in TopologicalOrders(recipe)
               PROVE  s = ordered \/ ComesBefore(recipe, ordered, s)
    BY DEF SortIsLeast
  <2>1. ordered \in Seq(Ids(recipe)) /\ Len(ordered) = Cardinality(Ids(recipe))
    BY DEF IInv, TypeOK, LeastSoFar, EmittedAll
  <2>2. s \in [1..Len(ordered) -> Ids(recipe)] /\ DOMAIN ordered = 1..Len(ordered)
    BY <2>1 DEF TopologicalOrders
  <2>3. CASE Agrees(s)
    BY <2>1, <2>2, <2>3 DEF Agrees
  <2>4. CASE Exceeds(s)
    BY <2>4 DEF Exceeds, ComesBefore
  <2>5. QED BY <2>3, <2>4 DEF LeastSoFar
<1>4. QED BY <1>1, <1>2, <1>3, GraphInvariant, PTL DEF Spec

=============================================================================
