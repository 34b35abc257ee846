---------------------------- MODULE Render_proofs ----------------------------
(***************************************************************************)
(* A recipe on its way to a reader, for every recipe, content and reader:  *)
(* rendering leaves the graph to RecipeGraph, no amount or time that is kept *)
(* at its number goes unreported, and every reference shows by its label.  *)
(***************************************************************************)
EXTENDS Render, RecipeGraph_proofs, Quantities_proofs

Reading == {"steps", "raised", "drawing", "shown"}

(* What constructing the actions has established.                          *)
Constructed ==
  \A i \in DOMAIN recipe : ReferencesResolve(content[recipe[i].id], recipe[i].uses)

(* The steps are those of the first actions of the order; none of them      *)
(* raised, and what it had to report is kept.                              *)
Rendered ==
  /\ steps \in Seq({Step(ordered[i], reader) : i \in DOMAIN ordered})
  /\ Len(steps) =< Len(ordered)
  /\ \A i \in DOMAIN steps :
       /\ steps[i] = Step(ordered[i], reader)
       /\ ~StepRaises(ordered[i], reader)
       /\ StepIssues(ordered[i], reader) \subseteq issues
  /\ \A n \in issues : \E i \in DOMAIN steps : n \in StepIssues(ordered[i], reader)

Labelled == DOMAIN labels = {ById(recipe, ordered[i]).produces : i \in DOMAIN ordered}

RInv ==
  /\ content \in Contents
  /\ view \in {"writing", "refused", "constructed"} \cup Reading
  /\ phase = "sorted" => EmittedAll
  /\ view \in {"constructed"} \cup Reading => Constructed
  /\ IF view \in Reading THEN phase = "sorted" /\ Labelled /\ Rendered
     ELSE steps = <<>> /\ issues = {}
  /\ view = "raised" => reader.scale = Zero
  /\ view \in Reading => reader \in Readers

-----------------------------------------------------------------------------
(* Every step of the rendering is a step of RecipeGraph or leaves the graph *)
(* alone, so what is proved of the graph holds while it is rendered.        *)
THEOREM RenderingKeepsTheGraph == RSpec => Spec
<1>1. RInit => Init
  BY DEF RInit
<1>2. [RNext]_<<vars, rvars>> => [Next]_vars
  BY DEF RNext, ConstructActions, GraphStep, Open, RenderStep, DrawStates, DrawAction, Show
<1> QED
  BY <1>1, <1>2, PTL DEF RSpec, Spec

(* The order lists every id once, and ById finds an action of that id.      *)
LEMMA OrderShape ==
  ASSUME IInv, phase = "sorted", EmittedAll
  PROVE  /\ Len(ordered) \in Nat /\ DOMAIN ordered = 1..Len(ordered)
         /\ Emitted = Ids(recipe)
         /\ WellPosed
         /\ \A i \in DOMAIN ordered : ordered[i] \in ActionIds /\ ordered[i] \in Ids(recipe)
<1>1. TypeOK /\ WellPosed /\ Kahn
  BY DEF IInv, Running
<1>2. ordered \in Seq(Ids(recipe))
  BY <1>1 DEF TypeOK
<1>3. Emitted = Ids(recipe)
  BY <1>1, LengthTellsAll DEF Kahn, EmittedAll
<1>4. Ids(recipe) \subseteq ActionIds
  <2>1. \A i \in DOMAIN recipe : recipe[i] \in ActionType
    BY <1>1, RecipeShape DEF TypeOK
  <2> QED
    BY <2>1 DEF Ids, ActionType
<1> QED
  BY <1>1, <1>2, <1>3, <1>4

(* With distinct ids there is only one.                                    *)
LEMMA DistinctIdsTell ==
  ASSUME TypeOK, EmittedAll, DistinctIds
  PROVE  \A i, j \in DOMAIN recipe : recipe[i].id = recipe[j].id => i = j
<1> DEFINE n == Len(recipe)
           f == [i \in 1..n |-> recipe[i].id]
<1>1. n \in Nat /\ DOMAIN recipe = 1..n
  BY RecipeShape DEF TypeOK
<1>2. f \in Surjection(1..n, Ids(recipe))
  BY <1>1 DEF Surjection, Ids
<1>3. IsFiniteSet(1..n) /\ Cardinality(1..n) = n
  <2>1. n \in Nat
    BY <1>1
  <2> HIDE DEF n
  <2> QED
    BY <2>1, FS_Interval
<1>4. n = Cardinality(Ids(recipe))
  BY DEF DistinctIds, EmittedAll
<1>5. f \in Injection(1..n, Ids(recipe))
  BY <1>2, <1>3, <1>4, FS_SurjSameCardinalityImpliesInj
<1>6. \A i, j \in 1..n : f[i] = f[j] => i = j
  BY <1>5 DEF Injection, IsInjective
<1> QED
  BY <1>1, <1>6

(* Then ById finds the action that carries the id, and a state is used only *)
(* after the action that produces it.                                      *)
LEMMA ActionOf ==
  ASSUME IInv, phase = "sorted", EmittedAll, DistinctIds, NEW i \in DOMAIN ordered
  PROVE  \E m \in DOMAIN recipe : recipe[m].id = ordered[i] /\ ById(recipe, ordered[i]) = recipe[m]
<1>1. TypeOK
  BY DEF IInv
<1>2. ordered[i] \in Ids(recipe)
  BY OrderShape
<1>3. PICK m \in DOMAIN recipe : recipe[m].id = ordered[i]
  BY <1>2 DEF Ids
<1>4. \A j \in DOMAIN recipe : recipe[j].id = ordered[i] => j = m
  BY <1>1, <1>3, DistinctIdsTell
<1>5. m =< m
  BY <1>1, <1>3, RecipeShape DEF TypeOK
<1>6. (CHOOSE j \in DOMAIN recipe : /\ recipe[j].id = ordered[i]
                                    /\ \A k \in DOMAIN recipe : recipe[k].id = ordered[i] => k =< j) = m
  BY <1>3, <1>4, <1>5
<1> QED
  BY <1>3, <1>6 DEF ById

LEMMA ProducedBefore ==
  ASSUME IInv, phase = "sorted", EmittedAll, DistinctIds, NEW i \in DOMAIN ordered,
         NEW k \in DOMAIN ById(recipe, ordered[i]).uses
  PROVE  \E j \in 1..(i - 1) : /\ j \in DOMAIN ordered
                               /\ ById(recipe, ordered[j]).produces = ById(recipe, ordered[i]).uses[k]
<1>1. TypeOK /\ DependenciesFirst /\ WellPosed
  BY DEF IInv, Running
<1>2. PICK m \in DOMAIN recipe : recipe[m].id = ordered[i] /\ ById(recipe, ordered[i]) = recipe[m]
  BY ActionOf
<1> DEFINE e == <<m, k>>
<1>3. e \in Uses(recipe)
  BY <1>2 DEF Uses
<1>4. e[1] = m /\ e[2] = k
  OBVIOUS
<1>5. \E q \in DOMAIN recipe : recipe[q].produces = recipe[m].uses[k]
  BY <1>1, <1>3, <1>4 DEF WellPosed, Resolved
<1>6. PICK q \in DOMAIN recipe : recipe[q].produces = recipe[m].uses[k] /\ Up(recipe, e) = recipe[q].id
  BY <1>4, <1>5 DEF Up, Producer
<1>7. Down(recipe, e) = ordered[i]
  BY <1>2, <1>4 DEF Down
<1> HIDE DEF e
<1>8. PICK j \in 1..(i - 1) : ordered[j] = recipe[q].id
  BY <1>1, <1>3, <1>6, <1>7 DEF DependenciesFirst
<1>9. j \in DOMAIN ordered
  BY <1>8, OrderShape
<1>10. PICK p \in DOMAIN recipe : recipe[p].id = ordered[j] /\ ById(recipe, ordered[j]) = recipe[p]
  BY <1>9, ActionOf
<1>11. p = q
  BY <1>1, <1>8, <1>10, DistinctIdsTell
<1> QED
  BY <1>2, <1>6, <1>8, <1>9, <1>10, <1>11

-----------------------------------------------------------------------------
LEMMA RInitIsGood == RInit => RInv
  BY DEF RInit, Init, RInv, Reading

(* An action that was constructed raises only for a factor of zero.         *)
LEMMA OnlyZeroRaises ==
  ASSUME Constructed, NEW a \in Ids(recipe), NEW r, StepRaises(a, r)
  PROVE  r.scale = Zero
<1>1. PICK i \in DOMAIN recipe : recipe[i].id = a
  BY DEF Ids
<1>2. ReferencesResolve(content[a], recipe[i].uses)
  BY <1>1 DEF Constructed
<1>3. ~LookupFails(content[a])
  <2> SUFFICES ASSUME NEW k \in DOMAIN content[a].text, content[a].text[k].kind # "state"
               PROVE  SlotResolves(content[a].text[k], content[a], <<>>)
    BY DEF LookupFails
  <2>1. SlotResolves(content[a].text[k], content[a], recipe[i].uses)
    BY <1>2 DEF ReferencesResolve
  <2> QED
    BY <2>1 DEF SlotResolves
<1> QED
  BY <1>3 DEF StepRaises, ScaleSpec

LEMMA GraphStepIsGood ==
  ASSUME IInv, RInv, GraphStep PROVE RInv'
<1>1. /\ view = "constructed" /\ Next
      /\ UNCHANGED <<content, view, reader, labels, steps, issues, nodes, edges, drawn>>
  BY DEF GraphStep, rvars
<1>2. recipe' = recipe
  BY <1>1 DEF Next, RejectGraph, RejectDangling, RejectSelfUse, BeginCheck, EndCheck, BeginSort,
              EndSort, CheckPop, SortPop
<1>3. phase' = "sorted" => EmittedAll'
  BY <1>1 DEF Next, RejectGraph, RejectDangling, RejectSelfUse, BeginCheck, EndCheck, BeginSort,
              EndSort, CheckPop, SortPop, RInv, EmittedAll
<1>4. Constructed'
  BY <1>1, <1>2 DEF RInv, Constructed
<1> QED
  BY <1>1, <1>3, <1>4 DEF RInv, Reading

(* A step that leaves the graph, the content and the reader alone.          *)
LEMMA OthersAreGood ==
  ASSUME IInv, RInv, ConstructActions \/ DrawStates \/ DrawAction \/ Show \/ UNCHANGED <<vars, rvars>>
  PROVE  RInv'
<1>1. UNCHANGED <<recipe, phase, ordered, content, reader, labels, steps, issues>>
  BY DEF ConstructActions, DrawStates, DrawAction, Show, vars, rvars
<1>2. /\ Constructed' = Constructed /\ Labelled' = Labelled /\ EmittedAll' = EmittedAll
  BY <1>1 DEF Constructed, Labelled, EmittedAll
<1>3. \A a, r : Step(a, r)' = Step(a, r) /\ StepRaises(a, r)' = StepRaises(a, r)
               /\ StepIssues(a, r)' = StepIssues(a, r)
  BY <1>1 DEF Step, StepRaises, StepIssues, Piece, LabelOf, LookupFails
<1>4. Rendered' = Rendered
  BY <1>1, <1>3 DEF Rendered
<1>5. ASSUME ConstructActions PROVE RInv'
  BY <1>1, <1>2, <1>5 DEF RInv, Reading, ConstructActions, Constructed
<1>6. ASSUME DrawStates \/ DrawAction \/ Show \/ UNCHANGED <<vars, rvars>> PROVE RInv'
  <2>1. view' = view \/ (view \in {"steps", "drawing"} /\ view' \in {"drawing", "shown"})
    BY <1>6 DEF DrawStates, DrawAction, Show, rvars
  <2> QED
    BY <1>1, <1>2, <1>4, <2>1 DEF RInv, Reading
<1> QED
  BY <1>5, <1>6

(* A reader comes: every state the order produces gets a label.             *)
LEMMA OpenIsGood ==
  ASSUME IInv, RInv, NEW r \in Readers, Open(r) PROVE RInv'
<1>1. /\ view = "constructed" /\ phase = "sorted" /\ view' = "steps" /\ reader' \in Readers
      /\ UNCHANGED <<recipe, phase, ordered, content, steps, issues>>
  BY DEF Open, vars
<1>2. Labelled'
  BY <1>1 DEF Open, Labelled
<1>3. steps' = <<>>
  BY <1>1 DEF RInv, Reading
<1>4. Len(ordered) \in Nat
  BY <1>1, OrderShape DEF RInv
<1>5. Rendered'
  <2>1. issues' = {}
    BY <1>1 DEF RInv, Reading
  <2> QED
    BY <1>1, <1>3, <1>4, <2>1 DEF Rendered
<1>6. Constructed' /\ EmittedAll'
  BY <1>1 DEF RInv, Constructed, EmittedAll
<1> QED
  BY <1>1, <1>2, <1>5, <1>6 DEF RInv, Reading

(* One more step is rendered, or raises.                                    *)
LEMMA RenderStepIsGood ==
  ASSUME IInv, RInv, RenderStep PROVE RInv'
<1> DEFINE n == Len(steps) + 1
           a == ordered[n]
<1>1. /\ view = "steps" /\ Len(steps) < Len(ordered)
      /\ UNCHANGED <<recipe, phase, ordered, content, reader, labels>>
      /\ phase = "sorted" /\ Labelled /\ Rendered /\ Constructed /\ EmittedAll
  BY DEF RenderStep, vars, RInv, Reading
<1>2. Labelled' /\ Constructed' /\ EmittedAll'
  BY <1>1 DEF Constructed, Labelled, EmittedAll
<1>3. \A b, r : Step(b, r)' = Step(b, r) /\ StepRaises(b, r)' = StepRaises(b, r)
               /\ StepIssues(b, r)' = StepIssues(b, r)
  BY <1>1 DEF Step, StepRaises, StepIssues, Piece, LabelOf, LookupFails
<1>4. n \in DOMAIN ordered /\ a \in Ids(recipe) /\ Len(ordered) \in Nat /\ DOMAIN ordered = 1..Len(ordered)
  <2>1. Len(steps) \in Nat
    BY <1>1 DEF Rendered
  <2>2. Len(ordered) \in Nat /\ DOMAIN ordered = 1..Len(ordered) /\ \A i \in DOMAIN ordered : ordered[i] \in Ids(recipe)
    BY <1>1, OrderShape
  <2> QED
    BY <1>1, <2>1, <2>2
<1>5. CASE StepRaises(a, reader)
  <2>1. reader.scale = Zero
    BY <1>1, <1>4, <1>5, OnlyZeroRaises
  <2>2. steps' = steps /\ issues' = issues /\ view' = "raised"
    BY <1>5 DEF RenderStep
  <2>3. Rendered'
    BY <1>1, <1>3, <2>2 DEF Rendered
  <2> QED
    BY <1>1, <1>2, <2>1, <2>2, <2>3 DEF RInv, Reading
<1>6. CASE ~StepRaises(a, reader)
  <2>1. steps' = Append(steps, Step(a, reader)) /\ issues' = issues \cup StepIssues(a, reader) /\ view' = view
    BY <1>6 DEF RenderStep
  <2>2. Rendered'
    <3> DEFINE S == {Step(ordered[i], reader) : i \in DOMAIN ordered}
               new == Step(a, reader)
    <3>1. steps \in Seq(S) /\ new \in S
      BY <1>1, <1>4 DEF Rendered
    <3>2. S' = S
      BY <1>1, <1>3
    <3> HIDE DEF S, new
    <3>3. Append(steps, new) \in Seq(S) /\ Len(Append(steps, new)) = Len(steps) + 1
      BY <3>1
    <3>4. \A i \in DOMAIN steps' : steps'[i] = (IF i = n THEN new ELSE steps[i]) /\ (i = n \/ i \in DOMAIN steps)
      BY <2>1, <3>1 DEF new
    <3>5. steps' \in Seq(S)' /\ Len(steps') =< Len(ordered)'
      <4>1. Len(steps) \in Nat
        BY <3>1
      <4> QED
        BY <1>1, <1>4, <2>1, <3>2, <3>3, <4>1 DEF new
    <3>6. ASSUME NEW i \in DOMAIN steps'
          PROVE  /\ steps'[i] = Step(ordered[i], reader) /\ ~StepRaises(ordered[i], reader)
                 /\ StepIssues(ordered[i], reader) \subseteq issues'
      <4>1. CASE i = n
        BY <1>6, <2>1, <3>4, <4>1 DEF new
      <4>2. CASE i # n
        BY <1>1, <2>1, <3>4, <4>2 DEF Rendered
      <4> QED
        BY <4>1, <4>2
    <3>7. DOMAIN steps \subseteq DOMAIN steps' /\ n \in DOMAIN steps' /\ n \notin DOMAIN steps
      BY <2>1, <3>1 DEF new
    <3>8. ASSUME NEW note \in issues'
          PROVE  \E i \in DOMAIN steps' : note \in StepIssues(ordered[i], reader)
      <4>1. CASE note \in StepIssues(a, reader)
        BY <3>7, <4>1
      <4>2. CASE note \in issues
        BY <1>1, <3>7, <4>2 DEF Rendered
      <4> QED
        BY <2>1, <4>1, <4>2
    <3> QED
      BY <1>1, <1>3, <3>5, <3>6, <3>8 DEF Rendered, S
  <2> QED
    BY <1>1, <1>2, <2>1, <2>2 DEF RInv, Reading
<1> QED
  BY <1>5, <1>6

THEOREM RenderInvariant == RSpec => [](IInv /\ RInv)
<1>1. IInv /\ RInv /\ [RNext]_<<vars, rvars>> => RInv'
  BY GraphStepIsGood, OthersAreGood, OpenIsGood, RenderStepIsGood DEF RNext
<1>2. RInit => RInv
  BY RInitIsGood
<1>3. RSpec => []IInv
  BY RenderingKeepsTheGraph, GraphInvariant, PTL
<1> QED
  BY <1>1, <1>2, <1>3, PTL DEF RSpec

-----------------------------------------------------------------------------
(* What of a step the theorems below look at.                              *)
LEMMA RenderedShape ==
  ASSUME IInv, RInv, NEW i \in DOMAIN steps
  PROVE  /\ view \in Reading /\ phase = "sorted" /\ EmittedAll /\ Labelled /\ Constructed
         /\ i \in DOMAIN ordered /\ ordered[i] \in Ids(recipe) /\ ordered[i] \in ActionIds
         /\ steps[i] = Step(ordered[i], reader) /\ steps[i].action = ordered[i]
         /\ ~StepRaises(ordered[i], reader) /\ StepIssues(ordered[i], reader) \subseteq issues
<1>1. view \in Reading /\ phase = "sorted" /\ EmittedAll /\ Labelled /\ Constructed /\ Rendered
  BY DEF RInv, Reading
<1>2. /\ Len(ordered) \in Nat /\ DOMAIN ordered = 1..Len(ordered)
      /\ \A j \in DOMAIN ordered : ordered[j] \in ActionIds /\ ordered[j] \in Ids(recipe)
  BY <1>1, OrderShape
<1>3. i \in DOMAIN ordered
  BY <1>1, <1>2 DEF Rendered
<1>4. steps[i] = Step(ordered[i], reader)
  BY <1>1 DEF Rendered
<1>5. Step(ordered[i], reader).action = ordered[i]
  BY DEF Step
<1> QED
  BY <1>1, <1>2, <1>3, <1>4, <1>5 DEF Rendered

(* A list that is not empty has a first element.                           *)
LEMMA FirstOfList ==
  ASSUME NEW l, ListOf(l), l # <<>> PROVE 1 \in DOMAIN l
<1> DEFINE S == {l[i] : i \in DOMAIN l}
<1>1. l \in Seq(S)
  BY DEF ListOf
<1> HIDE DEF S
<1> QED
  BY <1>1

(* Whoever reads at another scale is told of every timer, and of every       *)
(* ingredient amount that is neither scaled nor declared INVARIANT.         *)
(* (Temperatures are not among the amounts; nobody is told of them.)        *)
THEOREM NoAmountIsSilentlyUnscaled == RSpec => []NoAmountSilentlyUnscaled
<1>1. IInv /\ RInv => NoAmountSilentlyUnscaled
  <2> SUFFICES ASSUME IInv, RInv, NEW i \in DOMAIN steps, reader.scale # Whole(1)
               PROVE  /\ content[steps[i].action].timers # <<>> =>
                           Issue("SCALING_MANUAL", "warn", <<"action", steps[i].action>>) \in PageNotes
                      /\ \A k \in DOMAIN LinesOf(i) : LinesOf(i)[k].quantity # <<>> =>
                           LET spec == LinesOf(i)[k].quantity[1] IN
                           \/ spec.scaling = "INVARIANT"
                           \/ Issue("SCALING_MANUAL", "warn", <<"use", LinesOf(i)[k].id>>) \in PageNotes
                           \/ ScaleSpec(spec, reader.scale).quantity = ScaleQuantity(spec.quantity, reader.scale)
    BY DEF NoAmountSilentlyUnscaled
  <2> DEFINE a == ordered[i]
             c == content[a]
  <2>1. /\ a \in ActionIds /\ steps[i].action = a
        /\ ~StepRaises(a, reader) /\ StepIssues(a, reader) \subseteq issues
    BY RenderedShape
  <2>2. /\ DOMAIN content = ActionIds /\ ListOf(c.timers)
        /\ \A k \in DOMAIN c.ingredients : ListOf(c.ingredients[k].quantity)
    BY <2>1, ContentsAreTold DEF RInv
  <2>3. LinesOf(i) = c.ingredients
    BY <2>1 DEF LinesOf
  <2> HIDE DEF a
  <2>4. ASSUME c.timers # <<>>
        PROVE  Issue("SCALING_MANUAL", "warn", <<"action", a>>) \in PageNotes
    <3> DEFINE note == Issue("SCALING_MANUAL", "warn", <<"action", a>>)
    <3>1. 1 \in DOMAIN c.timers
      BY <2>2, <2>4, FirstOfList
    <3>2. ScaleSpec(TimerSpec(c.timers[1]), reader.scale).warned
      BY DEF ScaleSpec, TimerSpec, Reported
    <3>3. note \in TimerIssues(c.timers[1], a, reader)
      BY <3>2 DEF TimerIssues, When
    <3>4. note \in StepIssues(a, reader)
      BY <3>1, <3>3 DEF StepIssues
    <3> QED
      BY <2>1, <3>4 DEF PageNotes, Issue
  <2>5. ASSUME NEW k \in DOMAIN c.ingredients, c.ingredients[k].quantity # <<>>,
               c.ingredients[k].quantity[1].scaling # "INVARIANT",
               ~Issue("SCALING_MANUAL", "warn", <<"use", c.ingredients[k].id>>) \in PageNotes
        PROVE  ScaleSpec(c.ingredients[k].quantity[1], reader.scale).quantity
                 = ScaleQuantity(c.ingredients[k].quantity[1].quantity, reader.scale)
    <3> DEFINE use == c.ingredients[k]
               spec == use.quantity[1]
               note == Issue("SCALING_MANUAL", "warn", <<"use", use.id>>)
    <3>1. 1 \in DOMAIN use.quantity
      BY <2>2, <2>5, FirstOfList
    <3>2. spec.scaling \in Policies
      BY <2>1, <2>2, <3>1, SpecsAreValid DEF RInv, SpecOK
    <3>3. ~ScaleSpec(spec, reader.scale).warned
      <4> SUFFICES ASSUME ScaleSpec(spec, reader.scale).warned PROVE FALSE
        OBVIOUS
      <4>1. note \in LineIssues(use, reader)
        BY <3>1 DEF LineIssues, When
      <4>2. note \in StepIssues(a, reader)
        BY <4>1 DEF StepIssues
      <4> QED
        BY <2>1, <2>5, <4>2 DEF PageNotes, Issue
    <3>4. ~ScaleSpec(spec, reader.scale).raised
      BY <2>1, <3>1 DEF StepRaises
    <3>5. spec.scaling = "LINEAR"
      BY <2>5, <3>2, <3>3 DEF ScaleSpec, Reported, Policies
    <3>6. reader.scale # Zero
      BY <3>4, <3>5 DEF ScaleSpec, ScalesWithFactor
    <3> QED
      BY <3>5, <3>6 DEF ScaleSpec, ScalesWithFactor
  <2> QED
    BY <2>1, <2>3, <2>4, <2>5
<1> QED
  BY <1>1, RenderInvariant, PTL

(* Rendering a recipe that was constructed raises only for a factor of zero, *)
(* and no piece of text and no input of a step is shown as a raw id.         *)
THEOREM EveryReferenceIsShown == RSpec => []EveryReferenceShows
<1>1. IInv /\ RInv => EveryReferenceShows
  <2> SUFFICES ASSUME IInv, RInv, DistinctIds, NEW i \in DOMAIN steps
               PROVE  /\ \A k \in DOMAIN steps[i].uses : steps[i].uses[k] # RawId
                      /\ \A k \in DOMAIN steps[i].text : steps[i].text[k] # RawId
    BY DEF EveryReferenceShows, RInv
  <2> DEFINE a == ordered[i]
             c == content[a]
             uses == ById(recipe, a).uses
  <2>1. /\ phase = "sorted" /\ EmittedAll /\ Labelled /\ Constructed
        /\ i \in DOMAIN ordered /\ a \in ActionIds /\ steps[i] = Step(a, reader)
    BY RenderedShape
  <2>2. \A k \in DOMAIN uses : uses[k] \in DOMAIN labels
    <3> SUFFICES ASSUME NEW k \in DOMAIN uses PROVE uses[k] \in DOMAIN labels
      OBVIOUS
    <3>1. \E j \in 1..(i - 1) : j \in DOMAIN ordered /\ ById(recipe, ordered[j]).produces = uses[k]
      BY <2>1, ProducedBefore
    <3> QED
      BY <2>1, <3>1 DEF Labelled
  <2>3. \A s \in DOMAIN labels : LabelOf(s) # RawId
    BY DEF LabelOf, RawId
  <2>4. \A k \in DOMAIN steps[i].uses : steps[i].uses[k] # RawId
    BY <2>1, <2>2, <2>3 DEF Step
  <2>5. ListOf(c.ingredients)
    BY <2>1, ContentsAreTold DEF RInv
  <2>6. ReferencesResolve(c, uses)
    <3>1. PICK m \in DOMAIN recipe : recipe[m].id = a /\ ById(recipe, a) = recipe[m]
      BY <2>1, ActionOf
    <3> QED
      BY <2>1, <3>1 DEF Constructed
  <2>7. \A k \in DOMAIN steps[i].text : steps[i].text[k] # RawId
    <3>1. CASE c.text = <<>>
      <4> DEFINE verb == <<IF c.verb = <<>> THEN "Combine" ELSE Resolve(c.verb[1], reader.lang)>>
                 lines == [k \in DOMAIN c.ingredients |-> <<"ingredient">>]
      <4>1. steps[i].text = <<verb>> \o lines
        BY <2>1, <3>1 DEF Step
      <4>2. lines \in Seq({<<"ingredient">>})
        <5> DEFINE S == {c.ingredients[k] : k \in DOMAIN c.ingredients}
        <5>1. c.ingredients \in Seq(S)
          BY <2>5 DEF ListOf
        <5> HIDE DEF S
        <5>2. PICK n \in Nat : DOMAIN c.ingredients = 1..n
          BY <5>1
        <5> QED
          BY <5>2
      <4>3. verb # RawId /\ <<"ingredient">> # RawId
        BY DEF RawId
      <4> HIDE DEF verb, lines
      <4>4. \A k \in DOMAIN (<<verb>> \o lines) :
              (<<verb>> \o lines)[k] = verb \/ (<<verb>> \o lines)[k] = <<"ingredient">>
        BY <4>2
      <4> QED
        BY <4>1, <4>3, <4>4
    <3>2. CASE c.text # <<>>
      <4>1. steps[i].text = [k \in DOMAIN c.text |-> Piece(c.text[k], c, reader)]
        BY <2>1, <3>2 DEF Step
      <4>2. ASSUME NEW k \in DOMAIN c.text PROVE Piece(c.text[k], c, reader) # RawId
        <5>1. CASE c.text[k].kind = "state"
          <6>1. PICK m \in DOMAIN uses : uses[m] = c.text[k].ref
            BY <2>6, <5>1 DEF ReferencesResolve, SlotResolves
          <6>2. LabelOf(c.text[k].ref) # RawId
            BY <2>2, <2>3, <6>1
          <6> QED
            BY <5>1, <6>2 DEF Piece
        <5>2. CASE c.text[k].kind # "state"
          BY <5>2 DEF Piece, RawId
        <5> QED
          BY <5>1, <5>2
      <4> QED
        BY <4>1, <4>2
    <3> QED
      BY <3>1, <3>2
  <2> QED
    BY <2>4, <2>7
<1> QED
  BY <1>1, RenderInvariant, PTL

(* The ids of uses are unique in a recipe, not only within an action.       *)
UseIdsTellUses ==
  \A c \in Contents : \A a, b \in ActionIds :
    \A i \in DOMAIN c[a].ingredients : \A j \in DOMAIN c[b].ingredients :
      c[a].ingredients[i].id = c[b].ingredients[j].id => c[a].ingredients[i] = c[b].ingredients[j]

(* What a use is reported for, apart from its scale.                       *)
LEMMA LineIssuesAre ==
  ASSUME NEW use, NEW r, NEW n,
         n.code \in {"UNIT_UNRESOLVED", "INGREDIENT_UNBOUND"}, n.severity \in {"warn", "error"},
         n \in LineIssues(use, r)
  PROVE  n.element = <<"use", use.id>> /\ (UnitUnread(use) \/ Unknown(use))
  BY DEF LineIssues, When, Issue

(* Where use ids are unique, a line is flagged exactly when the notes of the *)
(* page say why.                                                           *)
THEOREM FlagsMeetTheirReasons == ASSUME UseIdsTellUses PROVE RSpec => []FlagsMeetWarnings
<1>1. IInv /\ RInv => FlagsMeetWarnings
  <2> DEFINE Codes == {"UNIT_UNRESOLVED", "INGREDIENT_UNBOUND"}
             Told(use) == \E n \in PageNotes : n.code \in Codes /\ n.element = <<"use", use.id>>
  <2> SUFFICES ASSUME IInv, RInv, NEW i \in DOMAIN steps, NEW k \in DOMAIN LinesOf(i)
               PROVE  steps[i].lines[k].unresolved <=> Told(LinesOf(i)[k])
    BY DEF FlagsMeetWarnings
  <2> DEFINE a == ordered[i]
             use == content[a].ingredients[k]
  <2>1. /\ a \in ActionIds /\ steps[i] = Step(a, reader) /\ steps[i].action = a
        /\ StepIssues(a, reader) \subseteq issues
    BY RenderedShape
  <2>2. LinesOf(i) = content[a].ingredients
    BY <2>1 DEF LinesOf
  <2>3. steps[i].lines[k].unresolved <=> UnitUnread(use) \/ Unknown(use)
    <3>1. steps[i].lines[k] = Line(use, reader)
      BY <2>1, <2>2 DEF Step
    <3> HIDE DEF use
    <3>2. Line(use, reader).unresolved <=> UnitUnread(use) \/ Unknown(use)
      BY DEF Line
    <3> QED
      BY <3>1, <3>2
  <2>4. ASSUME UnitUnread(use) \/ Unknown(use) PROVE Told(use)
    <3> DEFINE unit    == Issue("UNIT_UNRESOLVED", "warn", <<"use", use.id>>)
               unbound == Issue("INGREDIENT_UNBOUND", "warn", <<"use", use.id>>)
    <3>1. unit \in LineIssues(use, reader) \/ unbound \in LineIssues(use, reader)
      BY <2>4 DEF LineIssues, When
    <3>2. unit \in issues \/ unbound \in issues
      BY <2>1, <2>2, <3>1 DEF StepIssues
    <3> QED
      BY <3>2 DEF PageNotes, Issue
  <2>5. ASSUME Told(use) PROVE UnitUnread(use) \/ Unknown(use)
    <3>1. PICK n \in PageNotes : n.code \in Codes /\ n.element = <<"use", use.id>>
      BY <2>5
    <3>2. n \in issues /\ n.severity \in {"warn", "error"}
      BY <3>1 DEF PageNotes
    <3>3. PICK j \in DOMAIN steps : n \in StepIssues(ordered[j], reader)
      BY <3>2 DEF RInv, Rendered, Reading
    <3> DEFINE b == ordered[j]
    <3>4. b \in ActionIds
      BY RenderedShape
    <3>5. \A m \in DOMAIN content[b].timers : n \notin TimerIssues(content[b].timers[m], b, reader)
      BY <3>1 DEF TimerIssues, When, Issue
    <3>6. PICK m \in DOMAIN content[b].ingredients : n \in LineIssues(content[b].ingredients[m], reader)
      BY <3>3, <3>5 DEF StepIssues
    <3> DEFINE other == content[b].ingredients[m]
    <3>7. n.element = <<"use", other.id>> /\ (UnitUnread(other) \/ Unknown(other))
      BY <3>1, <3>2, <3>6, LineIssuesAre
    <3>8. other.id = use.id
      BY <3>1, <3>7
    <3>9. other = use
      BY <2>1, <2>2, <3>4, <3>6, <3>8, UseIdsTellUses DEF RInv, UseIdsTellUses
    <3> QED
      BY <3>7, <3>9
  <2> QED
    BY <2>2, <2>3, <2>4, <2>5
<1> QED
  BY <1>1, RenderInvariant, PTL

-----------------------------------------------------------------------------
(* The drawing: the nodes of all states first, then action by action.       *)
Target(i)   == <<"state", ById(recipe, ordered[i]).produces>>
ArrowsOf(i) == Arrows(i, ordered[i], Inputs(ordered[i]), Target(i))
NodesOf(i) ==
  LET a  == ordered[i]
      in == Inputs(a) IN
  {in[k] : k \in {j \in DOMAIN in : in[j][1] = "use"}}
  \cup (IF Len(in) = 0 THEN {<<"start", a>>} ELSE IF Len(in) > 1 THEN {<<"join", a>>} ELSE {})

DrawnSoFar ==
  /\ drawn \in Nat
  /\ IF view \in {"drawing", "shown"}
     THEN /\ drawn =< Len(ordered)
          /\ \A i \in DOMAIN ordered : Target(i) \in nodes
          /\ \A i \in 1..drawn : NodesOf(i) \subseteq nodes
          /\ edges = UNION {ArrowsOf(i) : i \in 1..drawn}
     ELSE drawn = 0 /\ edges = {}
  /\ view = "shown" => drawn = Len(ordered)

LEMMA StepDraws ==
  ASSUME IInv, RInv, DrawnSoFar, [RNext]_<<vars, rvars>> PROVE DrawnSoFar'
<1>1. CASE ConstructActions \/ GraphStep \/ (\E r \in Readers : Open(r)) \/ RenderStep
  <2>1. /\ drawn' = drawn /\ edges' = edges
        /\ view \notin {"drawing", "shown"} /\ view' \notin {"drawing", "shown"}
    BY <1>1 DEF ConstructActions, GraphStep, Open, RenderStep, rvars
  <2> QED
    BY <2>1 DEF DrawnSoFar
<1>2. ASSUME UNCHANGED <<recipe, ordered, content>>
      PROVE  \A i : Target(i)' = Target(i) /\ ArrowsOf(i)' = ArrowsOf(i) /\ NodesOf(i)' = NodesOf(i)
  <2>1. \A a : Inputs(a)' = Inputs(a)
    BY <1>2 DEF Inputs
  <2> QED
    BY <1>2, <2>1 DEF Target, ArrowsOf, NodesOf
<1>3. CASE DrawStates
  <2>1. /\ UNCHANGED <<recipe, ordered, content, edges, drawn>>
        /\ view = "steps" /\ view' = "drawing" /\ phase = "sorted" /\ EmittedAll
        /\ nodes' = {Target(i) : i \in DOMAIN ordered}
    BY <1>3 DEF DrawStates, vars, RInv, Reading, Target
  <2>2. drawn' = 0 /\ edges' = {} /\ Len(ordered) \in Nat
    BY <2>1, OrderShape DEF DrawnSoFar
  <2>3. \A i : Target(i)' = Target(i)
    BY <1>2, <2>1
  <2> QED
    BY <2>1, <2>2, <2>3 DEF DrawnSoFar
<1>4. CASE DrawAction
  <2> DEFINE i == drawn + 1
  <2>1. /\ UNCHANGED <<recipe, ordered, content, view>>
        /\ view = "drawing" /\ drawn < Len(ordered) /\ drawn' = i /\ phase = "sorted" /\ EmittedAll
        /\ nodes' = nodes \cup NodesOf(i) /\ edges' = edges \cup ArrowsOf(i)
    <3>1. /\ nodes' = nodes \cup NodesOf(i) /\ edges' = edges \cup ArrowsOf(i)
      BY <1>4 DEF DrawAction, NodesOf, ArrowsOf, Target
    <3> QED
      BY <1>4, <3>1 DEF DrawAction, vars, RInv, Reading
  <2>2. Len(ordered) \in Nat
    BY <2>1, OrderShape
  <2>3. 1..drawn' = 1..drawn \cup {i} /\ drawn' \in Nat /\ drawn' =< Len(ordered)
    BY <2>1, <2>2 DEF DrawnSoFar
  <2> HIDE DEF i
  <2>4. edges' = UNION {ArrowsOf(j) : j \in 1..drawn'}
    BY <2>1, <2>3 DEF DrawnSoFar
  <2>5. \A j \in 1..drawn' : NodesOf(j) \subseteq nodes'
    BY <2>1, <2>3 DEF DrawnSoFar
  <2>6. \A j \in DOMAIN ordered : Target(j) \in nodes'
    BY <2>1 DEF DrawnSoFar
  <2>7. \A j : Target(j)' = Target(j) /\ ArrowsOf(j)' = ArrowsOf(j) /\ NodesOf(j)' = NodesOf(j)
    BY <1>2, <2>1
  <2> QED
    BY <2>1, <2>3, <2>4, <2>5, <2>6, <2>7 DEF DrawnSoFar
<1>5. CASE Show \/ UNCHANGED <<vars, rvars>>
  <2>1. /\ UNCHANGED <<recipe, ordered, content, nodes, edges, drawn>>
        /\ view' = view \/ (view = "drawing" /\ view' = "shown" /\ drawn = Len(ordered))
    BY <1>5 DEF Show, vars, rvars
  <2>2. \A j : Target(j)' = Target(j) /\ ArrowsOf(j)' = ArrowsOf(j) /\ NodesOf(j)' = NodesOf(j)
    BY <1>2, <2>1
  <2> QED
    BY <2>1, <2>2 DEF DrawnSoFar
<1> QED
  BY <1>1, <1>3, <1>4, <1>5 DEF RNext

(* What goes into an action: states that earlier steps produce, and uses.    *)
LEMMA InputsAre ==
  ASSUME IInv, RInv, phase = "sorted", EmittedAll, DistinctIds, NEW i \in DOMAIN ordered
  PROVE  LET in == Inputs(ordered[i]) IN
         /\ Len(in) \in Nat /\ DOMAIN in = 1..Len(in)
         /\ \A k \in DOMAIN in :
              /\ in[k][1] \in {"state", "use"}
              /\ in[k][1] = "state" => \E j \in 1..(i - 1) : j \in DOMAIN ordered /\ Target(j) = in[k]
<1> DEFINE a == ordered[i]
           uses == ById(recipe, a).uses
           ings == content[a].ingredients
           us == [k \in DOMAIN uses |-> <<"state", uses[k]>>]
           is == [k \in DOMAIN ings |-> <<"use", ings[k].id>>]
           US == {<<"state", uses[k]>> : k \in DOMAIN uses}
           IS == {<<"use", ings[k].id>> : k \in DOMAIN ings}
<1>1. a \in ActionIds
  BY OrderShape
<1>2. PICK n \in Nat : DOMAIN ings = 1..n
  <2> DEFINE S == {ings[k] : k \in DOMAIN ings}
  <2>1. ings \in Seq(S)
    BY <1>1, ContentsAreTold DEF RInv, ListOf
  <2> HIDE DEF S, ings
  <2> QED
    BY <2>1
<1>3. PICK m \in Nat : DOMAIN uses = 1..m
  <2>1. PICK j \in DOMAIN recipe : ById(recipe, a) = recipe[j]
    BY ActionOf
  <2>2. recipe[j] \in ActionType
    BY <2>1, RecipeShape DEF IInv, TypeOK
  <2>3. uses \in Seq(States)
    BY <2>1, <2>2 DEF ActionType
  <2> HIDE DEF uses
  <2> QED
    BY <2>3
<1>4. us \in Seq(US) /\ is \in Seq(IS)
  <2> HIDE DEF uses, ings
  <2>1. us \in [1..m -> US] /\ is \in [1..n -> IS]
    BY <1>2, <1>3
  <2> QED
    BY <2>1
<1>5. Inputs(a) = us \o is
  BY DEF Inputs
<1>6. us \o is \in Seq(US \cup IS)
  <2> HIDE DEF us, is, US, IS
  <2> QED
    BY <1>4
<1>7. \A x \in US \cup IS : x[1] \in {"state", "use"} /\ (x[1] = "state" => x \in US)
  <2>1. \A x \in US : x[1] = "state"
    OBVIOUS
  <2>2. \A x \in IS : x[1] = "use"
    OBVIOUS
  <2> QED
    BY <2>1, <2>2
<1>8. \A x \in US : \E j \in 1..(i - 1) : j \in DOMAIN ordered /\ Target(j) = x
  <2> SUFFICES ASSUME NEW k \in DOMAIN uses
               PROVE  \E j \in 1..(i - 1) : j \in DOMAIN ordered /\ Target(j) = <<"state", uses[k]>>
    OBVIOUS
  <2> QED
    BY ProducedBefore DEF Target
<1> HIDE DEF us, is, US, IS
<1>9. /\ Len(us \o is) \in Nat /\ DOMAIN (us \o is) = 1..Len(us \o is)
      /\ \A k \in DOMAIN (us \o is) : (us \o is)[k] \in US \cup IS
  BY <1>6
<1> QED
  BY <1>5, <1>7, <1>8, <1>9

(* The arrow of an action that carries its label comes from Source, and what *)
(* else there is flows into its join.                                      *)
Source(a) ==
  LET in == Inputs(a) IN
  IF Len(in) = 0 THEN <<"start", a>> ELSE IF Len(in) = 1 THEN in[1] ELSE <<"join", a>>

LEMMA NoneOneOrMore == ASSUME NEW n \in Nat PROVE n = 0 \/ n = 1 \/ n > 1
  OBVIOUS

LEMMA ArrowsAre ==
  ASSUME NEW i \in DOMAIN ordered, Len(Inputs(ordered[i])) \in Nat
  PROVE  LET a  == ordered[i]
             in == Inputs(a) IN
         ArrowsOf(i) = {Edge(Source(a), Target(i), i)}
                       \cup {Edge(in[k], <<"join", a>>, 0) : k \in {j \in DOMAIN in : Len(in) > 1}}
<1> DEFINE a == ordered[i]
           in == Inputs(a)
           joined == {Edge(in[k], <<"join", a>>, 0) : k \in {j \in DOMAIN in : Len(in) > 1}}
<1> SUFFICES ArrowsOf(i) = {Edge(Source(a), Target(i), i)} \cup joined
  OBVIOUS
<1>1. CASE Len(in) = 0
  <2>1. joined = {}
    BY <1>1
  <2>2. ArrowsOf(i) = {Edge(Source(a), Target(i), i)}
    BY <1>1 DEF ArrowsOf, Arrows, Source
  <2> QED
    BY <2>1, <2>2
<1>2. CASE Len(in) = 1
  <2>1. joined = {}
    BY <1>2
  <2>2. ArrowsOf(i) = {Edge(Source(a), Target(i), i)}
    BY <1>2 DEF ArrowsOf, Arrows, Source
  <2> QED
    BY <2>1, <2>2
<1>3. CASE Len(in) > 1
  <2>1. joined = {Edge(in[k], <<"join", a>>, 0) : k \in DOMAIN in}
    BY <1>3
  <2>2. ArrowsOf(i) = {Edge(in[k], <<"join", a>>, 0) : k \in DOMAIN in} \cup {Edge(Source(a), Target(i), i)}
    BY <1>3 DEF ArrowsOf, Arrows, Source
  <2> QED
    BY <2>1, <2>2
<1>4. Len(in) = 0 \/ Len(in) = 1 \/ Len(in) > 1
  BY NoneOneOrMore
<1> HIDE DEF in, joined
<1> QED
  BY <1>1, <1>2, <1>3, <1>4

(* The finished drawing is the recipe: one labelled arrow for each step, from *)
(* exactly its inputs, each of which is drawn and made earlier.              *)
THEOREM TheDrawingIsTheRecipe == RSpec => []DrawingIsTheRecipe
<1>1. IInv /\ RInv /\ DrawnSoFar => DrawingIsTheRecipe
  <2> SUFFICES ASSUME IInv, RInv, DrawnSoFar, view = "shown", DistinctIds
               PROVE  /\ \A e \in edges : {e.src, e.dst} \subseteq nodes
                      /\ \A i \in DOMAIN ordered :
                           LET mine == {e \in edges : e.label = i}
                               from == UNION {IF e.src[1] = "join" THEN {f.src : f \in {g \in edges : g.dst = e.src}}
                                              ELSE IF e.src[1] = "start" THEN {} ELSE {e.src} : e \in mine} IN
                           /\ Cardinality(mine) = 1
                           /\ \A e \in mine : e.dst = <<"state", ById(recipe, ordered[i]).produces>>
                           /\ from = {Inputs(ordered[i])[k] : k \in DOMAIN Inputs(ordered[i])}
                           /\ \A s \in from : s[1] = "state" =>
                                \E j \in 1..(i - 1) : <<"state", ById(recipe, ordered[j]).produces>> = s
    BY DEF DrawingIsTheRecipe
  <2> DEFINE In(i)     == Inputs(ordered[i])
             Arrow(i)  == Edge(Source(ordered[i]), Target(i), i)
             Joined(i) == {Edge(In(i)[k], <<"join", ordered[i]>>, 0) : k \in {j \in DOMAIN In(i) : Len(In(i)) > 1}}
  <2>1. phase = "sorted" /\ EmittedAll
    BY DEF RInv, Reading
  <2>2. /\ Len(ordered) \in Nat /\ DOMAIN ordered = 1..Len(ordered) /\ EmittedOnce
    BY <2>1, OrderShape DEF IInv, Running, Kahn
  <2>3. drawn = Len(ordered) /\ edges = UNION {ArrowsOf(i) : i \in DOMAIN ordered}
    BY <2>2 DEF DrawnSoFar
  <2>4. \A i \in DOMAIN ordered : /\ Target(i) \in nodes /\ NodesOf(i) \subseteq nodes
                                  /\ Target(i)[1] = "state"
    BY <2>2, <2>3 DEF DrawnSoFar, Target
  <2>5. ASSUME NEW i \in DOMAIN ordered
        PROVE  /\ Len(In(i)) \in Nat /\ DOMAIN In(i) = 1..Len(In(i))
               /\ \A k \in DOMAIN In(i) :
                    /\ In(i)[k][1] \in {"state", "use"}
                    /\ In(i)[k][1] = "state" =>
                         \E j \in 1..(i - 1) : j \in DOMAIN ordered /\ Target(j) = In(i)[k]
    BY <2>1, InputsAre
  <2>6. \A i \in DOMAIN ordered : ArrowsOf(i) = {Arrow(i)} \cup Joined(i)
    BY <2>5, ArrowsAre
  <2> HIDE DEF In
  <2>7. ASSUME NEW i \in DOMAIN ordered, NEW k \in DOMAIN In(i) PROVE In(i)[k] \in nodes
    <3>1. CASE In(i)[k][1] = "use"
      BY <2>4, <3>1 DEF NodesOf, In
    <3>2. CASE In(i)[k][1] = "state"
      BY <2>4, <2>5, <3>2
    <3> QED
      BY <2>5, <3>1, <3>2
  <2>8. ASSUME NEW i \in DOMAIN ordered PROVE Source(ordered[i]) \in nodes
    <3>1. CASE Len(In(i)) = 0
      BY <2>4, <3>1 DEF Source, NodesOf, In
    <3>2. CASE Len(In(i)) = 1
      <4>1. 1 \in DOMAIN In(i)
        BY <2>5, <3>2
      <4> QED
        BY <2>7, <3>2, <4>1 DEF Source, In
    <3>3. CASE Len(In(i)) > 1
      BY <2>4, <2>5, <3>3 DEF Source, NodesOf, In
    <3>4. Len(In(i)) = 0 \/ Len(In(i)) = 1 \/ Len(In(i)) > 1
      BY <2>5, NoneOneOrMore
    <3> QED
      BY <3>1, <3>2, <3>3, <3>4
  <2>9. ASSUME NEW i \in DOMAIN ordered, Len(In(i)) > 1 PROVE <<"join", ordered[i]>> \in nodes
    BY <2>4, <2>5, <2>9 DEF NodesOf, In
  <2>10. ASSUME NEW e \in edges PROVE {e.src, e.dst} \subseteq nodes
    <3>1. PICK i \in DOMAIN ordered : e \in {Arrow(i)} \cup Joined(i)
      BY <2>3, <2>6
    <3>2. CASE e = Arrow(i)
      BY <2>4, <2>8, <3>2 DEF Edge
    <3>3. CASE e \in Joined(i)
      <4>1. PICK k \in DOMAIN In(i) : Len(In(i)) > 1 /\ e = Edge(In(i)[k], <<"join", ordered[i]>>, 0)
        BY <3>3
      <4> QED
        BY <2>7, <2>9, <4>1 DEF Edge
    <3> QED
      BY <3>1, <3>2, <3>3
  <2>11. ASSUME NEW i \in DOMAIN ordered
         PROVE  /\ {e \in edges : e.label = i} = {Arrow(i)}
                /\ {f.src : f \in {g \in edges : g.dst = <<"join", ordered[i]>>}}
                     = {In(i)[k] : k \in {j \in DOMAIN In(i) : Len(In(i)) > 1}}
    <3>1. \A e \in edges : \E j \in DOMAIN ordered : e \in {Arrow(j)} \cup Joined(j)
      BY <2>3, <2>6
    <3>2. Arrow(i) \in edges /\ Joined(i) \subseteq edges
      BY <2>3, <2>6
    <3>3. \A j \in DOMAIN ordered : /\ Arrow(j).label = j /\ Arrow(j).dst = Target(j)
                                    /\ \A e \in Joined(j) : e.label = 0 /\ e.dst = <<"join", ordered[j]>>
      BY DEF Edge
    <3>4. {e.src : e \in Joined(i)} = {In(i)[k] : k \in {j \in DOMAIN In(i) : Len(In(i)) > 1}}
      <4>1. \A k \in DOMAIN In(i) : Edge(In(i)[k], <<"join", ordered[i]>>, 0).src = In(i)[k]
        BY DEF Edge
      <4> QED
        BY <4>1, Zenon
    <3> HIDE DEF Arrow, Joined
    <3>5. \A e \in edges : e.label = i => e = Arrow(i)
      BY <2>2, <3>1, <3>3
    <3>6. \A j \in DOMAIN ordered : ordered[j] = ordered[i] => j = i
      BY <2>2 DEF EmittedOnce
    <3>7. \A j \in DOMAIN ordered : Target(j) # <<"join", ordered[i]>>
      BY <2>4
    <3>8. \A j \in DOMAIN ordered : <<"join", ordered[j]>> = <<"join", ordered[i]>> => j = i
      BY <3>6
    <3>9. {g \in edges : g.dst = <<"join", ordered[i]>>} = Joined(i)
      <4>1. ASSUME NEW g \in edges, g.dst = <<"join", ordered[i]>> PROVE g \in Joined(i)
        <5>1. PICK j \in DOMAIN ordered : g \in {Arrow(j)} \cup Joined(j)
          BY <3>1
        <5>2. g # Arrow(j)
          <6>1. Arrow(j).dst = Target(j)
            BY <3>3
          <6>2. Target(j) # g.dst
            BY <3>7, <4>1
          <6> QED
            BY <6>1, <6>2, Zenon
        <5>3. g.dst = <<"join", ordered[j]>>
          BY <3>3, <5>1, <5>2
        <5> QED
          BY <3>8, <4>1, <5>1, <5>2, <5>3
      <4>2. \A g \in Joined(i) : g \in edges /\ g.dst = <<"join", ordered[i]>>
        BY <3>2, <3>3
      <4> QED
        BY <4>1, <4>2
    <3> QED
      BY <3>2, <3>3, <3>4, <3>5, <3>9
  <2>12. ASSUME NEW i \in DOMAIN ordered
         PROVE  LET mine == {e \in edges : e.label = i}
                    from == UNION {IF e.src[1] = "join" THEN {f.src : f \in {g \in edges : g.dst = e.src}}
                                   ELSE IF e.src[1] = "start" THEN {} ELSE {e.src} : e \in mine} IN
                /\ Cardinality(mine) = 1
                /\ \A e \in mine : e.dst = <<"state", ById(recipe, ordered[i]).produces>>
                /\ from = {In(i)[k] : k \in DOMAIN In(i)}
                /\ \A s \in from : s[1] = "state" =>
                     \E j \in 1..(i - 1) : <<"state", ById(recipe, ordered[j]).produces>> = s
    <3> DEFINE mine == {e \in edges : e.label = i}
               Flows(e) == IF e.src[1] = "join" THEN {f.src : f \in {g \in edges : g.dst = e.src}}
                           ELSE IF e.src[1] = "start" THEN {} ELSE {e.src}
               from == UNION {Flows(e) : e \in mine}
               all  == {In(i)[k] : k \in DOMAIN In(i)}
               src  == Source(ordered[i])
    <3>1. mine = {Arrow(i)}
      BY <2>11
    <3>2. Cardinality(mine) = 1
      BY <3>1, FS_Singleton
    <3>3. \A e \in mine : e.dst = Target(i)
      BY <3>1 DEF Edge
    <3>4. Arrow(i).src = src
      BY DEF Edge
    <3>5. from = Flows(Arrow(i))
      BY <3>1
    <3>6. Flows(Arrow(i)) = all
      <4>1. CASE Len(In(i)) = 0
        <5>1. src = <<"start", ordered[i]>>
          BY <4>1 DEF Source, In
        <5>2. all = {}
          BY <2>5, <4>1
        <5> QED
          BY <3>4, <5>1, <5>2
      <4>2. CASE Len(In(i)) = 1
        <5>1. src = In(i)[1] /\ DOMAIN In(i) = {1}
          BY <2>5, <4>2 DEF Source, In
        <5>2. src[1] \in {"state", "use"} /\ all = {src}
          BY <2>5, <5>1
        <5> HIDE DEF all, src
        <5> QED
          BY <3>4, <5>2
      <4>3. CASE Len(In(i)) > 1
        <5>1. src = <<"join", ordered[i]>>
          <6>1. Len(In(i)) # 0 /\ Len(In(i)) # 1
            BY <2>5, <4>3
          <6> QED
            BY <6>1 DEF Source, In
        <5>2. {f.src : f \in {g \in edges : g.dst = src}} = all
          BY <2>11, <4>3, <5>1
        <5>3. src[1] = "join"
          BY <5>1
        <5> HIDE DEF all, src
        <5> QED
          BY <3>4, <5>2, <5>3
      <4>4. Len(In(i)) = 0 \/ Len(In(i)) = 1 \/ Len(In(i)) > 1
        BY <2>5, NoneOneOrMore
      <4> HIDE DEF Flows, all, Arrow
      <4> QED
        BY <4>1, <4>2, <4>3, <4>4
    <3>7. \A s \in all : s[1] = "state" => \E j \in 1..(i - 1) : Target(j) = s
      BY <2>5
    <3> QED
      BY <3>2, <3>3, <3>5, <3>6, <3>7 DEF Target
  <2> QED
    BY <2>10, <2>12 DEF In
<1>2. RInit => DrawnSoFar
  BY DEF RInit, DrawnSoFar
<1> QED
  BY <1>1, <1>2, StepDraws, RenderInvariant, PTL DEF RSpec

-----------------------------------------------------------------------------
LEMMA LinesOfStep ==
  ASSUME NEW a, NEW r, NEW k \in DOMAIN content[a].ingredients
  PROVE  Step(a, r).lines[k] = Line(content[a].ingredients[k], r)
<1> DEFINE uses == content[a].ingredients
           lines == [i \in DOMAIN uses |-> Line(uses[i], r)]
<1>1. Step(a, r).lines = lines
  BY Zenon DEF Step
<1>2. k \in DOMAIN uses
  OBVIOUS
<1> HIDE DEF uses
<1>3. lines[k] = Line(uses[k], r)
  BY <1>2
<1> QED
  BY <1>1, <1>3, Zenon DEF uses

(* The unit a reader is shown measures the same thing.                     *)
LEMMA DisplayKeepsDimension ==
  ASSUME NEW x, NEW u \in Units, NEW r
  PROVE  LET t == DisplayUnit(x, u, r) IN t \in Units /\ UnitDefs[t].dim = UnitDefs[u].dim
<1>1. \A t \in {"lb", "oz", "kg", "g"} : t \in Units /\ UnitDefs[t].dim = "mass"
  BY DEF Units, UnitDefs, UnitRecord
<1>2. \A t \in {"cup_us", "tbsp", "tsp", "l", "ml"} : t \in Units /\ UnitDefs[t].dim = "volume"
  BY DEF Units, UnitDefs, UnitRecord
<1> DEFINE t == DisplayUnit(x, u, r)
<1>3. \/ UnitDefs[u].dim = "mass" /\ t \in {"lb", "oz", "kg", "g"}
      \/ UnitDefs[u].dim = "volume" /\ t \in {"cup_us", "tbsp", "tsp", "l", "ml"}
      \/ t = u
  BY DEF DisplayUnit
<1> HIDE DEF t
<1> QED
  BY <1>1, <1>2, <1>3 DEF t

(* What is shown of a scalar or range beside its number.                    *)
LEMMA ShownIsConverted ==
  ASSUME NEW use, NEW r, NEW q, q = ScaleSpec(use.quantity[1], r.scale).quantity, Amount(q), q.unit \in Units
  PROVE  LET t     == DisplayUnit(q.high, q.unit, r)
             shown == RenderQuantity(use, r) IN
         shown.unit = t /\ shown.exact[1] = ConvertValue(q.high, q.unit, t, NoDensity).value
<1> DEFINE t == DisplayUnit(q.high, q.unit, r)
           In(x) == ConvertValue(x, q.unit, t, NoDensity).value
           shown == [q EXCEPT !.low = In(@), !.high = In(@), !.unit = t]
<1>1. shown.unit = t /\ shown.high = In(q.high)
  <2>1. q = [kind |-> q.kind, low |-> q.low, high |-> q.high, unit |-> q.unit]
    BY DEF Amount
  <2> HIDE DEF t, In
  <2> QED
    BY <2>1
<1>2. RenderQuantity(use, r).unit = shown.unit /\ RenderQuantity(use, r).exact = <<shown.high>>
  BY DEF RenderQuantity
<1> HIDE DEF shown, In
<1> QED
  BY <1>1, <1>2 DEF In

(* Scaling is exact and rounding a matter of display: converted back, the   *)
(* amount kept beside a shown number is the stored one times the factor.    *)
THEOREM ExactAmountsAreScaled == RSpec => []ExactIsTheScaledAmount
<1>1. IInv /\ RInv => ExactIsTheScaledAmount
  <2> SUFFICES ASSUME IInv, RInv, NEW i \in DOMAIN steps, NEW k \in DOMAIN LinesOf(i),
                      NEW j \in DOMAIN steps[i].lines[k].quantity,
                      LinesOf(i)[k].quantity[1].quantity.kind \in {"scalar", "range"},
                      LinesOf(i)[k].quantity[1].quantity.unit \in Units
               PROVE  LET spec  == LinesOf(i)[k].quantity[1]
                          shown == steps[i].lines[k].quantity[1]
                          due   == IF spec.scaling = "LINEAR" THEN Times(spec.quantity.high, reader.scale)
                                   ELSE spec.quantity.high IN
                      ConvertValue(shown.exact[1], shown.unit, spec.quantity.unit, NoDensity).value = due
    BY DEF ExactIsTheScaledAmount
  <2> DEFINE a    == ordered[i]
             use  == content[a].ingredients[k]
             spec == use.quantity[1]
             u    == spec.quantity.unit
             due  == IF spec.scaling = "LINEAR" THEN Times(spec.quantity.high, reader.scale)
                     ELSE spec.quantity.high
             q    == ScaleSpec(spec, reader.scale).quantity
             t    == DisplayUnit(q.high, q.unit, reader)
  <2>1. /\ a \in ActionIds /\ steps[i] = Step(a, reader) /\ steps[i].action = a
        /\ ~StepRaises(a, reader) /\ view \in Reading
    BY RenderedShape
  <2>2. LinesOf(i) = content[a].ingredients /\ k \in DOMAIN content[a].ingredients
    BY <2>1 DEF LinesOf
  <2>3. steps[i].lines[k] = Line(use, reader)
    <3> HIDE DEF a
    <3>1. Step(a, reader).lines[k] = Line(content[a].ingredients[k], reader)
      BY <2>2, LinesOfStep, Zenon
    <3>2. steps[i] = Step(a, reader)
      BY <2>1
    <3> QED
      BY <3>1, <3>2, Zenon
  <2>4. Line(use, reader).quantity = IF use.quantity = <<>> THEN <<>> ELSE <<RenderQuantity(use, reader)>>
    BY DEF Line
  <2>5. use.quantity # <<>> /\ steps[i].lines[k].quantity[1] = RenderQuantity(use, reader)
    <3> HIDE DEF use
    <3> QED
      BY <2>3, <2>4
  <2>6. 1 \in DOMAIN use.quantity
    <3>1. ListOf(use.quantity)
      BY <2>1, <2>2, ContentsAreTold DEF RInv
    <3> HIDE DEF use
    <3> QED
      BY <2>5, <3>1, FirstOfList
  <2>7. Amount(spec.quantity) /\ Decimal(reader.scale)
    <3>1. content \in Contents /\ reader \in Readers
      BY <2>1 DEF RInv
    <3>2. a \in DOMAIN content
      BY <2>1, <3>1, ContentsAreTold
    <3> HIDE DEF a
    <3> QED
      BY <2>2, <2>6, <3>1, <3>2, AmountsAreDecimals, Zenon
  <2>8. ~ScaleSpec(spec, reader.scale).raised
    BY <2>1, <2>2, <2>6 DEF StepRaises
  <2>9. spec.quantity.kind # "approx" /\ u \in Units
    BY <2>2
  <2>10. Amount(q) /\ q.unit = u /\ q.high = due
    <3> HIDE DEF a, use, spec
    <3> QED
      BY <2>7, <2>8, <2>9, ScaledAmount
  <2>11. /\ RenderQuantity(use, reader).unit = t
         /\ RenderQuantity(use, reader).exact[1] = ConvertValue(q.high, q.unit, t, NoDensity).value
    <3>1. q = ScaleSpec(use.quantity[1], reader.scale).quantity /\ q.unit \in Units
      BY <2>9, <2>10
    <3> HIDE DEF a, use, spec, q, due, u
    <3> QED
      BY <2>10, <3>1, ShownIsConverted
  <2>12. t \in Units /\ UnitDefs[t].dim = UnitDefs[u].dim
    <3> HIDE DEF a, use, spec, q, due, u
    <3> QED
      BY <2>9, <2>10, DisplayKeepsDimension
  <2>13. Decimal(due)
    BY <2>10 DEF Amount
  <2> HIDE DEF a, use, spec, u, due, q, t
  <2>14. ConvertValue(due, u, t, NoDensity).value = Times(due, Ratio(UnitDefs[u].size, UnitDefs[t].size))
    BY <2>9, <2>12, ConversionIsAProduct
  <2>15. ConvertValue(ConvertValue(due, u, t, NoDensity).value, t, u, NoDensity).value
           = Times(ConvertValue(due, u, t, NoDensity).value, Ratio(UnitDefs[t].size, UnitDefs[u].size))
    BY <2>9, <2>12, ConversionIsAProduct
  <2>16. Times(Times(due, Ratio(UnitDefs[u].size, UnitDefs[t].size)), Ratio(UnitDefs[t].size, UnitDefs[u].size)) = due
    BY <2>9, <2>12, <2>13, SizesArePositive, ThereAndBack
  <2>17. ConvertValue(steps[i].lines[k].quantity[1].exact[1], steps[i].lines[k].quantity[1].unit, u, NoDensity).value = due
    BY <2>5, <2>10, <2>11, <2>14, <2>15, <2>16
  <2> QED
    BY <2>2, <2>17 DEF use, spec, u, due
<1> QED
  BY <1>1, RenderInvariant, PTL

-----------------------------------------------------------------------------
(* What a reader is shown is format_quantity of an amount in order, the      *)
(* upper end of which is the exact one beside the number.                   *)
LEMMA ShownInOrder ==
  ASSUME NEW use, NEW r, NEW q, q = ScaleSpec(use.quantity[1], r.scale).quantity, Amount(q), AtMost(q.low, q.high)
  PROVE  LET out == RenderQuantity(use, r) IN
         \E s : /\ Amount(s) /\ AtMost(s.low, s.high) /\ (q.low # Zero => s.low # Zero)
                /\ \E divisible \in BOOLEAN : out.numbers = FormatQuantity(s, IsUS(r), divisible)
                /\ s.unit \in Units => out.exact[1] = s.high
<1> DEFINE out == RenderQuantity(use, r)
           divisible == use.ingredient \in DOMAIN Registry => Registry[use.ingredient].divisible
           t == DisplayUnit(q.high, q.unit, r)
           In(x) == ConvertValue(x, q.unit, t, NoDensity).value
           shown == [q EXCEPT !.low = In(@), !.high = In(@), !.unit = t]
<1>1. divisible \in BOOLEAN
  OBVIOUS
<1>2. CASE q.unit \in Units
  <2>1. t \in Units /\ UnitDefs[t].dim = UnitDefs[q.unit].dim
    <3> HIDE DEF t
    <3> QED
      BY <1>2, DisplayKeepsDimension DEF t
  <2>2. out.numbers = FormatQuantity(shown, IsUS(r), divisible) /\ out.exact = <<shown.high>>
    BY <1>2 DEF RenderQuantity
  <2>3. Amount(shown) /\ AtMost(shown.low, shown.high) /\ (q.low # Zero => shown.low # Zero)
    <3> DEFINE u == q.unit
    <3>1. u \in Units /\ t \in Units /\ UnitDefs[u].dim = UnitDefs[t].dim
      BY <1>2, <2>1
    <3> HIDE DEF t, u
    <3> DEFINE l == ConvertValue(q.low, u, t, NoDensity).value
               h == ConvertValue(q.high, u, t, NoDensity).value
    <3>2. shown = [q EXCEPT !.low = l, !.high = h, !.unit = t]
      BY DEF u
    <3> HIDE DEF shown, l, h
    <3>3. shown = [kind |-> q.kind, low |-> l, high |-> h, unit |-> t]
      <4>1. q = [kind |-> q.kind, low |-> q.low, high |-> q.high, unit |-> q.unit]
        BY DEF Amount
      <4> QED
        BY <3>2, <4>1
    <3>4. shown = [kind |-> q.kind, low |-> ConvertValue(q.low, u, t, NoDensity).value,
                   high |-> ConvertValue(q.high, u, t, NoDensity).value, unit |-> t]
      BY <3>3, Zenon DEF l, h
    <3> QED
      BY <3>1, <3>4, ConvertedKeepsTheOrder
  <2> HIDE DEF out, divisible, shown
  <2> QED
    BY <1>1, <2>2, <2>3 DEF out
<1>3. CASE q.unit \notin Units
  <2>1. out.numbers = FormatQuantity(q, IsUS(r), divisible)
    BY <1>3 DEF RenderQuantity
  <2> HIDE DEF out, divisible
  <2> QED
    BY <1>1, <1>3, <2>1 DEF out
<1> QED
  BY <1>2, <1>3

(* Never a zero for something, a metric range that reads backwards, or a    *)
(* spoon off by more than a twentieth.                                      *)
THEOREM TheNumbersAreFair == RSpec => []NumbersAreFair
<1>1. IInv /\ RInv => NumbersAreFair
  <2> SUFFICES ASSUME IInv, RInv, NEW i \in DOMAIN steps, NEW k \in DOMAIN LinesOf(i),
                      NEW j \in DOMAIN steps[i].lines[k].quantity
               PROVE  LET spec    == LinesOf(i)[k].quantity[1]
                          shown   == steps[i].lines[k].quantity[1]
                          numbers == shown.numbers IN
                      /\ spec.quantity.low # Zero => \A m \in DOMAIN numbers : numbers[m].n > 0
                      /\ ~IsUS(reader) /\ Len(numbers) = 2 => Less(numbers[1], numbers[2])
                      /\ \A m \in DOMAIN numbers :
                           numbers[m].form = "fraction" /\ m = Len(numbers) =>
                             LET exact == shown.exact[1] IN
                             20 * Abs(numbers[m].n * exact.d - exact.n * numbers[m].d) =< exact.n * numbers[m].d
    BY DEF NumbersAreFair
  <2> DEFINE a    == ordered[i]
             use  == content[a].ingredients[k]
             spec == use.quantity[1]
             q    == ScaleSpec(spec, reader.scale).quantity
             out  == RenderQuantity(use, reader)
  <2>1. /\ a \in ActionIds /\ steps[i] = Step(a, reader) /\ steps[i].action = a
        /\ ~StepRaises(a, reader) /\ view \in Reading
    BY RenderedShape
  <2>2. LinesOf(i) = content[a].ingredients /\ k \in DOMAIN content[a].ingredients
    BY <2>1 DEF LinesOf
  <2>3. steps[i].lines[k] = Line(use, reader)
    <3> HIDE DEF a
    <3>1. Step(a, reader).lines[k] = Line(content[a].ingredients[k], reader)
      BY <2>2, LinesOfStep, Zenon
    <3>2. steps[i] = Step(a, reader)
      BY <2>1
    <3> QED
      BY <3>1, <3>2, Zenon
  <2>4. Line(use, reader).quantity = IF use.quantity = <<>> THEN <<>> ELSE <<out>>
    BY DEF Line
  <2>5. use.quantity # <<>> /\ steps[i].lines[k].quantity[1] = out
    <3> HIDE DEF use, out
    <3> QED
      BY <2>3, <2>4
  <2>6. 1 \in DOMAIN use.quantity
    <3>1. ListOf(use.quantity)
      BY <2>1, <2>2, ContentsAreTold DEF RInv
    <3> HIDE DEF use
    <3> QED
      BY <2>5, <3>1, FirstOfList
  <2>7. Amount(spec.quantity) /\ SpecOK(spec) /\ Decimal(reader.scale)
    <3>1. content \in Contents /\ reader \in Readers
      BY <2>1 DEF RInv
    <3>2. a \in DOMAIN content
      BY <2>1, <3>1, ContentsAreTold
    <3> HIDE DEF a
    <3>3. Amount(spec.quantity) /\ Decimal(reader.scale)
      BY <2>2, <2>6, <3>1, <3>2, AmountsAreDecimals, Zenon
    <3>4. SpecOK(spec)
      BY <2>2, <2>6, <3>1, <3>2, SpecsAreValid, Zenon
    <3> QED
      BY <3>3, <3>4
  <2>8. ~ScaleSpec(spec, reader.scale).raised
    BY <2>1, <2>2, <2>6 DEF StepRaises
  <2>9. Amount(q) /\ AtMost(q.low, q.high) /\ (spec.quantity.low # Zero => q.low # Zero)
    <3> HIDE DEF a, use, spec
    <3> QED
      BY <2>7, <2>8, ScalingKeepsTheOrder
  <2>10. PICK s : /\ Amount(s) /\ AtMost(s.low, s.high) /\ (q.low # Zero => s.low # Zero)
                  /\ \E divisible \in BOOLEAN : out.numbers = FormatQuantity(s, IsUS(reader), divisible)
                  /\ s.unit \in Units => out.exact[1] = s.high
    <3>1. q = ScaleSpec(use.quantity[1], reader.scale).quantity
      OBVIOUS
    <3> HIDE DEF a, use, spec, q
    <3> QED
      BY <2>9, <3>1, ShownInOrder
  <2>11. PICK divisible \in BOOLEAN : out.numbers = FormatQuantity(s, IsUS(reader), divisible)
    BY <2>10
  <2>12. IsUS(reader) \in BOOLEAN
    BY DEF IsUS
  <2> HIDE DEF a, use, spec, q, out
  <2> DEFINE numbers == out.numbers
  <2>13. /\ s.low # Zero => \A m \in DOMAIN numbers : numbers[m].n > 0
         /\ ~IsUS(reader) /\ Len(numbers) = 2 => Less(numbers[1], numbers[2])
         /\ \A m \in DOMAIN numbers : numbers[m].form = "fraction" /\ m = Len(numbers) =>
              /\ s.unit \in Units
              /\ 20 * Abs(numbers[m].n * s.high.d - s.high.n * numbers[m].d) =< s.high.n * numbers[m].d
    BY <2>10, <2>11, <2>12, NumbersOfAreFair
  <2>14. \A m \in DOMAIN numbers : numbers[m].form = "fraction" /\ m = Len(numbers) =>
           LET exact == out.exact[1] IN
           20 * Abs(numbers[m].n * exact.d - exact.n * numbers[m].d) =< exact.n * numbers[m].d
    BY <2>10, <2>13, Zenon
  <2>15. spec.quantity.low # Zero => \A m \in DOMAIN numbers : numbers[m].n > 0
    BY <2>9, <2>10, <2>13
  <2>16. LinesOf(i)[k].quantity[1] = spec
    BY <2>2 DEF use, spec
  <2> QED
    BY <2>5, <2>13, <2>14, <2>15, <2>16
<1> QED
  BY <1>1, RenderInvariant, PTL

=============================================================================
