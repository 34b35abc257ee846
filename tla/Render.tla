------------------------------- MODULE Render -------------------------------
(***************************************************************************)
(* One recipe on its way to one reader: its actions are constructed        *)
(* (schema/graph.py), the recipe is constructed and its steps are ordered   *)
(* (RecipeGraph, whose steps are steps of this module), and                 *)
(* build_render_model (render/build.py) resolves it for a reader: labels,  *)
(* then one rendered step per action, warnings collected on the way, then  *)
(* the drawing.                                                            *)
(*                                                                         *)
(* What an action says beside its place in the graph is its content, kept  *)
(* by action id.  Wording is a value per language; a rendered text is the  *)
(* list of its pieces.  The warnings are a set: nothing here depends on     *)
(* their order.                                                            *)
(*                                                                         *)
(* Nodes are pairs of a kind and an id.  The code puts the ids of states    *)
(* and of ingredient uses and the strings start_ and join_ with an action's *)
(* id into one namespace, where the first of two equal ids wins: they are   *)
(* taken to differ, which nothing in a hand-written document enforces.      *)
(***************************************************************************)
EXTENDS RecipeGraph, Quantities

CONSTANTS Contents,      \* what the actions may say: functions of the action id
          Readers,       \* language, system and scale
          Registry,      \* ingredient id -> names by language, divisible or not
          SourceLang,    \* recipe.source_lang
          BaseOf         \* language tag -> bare language

(* Each action says something, in lists.                                   *)
ListOf(l) == l \in Seq({l[i] : i \in DOMAIN l})
ASSUME ContentsAreTold ==
  \A c \in Contents : /\ DOMAIN c = ActionIds
                      /\ \A a \in ActionIds : /\ ListOf(c[a].ingredients) /\ ListOf(c[a].timers)
                                              /\ \A i \in DOMAIN c[a].ingredients :
                                                   ListOf(c[a].ingredients[i].quantity)

(* The validators of Range, Count and QuantitySpec have passed.            *)
ASSUME SpecsAreValid ==
  \A c \in Contents : \A a \in DOMAIN c : \A i \in DOMAIN c[a].ingredients :
    \A j \in DOMAIN c[a].ingredients[i].quantity : SpecOK(c[a].ingredients[i].quantity[j])

(* Their numbers are Decimals, and so is the factor of a reader.            *)
ASSUME AmountsAreDecimals ==
  /\ \A c \in Contents : \A a \in DOMAIN c : \A i \in DOMAIN c[a].ingredients :
       \A j \in DOMAIN c[a].ingredients[i].quantity : Amount(c[a].ingredients[i].quantity[j].quantity)
  /\ \A r \in Readers : Decimal(r.scale)

VARIABLES content,       \* what the actions of the recipe say
          view,          \* where the rendering is
          reader,        \* who reads, once somebody does
          labels,        \* state_names
          steps,         \* the steps rendered so far
          issues,        \* the warnings collected so far
          nodes, edges,  \* the drawing so far
          drawn          \* how many actions are drawn

rvars == <<content, view, reader, labels, steps, issues, nodes, edges, drawn>>

-----------------------------------------------------------------------------
(* LocalizedText.resolve: exact tag, bare language, the recipe's source     *)
(* language, the text's own.                                               *)
Resolve(text, lang) ==
  LET has == DOMAIN text.values IN
  text.values[IF lang \in has THEN lang
              ELSE IF BaseOf[lang] \in has THEN BaseOf[lang]
              ELSE IF SourceLang \in has THEN SourceLang
              ELSE text.source]

(* Ingredient.name_for: the same without an own source; any name at last.   *)
NameFor(names, lang) ==
  LET has == DOMAIN names IN
  names[IF lang \in has THEN lang
        ELSE IF BaseOf[lang] \in has THEN BaseOf[lang]
        ELSE IF SourceLang \in has THEN SourceLang
        ELSE CHOOSE l \in has : TRUE]

(* The language of "a pinch" and of "large"; the author's word, or English, *)
(* where no table has the reader's.                                        *)
ApproxWord(lang) == IF BaseOf[lang] \in {"en", "de"} THEN BaseOf[lang] ELSE "as authored"
SizeWord(lang)   == IF BaseOf[lang] \in {"en", "de"} THEN BaseOf[lang] ELSE "en"

Issue(code, severity, element) == [code |-> code, severity |-> severity, element |-> element]
When(condition, issue) == IF condition THEN {issue} ELSE {}

IsUS(r) == r.system \in {"us", "imperial"}

(* _choose_display_unit, by the magnitude in ounces, grams or millilitres.  *)
DisplayUnit(x, unit, r) ==
  LET In(u) == ConvertValue(x, unit, u, NoDensity).value
      Reaches(u, k) == ~Less(In(u), Whole(k))
      dim == UnitDefs[unit].dim IN
  CASE dim = "mass" /\ IsUS(r)   -> IF Reaches("oz", 16) THEN "lb" ELSE "oz"
    [] dim = "mass" /\ ~IsUS(r)  -> IF Reaches("g", 1000) THEN "kg" ELSE "g"
    [] dim = "volume" /\ IsUS(r) -> IF Reaches("ml", 59) THEN "cup_us"
                                    ELSE IF Reaches("ml", 15) THEN "tbsp" ELSE "tsp"
    [] dim = "volume" /\ ~IsUS(r) -> IF Reaches("ml", 1000) THEN "l" ELSE "ml"
    [] OTHER -> unit

(* _render_quantity after scale_spec: counts and approximations as they     *)
(* are, what has no known unit as it is, the rest in the reader's unit.     *)
RenderQuantity(use, r) ==
  LET q         == ScaleSpec(use.quantity[1], r.scale).quantity
      divisible == use.ingredient \in DOMAIN Registry => Registry[use.ingredient].divisible
      target    == IF q.unit \in Units THEN DisplayUnit(q.high, q.unit, r) ELSE q.unit
      In(x)     == ConvertValue(x, q.unit, target, NoDensity).value
      shown     == IF q.unit \in Units THEN [q EXCEPT !.low = In(@), !.high = In(@), !.unit = target] ELSE q
  IN [numbers |-> FormatQuantity(shown, IsUS(r), divisible),
      exact   |-> IF q.unit \in Units THEN <<shown.high>> ELSE IF q.kind = "count" THEN <<q.low>> ELSE <<>>,
      unit    |-> shown.unit,
      word    |-> CASE q.kind = "approx" -> ApproxWord(r.lang)
                    [] q.kind = "count"  -> SizeWord(r.lang)
                    [] OTHER             -> ""]

Unknown(use)    == use.ingredient # "unbound" /\ use.ingredient \notin DOMAIN Registry
UnitUnread(use) == \E i \in DOMAIN use.quantity :
                     LET q == use.quantity[i].quantity IN q.kind \in {"scalar", "range"} /\ q.unit = Unread

(* _render_ingredient: the line and its warnings.                          *)
Line(use, r) ==
  [use        |-> use.id,
   name       |-> IF use.ingredient \in DOMAIN Registry THEN NameFor(Registry[use.ingredient].names, r.lang)
                  ELSE use.id,
   quantity   |-> IF use.quantity = <<>> THEN <<>> ELSE <<RenderQuantity(use, r)>>,
   unresolved |-> UnitUnread(use) \/ Unknown(use)]

LineIssues(use, r) ==
  When(Unknown(use), Issue("INGREDIENT_UNBOUND", "warn", <<"use", use.id>>))
  \cup When(use.ingredient = "unbound", Issue("INGREDIENT_UNBOUND", "info", <<"use", use.id>>))
  \cup When(\E i \in DOMAIN use.quantity : ScaleSpec(use.quantity[i], r.scale).warned,
          Issue("SCALING_MANUAL", "warn", <<"use", use.id>>))
  \cup When(UnitUnread(use), Issue("UNIT_UNRESOLVED", "warn", <<"use", use.id>>))

(* _render_timer: never scaled, reported for the action.                   *)
TimerSpec(t) == [quantity |-> t, scaling |-> "MANUAL"]
TimerShown(t, r) == FormatQuantity(ScaleSpec(TimerSpec(t), r.scale).quantity, FALSE, TRUE)
TimerIssues(t, a, r) == When(ScaleSpec(TimerSpec(t), r.scale).warned, Issue("SCALING_MANUAL", "warn", <<"action", a>>))

(* _render_temperature: the affine conversion, to the nearest 5 degrees,    *)
(* ties to even.  It is not scaled, and it collects no warnings.            *)
HalfEven(n, d) ==
  LET q == n \div d
      r == n % d IN IF 2 * r > d \/ (2 * r = d /\ q % 2 = 1) THEN q + 1 ELSE q

Degrees(t, r) ==
  5 * (IF t.unit = "F" /\ ~IsUS(r) THEN HalfEven(t.value - 32, 9)
       ELSE IF t.unit = "C" /\ IsUS(r) THEN HalfEven(9 * t.value + 160, 25)
       ELSE HalfEven(t.value, 5))

-----------------------------------------------------------------------------
(* _internal_references_resolve: the ids an action gives are distinct, and  *)
(* each slot of its prose is one of its own.                               *)
IdsOf(list) == {list[i].id : i \in DOMAIN list}
Distinct(list) == \A i, j \in DOMAIN list : list[i].id = list[j].id => i = j

SlotResolves(chunk, c, uses) ==
  CASE chunk.kind = "ingredient"  -> chunk.ref \in IdsOf(c.ingredients)
    [] chunk.kind = "cookware"    -> chunk.ref \in IdsOf(c.cookware)
    [] chunk.kind = "state"       -> \E i \in DOMAIN uses : uses[i] = chunk.ref
    [] chunk.kind = "timer"       -> chunk.index \in 0..(Len(c.timers) - 1)
    [] chunk.kind = "temperature" -> chunk.index \in 0..(Len(c.temperatures) - 1)
    [] OTHER                      -> TRUE

(* Fault: one index too far.                                               *)
ReferencesNearlyResolve(c, uses) ==
  /\ Distinct(c.ingredients) /\ Distinct(c.cookware)
  /\ \A i \in DOMAIN c.text :
       SlotResolves(c.text[i], [c EXCEPT !.timers = Append(@, @)], uses)

ReferencesResolve(c, uses) ==
  /\ Distinct(c.ingredients) /\ Distinct(c.cookware)
  /\ \A i \in DOMAIN c.text : SlotResolves(c.text[i], c, uses)

(* What _render_text looks up without a default.                           *)
LookupFails(c) ==
  \E i \in DOMAIN c.text : c.text[i].kind # "state" /\ ~SlotResolves(c.text[i], c, <<>>)

(* A label, or the raw id where there is none.                             *)
RawId == <<>>
Named(id, list) == list[CHOOSE i \in DOMAIN list : list[i].id = id]
LabelOf(s) == IF s \in DOMAIN labels THEN <<labels[s]>> ELSE RawId

(* One piece of a step's text; lines and timers stand for their position.   *)
Piece(chunk, c, r) ==
  CASE chunk.kind = "text"     -> <<Resolve(chunk.text, r.lang)>>
    [] chunk.kind = "cookware" -> <<Resolve(Named(chunk.ref, c.cookware).name, r.lang)>>
    [] chunk.kind = "state"    -> LabelOf(chunk.ref)
    [] OTHER                   -> <<chunk.kind>>

(* _render_step.  Without a template the text is the verb and the lines.    *)
Step(a, r) ==
  LET c == content[a] IN
  [action       |-> a,
   text         |-> IF c.text = <<>>
                    THEN <<<<IF c.verb = <<>> THEN "Combine" ELSE Resolve(c.verb[1], r.lang)>>>>
                         \o [i \in DOMAIN c.ingredients |-> <<"ingredient">>]
                    ELSE [i \in DOMAIN c.text |-> Piece(c.text[i], c, r)],
   lines        |-> [i \in DOMAIN c.ingredients |-> Line(c.ingredients[i], r)],
   timers       |-> [i \in DOMAIN c.timers |-> TimerShown(c.timers[i], r)],
   temperatures |-> [i \in DOMAIN c.temperatures |-> Degrees(c.temperatures[i], r)],
   uses         |-> [i \in DOMAIN ById(recipe, a).uses |-> LabelOf(ById(recipe, a).uses[i])]]

(* The warnings of a step.                                                 *)
StepIssues(a, r) ==
  LET c == content[a] IN
  (UNION {LineIssues(c.ingredients[i], r) : i \in DOMAIN c.ingredients})
  \cup (UNION {TimerIssues(c.timers[i], a, r) : i \in DOMAIN c.timers})

StepRaises(a, r) ==
  LET c == content[a] IN
  \/ LookupFails(c)
  \/ \E i \in DOMAIN c.ingredients : \E j \in DOMAIN c.ingredients[i].quantity :
       ScaleSpec(c.ingredients[i].quantity[j], r.scale).raised

-----------------------------------------------------------------------------
RInit ==
  /\ Init
  /\ content \in Contents
  /\ view = "writing" /\ reader = [lang |-> SourceLang, system |-> "metric", scale |-> Whole(1)]
  /\ labels = <<>> /\ steps = <<>> /\ issues = {} /\ nodes = {} /\ edges = {} /\ drawn = 0

(* Action(...) for each action of the recipe, or DanglingReferenceError.    *)
ConstructActions ==
  /\ view = "writing"
  /\ view' = IF \A i \in DOMAIN recipe : ReferencesResolve(content[recipe[i].id], recipe[i].uses)
             THEN "constructed" ELSE "refused"
  /\ UNCHANGED <<vars, content, reader, labels, steps, issues, nodes, edges, drawn>>

(* Recipe(...) and topological_actions.                                    *)
GraphStep == view = "constructed" /\ Next /\ UNCHANGED rvars

(* A reader opens the recipe: _state_labels, from a name, a verb or the     *)
(* number of the step.                                                     *)
Open(r) ==
  LET Makes(i, s) == ById(recipe, ordered[i]).produces = s
      Label(i) == LET c == content[ordered[i]] IN
                  IF c.name # <<>> THEN Resolve(c.name[1], r.lang)
                  ELSE IF c.verb # <<>> THEN Resolve(c.verb[1], r.lang) ELSE "step number" IN
  /\ view = "constructed" /\ phase = "sorted"
  /\ reader' = r /\ view' = "steps"
  /\ labels' = [s \in {ById(recipe, ordered[i]).produces : i \in DOMAIN ordered} |->
                 Label(CHOOSE i \in DOMAIN ordered : Makes(i, s))]
  /\ UNCHANGED <<vars, content, steps, issues, nodes, edges, drawn>>

RenderStep ==
  /\ view = "steps" /\ Len(steps) < Len(ordered)
  /\ LET a == ordered[Len(steps) + 1]
         raises == StepRaises(a, reader) IN
     /\ steps'  = IF raises THEN steps ELSE Append(steps, Step(a, reader))
     /\ issues' = IF raises THEN issues ELSE issues \cup StepIssues(a, reader)
     /\ view'   = IF raises THEN "raised" ELSE view
  /\ UNCHANGED <<vars, content, reader, labels, nodes, edges, drawn>>

(* _build_graph: first a node for each state.                              *)
DrawStates ==
  /\ view = "steps" /\ Len(steps) = Len(ordered)
  /\ view' = "drawing"
  /\ nodes' = {<<"state", ById(recipe, ordered[i]).produces>> : i \in DOMAIN ordered}
  /\ UNCHANGED <<vars, content, reader, labels, steps, issues, edges, drawn>>

Edge(src, dst, by) == [src |-> src, dst |-> dst, label |-> by]

(* The states and the ingredient uses that go into an action.              *)
Inputs(a) ==
  LET uses == ById(recipe, a).uses IN
  [i \in DOMAIN uses |-> <<"state", uses[i]>>]
  \o [i \in DOMAIN content[a].ingredients |-> <<"use", content[a].ingredients[i].id>>]

(* Fault: a join only where more than two meet.                            *)
ArrowsWithoutJoin(i, a, in, target) ==
  IF Len(in) = 0 THEN {Edge(<<"start", a>>, target, i)}
  ELSE IF Len(in) < 3 THEN {Edge(in[k], target, i) : k \in DOMAIN in}
  ELSE {Edge(in[k], <<"join", a>>, 0) : k \in DOMAIN in} \cup {Edge(<<"join", a>>, target, i)}

(* The arrows of an action, labelled with its step: one from its only       *)
(* input, one from "start" when it has none, else through a join.           *)
Arrows(i, a, in, target) ==
  IF Len(in) = 0 THEN {Edge(<<"start", a>>, target, i)}
  ELSE IF Len(in) = 1 THEN {Edge(in[1], target, i)}
  ELSE {Edge(in[k], <<"join", a>>, 0) : k \in DOMAIN in} \cup {Edge(<<"join", a>>, target, i)}

DrawAction ==
  LET i    == drawn + 1
      a    == ordered[i]
      in   == Inputs(a)
      more == IF Len(in) = 0 THEN {<<"start", a>>} ELSE IF Len(in) > 1 THEN {<<"join", a>>} ELSE {} IN
  /\ view = "drawing" /\ drawn < Len(ordered)
  /\ drawn' = i
  /\ nodes' = nodes \cup {in[k] : k \in {j \in DOMAIN in : in[j][1] = "use"}} \cup more
  /\ edges' = edges \cup Arrows(i, a, in, <<"state", ById(recipe, a).produces>>)
  /\ UNCHANGED <<vars, content, view, reader, labels, steps, issues>>

Show ==
  /\ view = "drawing" /\ drawn = Len(ordered)
  /\ view' = "shown"
  /\ UNCHANGED <<vars, content, reader, labels, steps, issues, nodes, edges, drawn>>

RNext ==
  \/ ConstructActions \/ GraphStep \/ \E r \in Readers : Open(r)
  \/ RenderStep \/ DrawStates \/ DrawAction \/ Show

RSpec     == RInit /\ [][RNext]_<<vars, rvars>>

(* The calls that loop run on; whether a reader comes is left open.         *)
RFairSpec == RSpec /\ WF_<<vars, rvars>>(ConstructActions) /\ WF_<<vars, rvars>>(GraphStep)

-----------------------------------------------------------------------------
(* Fault: the pages keep only errors.                                      *)
ErrorNotes == {n \in issues : n.severity = "error"}

(* The pages (render/text.py, render/print_.py): what is only information   *)
(* is left out of the notes.                                               *)
PageNotes == {n \in issues : n.severity \in {"warn", "error"}}

DistinctIds == Len(ordered) = Len(recipe)
LinesOf(i) == content[steps[i].action].ingredients

(* "A silently unscaled bake time is indistinguishable from a correctly     *)
(* scaled one": a timer, and an ingredient amount that neither follows the  *)
(* factor nor was declared INVARIANT, is in the notes of the page.          *)
(* Temperatures are not: see NoTemperatureSilentlyUnscaled.                 *)
NoAmountSilentlyUnscaled ==
  view \in {"steps", "drawing", "shown"} =>
    \A i \in DOMAIN steps : reader.scale # Whole(1) =>
      /\ content[steps[i].action].timers # <<>> =>
           Issue("SCALING_MANUAL", "warn", <<"action", steps[i].action>>) \in PageNotes
      /\ \A k \in DOMAIN LinesOf(i) : LinesOf(i)[k].quantity # <<>> =>
           LET spec == LinesOf(i)[k].quantity[1] IN
           \/ spec.scaling = "INVARIANT"
           \/ Issue("SCALING_MANUAL", "warn", <<"use", LinesOf(i)[k].id>>) \in PageNotes
           \/ ScaleSpec(spec, reader.scale).quantity = ScaleQuantity(spec.quantity, reader.scale)

(* "manual: never changed, emits a warning: bake time, oven temperature":   *)
(* a reader at another scale is told of a temperature that was left as it   *)
(* is.  The code converts it and says nothing.                             *)
NoTemperatureSilentlyUnscaled ==
  view \in {"steps", "drawing", "shown"} =>
    \A i \in DOMAIN steps :
      reader.scale # Whole(1) /\ content[steps[i].action].temperatures # <<>> =>
        Issue("SCALING_MANUAL", "warn", <<"action", steps[i].action>>) \in PageNotes

(* "Rounding is a display concern": the exact amount kept beside the number *)
(* is the stored one times the factor, whatever unit it is shown in.        *)
ExactIsTheScaledAmount ==
  \A i \in DOMAIN steps : \A k \in DOMAIN LinesOf(i) :
    \A j \in DOMAIN steps[i].lines[k].quantity :
      LET spec  == LinesOf(i)[k].quantity[1]
          shown == steps[i].lines[k].quantity[1]
          due   == IF spec.scaling = "LINEAR" THEN Times(spec.quantity.high, reader.scale)
                   ELSE spec.quantity.high IN
      spec.quantity.kind \in {"scalar", "range"} /\ spec.quantity.unit \in Units =>
        ConvertValue(shown.exact[1], shown.unit, spec.quantity.unit, NoDensity).value = due

(* "Rendering a non-zero quantity as 0" is one failure rounding avoids; the *)
(* others are a spoon that is off by more than a twentieth and, for metric  *)
(* readers, a range that reads backwards.                                   *)
NumbersAreFair ==
  \A i \in DOMAIN steps : \A k \in DOMAIN LinesOf(i) :
    \A j \in DOMAIN steps[i].lines[k].quantity :
      LET spec    == LinesOf(i)[k].quantity[1]
          shown   == steps[i].lines[k].quantity[1]
          numbers == shown.numbers IN
      /\ spec.quantity.low # Zero => \A m \in DOMAIN numbers : numbers[m].n > 0
      /\ ~IsUS(reader) /\ Len(numbers) = 2 => Less(numbers[1], numbers[2])
      /\ \A m \in DOMAIN numbers :
           numbers[m].form = "fraction" /\ m = Len(numbers) =>
             LET exact == shown.exact[1] IN
             20 * Abs(numbers[m].n * exact.d - exact.n * numbers[m].d) =< exact.n * numbers[m].d

(* RenderedIngredient.unresolved, "so a UI can flag it rather than          *)
(* presenting a guess as fact": a line is flagged exactly when the notes    *)
(* say why.                                                                *)
FlagsMeetWarnings ==
  \A i \in DOMAIN steps : \A k \in DOMAIN LinesOf(i) :
    steps[i].lines[k].unresolved <=>
      \E n \in PageNotes : /\ n.code \in {"UNIT_UNRESOLVED", "INGREDIENT_UNBOUND"}
                           /\ n.element = <<"use", LinesOf(i)[k].id>>

(* "The renderer can then trust every ref without defensive lookups", and   *)
(* "the graph never shows a raw id".                                       *)
EveryReferenceShows ==
  /\ view = "raised" => reader.scale = Zero
  /\ DistinctIds => \A i \in DOMAIN steps :
       /\ \A k \in DOMAIN steps[i].uses : steps[i].uses[k] # RawId
       /\ \A k \in DOMAIN steps[i].text : steps[i].text[k] # RawId

(* "The edge is where a reader learns" what a step does: each step labels   *)
(* one arrow, into what it produces; what flows into that arrow are its     *)
(* inputs, drawn, and made by earlier steps.                               *)
DrawingIsTheRecipe ==
  view = "shown" /\ DistinctIds =>
    /\ \A e \in edges : {e.src, e.dst} \subseteq nodes
    /\ \A i \in DOMAIN ordered :
         LET mine == {e \in edges : e.label = i}
             from == UNION {IF e.src[1] = "join" THEN {f.src : f \in {g \in edges : g.dst = e.src}}
                            ELSE IF e.src[1] = "start" THEN {} ELSE {e.src} : e \in mine} IN
         /\ Cardinality(mine) = 1
         /\ \A e \in mine : e.dst = <<"state", ById(recipe, ordered[i]).produces>>
         /\ from = {Inputs(ordered[i])[k] : k \in DOMAIN Inputs(ordered[i])}
         /\ \A s \in from : s[1] = "state" => \E j \in 1..(i - 1) : <<"state", ById(recipe, ordered[j]).produces>> = s

(* Constructing and ordering a recipe are plain function calls that loop:   *)
(* they end, in an order or an exception.                                   *)
EveryRecipeIsDecided == <>(view = "refused" \/ Over)

=============================================================================
