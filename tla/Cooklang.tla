------------------------------ MODULE Cooklang ------------------------------
(***************************************************************************)
(* A recipe is written as a Cooklang document, read (cooklang/parse.py)    *)
(* and printed again (cooklang/print_.py).  One behaviour reads a document *)
(* step by step and token by token, prints the recipe and reads what was   *)
(* printed; or it starts with a recipe that was made in another way.       *)
(*                                                                         *)
(* A step of a document is a list of lexemes: the sigils @ @& # ~ ^, "=>", *)
(* a run of plain text, and a group in braces (a brace without its partner *)
(* and "@=>", where one "=" is a modifier and half an arrow, are left out). *)
(* "@&" is followed by its group.  A lexeme @ carries the modifiers behind *)
(* it, a group its body, classified as _parse_quantity does: nothing, a    *)
(* text (itself a list of lexemes), a number or an interval, with what     *)
(* stands behind a "%".  State n is what step n produces.  A recipe is     *)
(* printed in its own language; its steps are in topological order, which  *)
(* is the order they were read in.                                         *)
(***************************************************************************)
EXTENDS Quantities

CONSTANTS Documents,     \* the documents somebody writes
          Authored,      \* recipes that did not come from a document
          StepName,      \* the words s1, s2, ...
          Sizes,         \* the surfaces of the size grades
          FrontKeys      \* the keys of the front matter

(* A list, whatever it lists.                                              *)
IsList(l) == l \in Seq({l[i] : i \in DOMAIN l})

(* No step of a document is blank, and "@&" comes with its group.           *)
IsWritten(d) ==
  /\ IsList(d.steps)
  /\ \A i \in DOMAIN d.steps :
       LET t == d.steps[i] IN
       /\ IsList(t) /\ t # <<>>
       /\ \A j \in DOMAIN t : t[j].k = "@&" => j < Len(t) /\ t[j + 1].k = "group"

ASSUME DocumentsAreWritten == \A d \in Documents : IsWritten(d)
ASSUME SizesAreWords == "" \notin Sizes

VARIABLES front,         \* the front matter of the document
          document,      \* its steps, each a list of lexemes
          phase,         \* "read", "print", "done" or "raised"
          round,         \* 1: what was written; 2: what was printed
          meta,          \* the recipe's fields beside its actions
          actions,       \* the actions read so far
          names,         \* name_to_state
          at,            \* the next lexeme of the step being read
          scan,          \* _StepScanner
          source         \* the recipe that was printed

cvars == <<front, document, phase, round, meta, actions, names, at, scan, source>>

-----------------------------------------------------------------------------
(* Recipe(...) from the front matter; "" is empty, or a field without a     *)
(* value.  The fields with a default are printed whatever they hold.        *)
Default(k) == CASE k = "title" -> "Untitled" [] k = "lang" -> "en"
                [] k = "visibility" -> "private" [] OTHER -> ""
ReadFront(f)  == [k \in FrontKeys |-> IF k \in DOMAIN f THEN f[k] ELSE Default(k)]
PrintFront(m) == [k \in {x \in FrontKeys : m[x] # "" \/ Default(x) # ""} |-> m[k]]

(* A body in braces, and a quantity as the parser builds it.               *)
Body(kind, low, high, unit, words) ==
  [kind |-> kind, low |-> low, high |-> high, unit |-> unit, words |-> words]
Quantity(kind, low, high, unit, words) ==
  [kind |-> kind, low |-> low, high |-> high, unit |-> unit,
   unit_id |-> IF unit # "" /\ kind \in {"scalar", "range"} THEN ResolveUnit(unit, "no locale") ELSE NoUnit,
   words |-> words]
Spec1(q, scaling) == [specs |-> <<[quantity |-> q, scaling |-> scaling]>>, error |-> FALSE]
NotGiven   == [specs |-> <<>>, error |-> FALSE]
NotANumber == [specs |-> <<>>, error |-> TRUE]

(* _parse_quantity.  "=" is looked at only for a scalar, a range with a     *)
(* unit and a bare count.  A bare count has high = low; sized pieces carry  *)
(* the size as unit.                                                       *)
ParseQuantity(b, invariant) ==
  LET policy == IF invariant THEN "INVARIANT" ELSE "LINEAR" IN
  CASE b.kind = "empty" -> NotGiven
    [] b.kind = "number" /\ b.unit \in Sizes ->
         Spec1(Quantity("count", b.low, b.low, b.unit, <<>>), "LINEAR")
    [] b.kind = "number" /\ b.unit = "" ->
         Spec1(Quantity("count", b.low, b.low, "", <<>>), policy)
    [] b.kind = "number" /\ b.unit \notin Sizes \cup {""} ->
         Spec1(Quantity("scalar", b.low, b.low, b.unit, <<>>), policy)
    [] b.kind = "interval" /\ b.unit \notin Sizes /\ b.low =< b.high ->
         IF b.unit = "" THEN Spec1(Quantity("count range", b.low, b.high, "", <<>>), "LINEAR")
         ELSE Spec1(Quantity("range", b.low, b.high, b.unit, <<>>), policy)
    [] b.kind = "words" /\ b.unit = "" ->
         Spec1(Quantity("approx", 0, 0, "", b.words), "INVARIANT")
    [] OTHER -> NotANumber

(* _bare_quantity_body.                                                    *)
PrintQuantity(q) ==
  CASE q.kind = "approx" -> Body("words", 0, 0, "", q.words)
    [] q.kind \in {"range", "count range"} -> Body("interval", q.low, q.high, q.unit, <<>>)
    [] OTHER -> Body("number", q.low, q.low, q.unit, <<>>)
PrintSpecs(specs) == IF specs = <<>> THEN Body("empty", 0, 0, "", <<>>) ELSE PrintQuantity(specs[1].quantity)

-----------------------------------------------------------------------------
Word(w)  == [k |-> "word", w |-> w]
Mark(m)  == [k |-> m, w |-> ""]
Group(b) == [k |-> "group", body |-> b]
At(optional, invariant) == [k |-> "@", optional |-> optional, invariant |-> invariant]

(* _PRODUCE matches from here: "=>" with a name behind it, that is, without *)
(* a sigil or a brace up to the end of the step; another "=>" is part of    *)
(* the name.                                                               *)
IsArrow(t, i) ==
  t[i].k = "=>" /\ i < Len(t) /\ \A j \in (i + 1)..Len(t) : t[j].k \in {"word", "=>"}

(* search finds the leftmost match.                                        *)
Produces(t) == \E i \in DOMAIN t : IsArrow(t, i)
Arrow(t)    == CHOOSE i \in DOMAIN t : IsArrow(t, i) /\ \A j \in 1..(i - 1) : ~IsArrow(t, j)
Prose(t)    == IF Produces(t) THEN SubSeq(t, 1, Arrow(t) - 1) ELSE t
Produced(t) == IF Produces(t) THEN <<SubSeq(t, Arrow(t) + 1, Len(t))>> ELSE <<>>

NotScanned == [literal |-> <<>>, chunks |-> <<>>, ingredients |-> <<>>, cookware |-> <<>>,
               timers |-> <<>>, temperatures |-> <<>>, uses |-> <<>>, counter |-> 0]

Chunk(kind, ref) == [kind |-> kind, ref |-> ref]
Literal(text)    == [kind |-> "text", text |-> text]
Flushed == IF scan.literal = <<>> THEN scan.chunks ELSE Append(scan.chunks, Literal(scan.literal))

Reading == phase = "read" /\ Len(actions) < Len(document)
Text    == Prose(document[Len(actions) + 1])
Sigil   == Text[at].k

(* _braced: the first group behind a position, 0 for none.                 *)
Brace(i) == IF \E g \in (i + 1)..Len(Text) : Text[g].k = "group"
            THEN CHOOSE g \in (i + 1)..Len(Text) :
                   Text[g].k = "group" /\ \A h \in (i + 1)..(g - 1) : Text[h].k # "group"
            ELSE 0
Between(i) == SubSeq(Text, i + 1, Brace(i) - 1)
BodyAt     == Text[Brace(at)].body

(* _try_token finds a token: a group follows, and a state is a known one.   *)
IsToken == /\ Sigil \in {"@", "@&", "#", "~", "^"}
           /\ Brace(at) # 0
           /\ Sigil = "@&" => BodyAt.words \in DOMAIN names

Token(kind) == Reading /\ at =< Len(Text) /\ IsToken /\ Sigil = kind

(* A token ends the literal before it; an exception ends the call.          *)
Took(chunk, s, error) ==
  /\ scan'  = IF error THEN scan ELSE [s EXCEPT !.literal = <<>>, !.chunks = Append(Flushed, chunk)]
  /\ at'    = IF error THEN at ELSE Brace(at) + 1
  /\ phase' = IF error THEN "raised" ELSE phase
  /\ UNCHANGED <<front, document, round, meta, actions, names, source>>

-----------------------------------------------------------------------------
CInit ==
  /\ round = 1 /\ names = <<>> /\ at = 1 /\ scan = NotScanned /\ source = <<>>
  /\ \/ \E d \in Documents : /\ front = d.front /\ document = d.steps
                             /\ phase = "read" /\ actions = <<>> /\ meta = <<>>
     \/ /\ Authored # {} /\ actions \in Authored /\ meta = ReadFront(<<>>)
        /\ phase = "print" /\ front = <<>> /\ document = <<>>

(* Fault: a state in the prose does not become a use.                      *)
NotUsed(uses, s) == uses

Used(uses, s) == IF \E i \in DOMAIN uses : uses[i] = s THEN uses ELSE Append(uses, s)

(* _state: the step that produced the name last.                           *)
ReadState ==
  /\ Token("@&")
  /\ LET s == names[BodyAt.words] IN
     Took(Chunk("state", s), [scan EXCEPT !.uses = Used(@, s)], FALSE)

(* _ingredient: everything up to the group is the name.                    *)
ReadIngredient ==
  /\ Token("@")
  /\ LET id == scan.counter + 1
         q  == ParseQuantity(BodyAt, Text[at].invariant)
         use == [id |-> id, name |-> Between(at), quantity |-> q.specs, optional |-> Text[at].optional] IN
     Took(Chunk("ingredient", id), [scan EXCEPT !.counter = id, !.ingredients = Append(@, use)], q.error)

(* _cookware: the body is a number or nothing.                             *)
ReadCookware ==
  /\ Token("#")
  /\ LET id   == scan.counter + 1
         item == [id |-> id, name |-> Between(at), quantity |-> BodyAt]
         good == BodyAt.kind = "empty" \/ (BodyAt.kind = "number" /\ BodyAt.unit = "") IN
     Took(Chunk("cookware", id), [scan EXCEPT !.counter = id, !.cookware = Append(@, item)], ~good)

(* _timer: a scalar or a range, zero without a unit when nothing is given.  *)
NoTime == Quantity("scalar", 0, 0, "", <<>>)
ReadTimer ==
  /\ Token("~")
  /\ LET q    == ParseQuantity(BodyAt, FALSE)
         time == IF q.specs = <<>> THEN NoTime ELSE q.specs[1].quantity IN
     Took(Chunk("timer", Len(scan.timers)),
          [scan EXCEPT !.timers = Append(@, [name |-> Between(at), quantity |-> time])],
          q.error \/ time.kind \notin {"scalar", "range"})

(* _temperature: a number in C or F; what stands before the group is lost.  *)
ReadTemperature ==
  /\ Token("^")
  /\ LET unit == IF BodyAt.unit = "" THEN "C" ELSE BodyAt.unit IN
     Took(Chunk("temperature", Len(scan.temperatures)),
          [scan EXCEPT !.temperatures = Append(@, [value |-> BodyAt.low, unit |-> unit])],
          BodyAt.kind # "number" \/ unit \notin {"C", "F"})

(* Fault: a sigil that opens no token is never skipped.                    *)
IsPlain == Sigil \in {"word", "group", "=>"}

IsLiteral == ~IsToken

ReadLiteral ==
  /\ Reading /\ at =< Len(Text) /\ IsLiteral
  /\ scan' = [scan EXCEPT !.literal = Append(@, Text[at])]
  /\ at' = at + 1
  /\ UNCHANGED <<front, document, phase, round, meta, actions, names, source>>

(* The end of _parse_step: the action, and the name of what it produces.    *)
EndStep ==
  LET t    == document[Len(actions) + 1]
      name == Produced(t)
      here == Len(actions) + 1 IN
  /\ Reading /\ at > Len(Text)
  /\ actions' = Append(actions,
       [name |-> name, uses |-> scan.uses, ingredients |-> scan.ingredients, cookware |-> scan.cookware,
        timers |-> scan.timers, temperatures |-> scan.temperatures, chunks |-> Flushed])
  /\ names' = [n \in DOMAIN names \cup {name[i] : i \in DOMAIN name} |->
                 IF name # <<>> /\ n = name[1] THEN here ELSE names[n]]
  /\ scan' = NotScanned /\ at' = 1
  /\ UNCHANGED <<front, document, phase, round, meta, source>>

(* parse_cook returns a Recipe; one without actions is a GraphError.        *)
EndDocument ==
  /\ phase = "read" /\ Len(actions) = Len(document)
  /\ phase' = IF document = <<>> THEN "raised" ELSE IF round = 1 THEN "print" ELSE "done"
  /\ meta' = ReadFront(front)
  /\ UNCHANGED <<front, document, round, actions, names, at, scan, source>>

-----------------------------------------------------------------------------
(* _state_names, and a reference to a state.                               *)
NameOf(as, s) == IF as[s].name = <<>> THEN <<Word(StepName[s])>> ELSE as[s].name[1]
Reference(as, s) == <<Mark("@&"), Group(Body("words", 0, 0, "", NameOf(as, s)))>>

(* Fault: "=" is not printed.                                              *)
NeverInvariant(use) == FALSE

PrintsInvariant(use) == \E i \in DOMAIN use.quantity : use.quantity[i].scaling = "INVARIANT"

IngredientToken(use) ==
  <<At(use.optional, PrintsInvariant(use))>> \o use.name \o <<Group(PrintSpecs(use.quantity))>>
CookwareToken(item) == <<Mark("#")>> \o item.name \o <<Group(item.quantity)>>
TimerToken(t) == <<Mark("~")>> \o t.name \o <<Group(PrintQuantity(t.quantity))>>
TemperatureToken(t) == <<Mark("^"), Group(Body("number", t.value, t.value, t.unit, <<>>))>>

WithId(list, id) == list[CHOOSE i \in DOMAIN list : list[i].id = id]

(* One chunk of _print_body.                                               *)
PrintChunk(as, a, c) ==
  CASE c.kind = "text"        -> c.text
    [] c.kind = "ingredient"  -> IngredientToken(WithId(a.ingredients, c.ref))
    [] c.kind = "cookware"    -> CookwareToken(WithId(a.cookware, c.ref))
    [] c.kind = "state"       -> Reference(as, c.ref)
    [] c.kind = "timer"       -> TimerToken(a.timers[c.ref + 1])
    [] c.kind = "temperature" -> TemperatureToken(a.temperatures[c.ref + 1])

(* The first n of a list of texts, joined.                                 *)
UpTo(list) ==
  LET upTo[n \in 0..Len(list)] == IF n = 0 THEN <<>> ELSE upTo[n - 1] \o list[n] IN upTo
Concat(list) == UpTo(list)[Len(list)]

(* Fault: every use is printed up front, also one the prose names.          *)
AnyUse(a, s) == TRUE

(* "Uses not already placed inline by a StateChunk."                       *)
IsLeading(a, s) == \A i \in DOMAIN a.chunks : a.chunks[i] # Chunk("state", s)
LeadingUses(as, a) ==
  Concat([i \in DOMAIN a.uses |-> IF IsLeading(a, a.uses[i]) THEN Reference(as, a.uses[i]) ELSE <<>>])

(* _print_body: the prose, or the bare ingredients of a step without.       *)
PrintBody(as, a) ==
  IF a.chunks # <<>> THEN Concat([i \in DOMAIN a.chunks |-> PrintChunk(as, a, a.chunks[i])])
  ELSE Concat([i \in DOMAIN a.ingredients |-> (IF i = 1 THEN <<>> ELSE <<Word(" ")>>)
                                               \o IngredientToken(a.ingredients[i])])

(* _print_step.                                                            *)
PrintStep(as, a) ==
  LeadingUses(as, a) \o PrintBody(as, a)
  \o (IF a.name = <<>> THEN <<>> ELSE <<Mark("=>")>> \o a.name[1])

(* The blocks _split_steps finds in the printed steps: a blank one is none.  *)
Blocks(steps) == Concat([i \in DOMAIN steps |-> IF steps[i] = <<>> THEN <<>> ELSE <<steps[i]>>])

(* print_cook.                                                             *)
PrintCook ==
  /\ phase = "print"
  /\ front' = PrintFront(meta)
  /\ document' = Blocks([i \in DOMAIN actions |-> PrintStep(actions, actions[i])])
  /\ source' = [meta |-> meta, actions |-> actions]
  /\ phase' = "read" /\ round' = 2 /\ actions' = <<>> /\ names' = <<>> /\ at' = 1 /\ scan' = NotScanned
  /\ UNCHANGED meta

CNext ==
  \/ ReadState \/ ReadIngredient \/ ReadCookware \/ ReadTimer \/ ReadTemperature
  \/ ReadLiteral \/ EndStep \/ EndDocument \/ PrintCook

CSpec     == CInit /\ [][CNext]_cvars
CFairSpec == CSpec /\ WF_cvars(CNext)

-----------------------------------------------------------------------------
(* Recipe construction never refuses what the parser built: a step uses     *)
(* earlier steps only, each once, and its prose only what it has.  Without  *)
(* it a document could read as a cycle or a dangling reference.             *)
ActionsAreSound ==
  \A i \in DOMAIN actions :
    LET a == actions[i] IN
    /\ \A j \in DOMAIN a.uses : a.uses[j] \in 1..(i - 1)
    /\ \A j, k \in DOMAIN a.uses : a.uses[j] = a.uses[k] => j = k
    /\ \A j \in DOMAIN a.chunks :
         LET c == a.chunks[j] IN
         /\ c.kind = "state" => \E k \in DOMAIN a.uses : a.uses[k] = c.ref
         /\ c.kind = "timer" => c.ref < Len(a.timers)
         /\ c.kind = "ingredient" => \E k \in DOMAIN a.ingredients : a.ingredients[k].id = c.ref

(* Read, printed and read again, a document is the same recipe; only an     *)
(* empty timer, read as 0 and printed as a count, is refused the second     *)
(* time.                                                                   *)
HasEmptyTimer(as) == \E i \in DOMAIN as : \E j \in DOMAIN as[i].timers : as[i].timers[j].quantity = NoTime
ReadsBack ==
  round = 2 =>
    /\ phase = "done" => actions = source.actions /\ meta = source.meta
    /\ phase = "raised" => HasEmptyTimer(source.actions)

(* "Printing a parsed document reproduces it byte for byte."               *)
PrintReproducesTheText ==
  round = 2 => \A i \in DOMAIN actions : PrintStep(actions, actions[i]) = document[i]

(* "Emits a .cook document that parse reads back into an equivalent         *)
(* recipe", whatever recipe it is.                                         *)
PrintReadsBack ==
  round = 2 /\ phase \in {"done", "raised"} => phase = "done" /\ actions = source.actions

(* The scanner always moves on.                                            *)
EveryDocumentEnds == <>(phase \in {"done", "raised"})

=============================================================================
