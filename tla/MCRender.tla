------------------------------ MODULE MCRender ------------------------------
(* Recipes of up to three actions, what their actions say, and readers.     *)
EXTENDS Render, TLC

MCStates == {"s1", "s2", "s3", "s4"}
Action(a, o, u, s) == [id |-> a, order |-> o, uses |-> u, produces |-> s]

(* Nothing, one state, one state twice, two states; s4 has no producer.     *)
MCUses == {<<>>, <<"s1">>, <<"s2">>, <<"s3">>, <<"s4">>, <<"s2", "s2">>, <<"s3", "s1">>, <<"s2", "s3">>}

(* Ids in and out of the order written, one id twice; authored orders with  *)
(* and without ties.                                                       *)
IdLists    == {<<1, 2, 3>>, <<3, 1, 2>>, <<1, 2, 1>>}
OrderLists == {<<0, 0, 0>>, <<0, 1, 2>>, <<2, 1, 0>>, <<1, 1, 0>>}

ThreeActions ==
  {<<Action(a[1], o[1], u[1], "s1"), Action(a[2], o[2], u[2], "s2"), Action(a[3], o[3], u[3], "s3")>> :
     a \in IdLists, o \in OrderLists, u \in [1..3 -> MCUses]}

(* One state with two producers.                                           *)
TwoProducers == {<<Action(1, 0, u, "s1"), Action(2, 1, <<>>, "s1")>> : u \in MCUses}

MCRecipes == {<<>>} \cup {<<Action(1, 0, u, "s1")>> : u \in MCUses} \cup TwoProducers \cup ThreeActions

-----------------------------------------------------------------------------
BaseLanguages == [x \in {"en", "de", "en-US", "fr"} |-> IF x = "en-US" THEN "en" ELSE x]
German(text)  == [source |-> "de", values |-> [de |-> text]]
Both(d, e)    == [source |-> "de", values |-> [de |-> d, en |-> e]]

MCRegistry ==
  [flour |-> [names |-> [en |-> "flour", de |-> "Mehl"], divisible |-> TRUE],
   egg   |-> [names |-> [de |-> "Ei"], divisible |-> FALSE]]

Amounts(kind, low, high, unit) == [kind |-> kind, low |-> low, high |-> high, unit |-> unit]
Spec1(kind, low, high, unit, scaling) == <<[quantity |-> Amounts(kind, low, high, unit), scaling |-> scaling]>>
Use(id, ingredient, quantity) == [id |-> id, ingredient |-> ingredient, quantity |-> quantity]
Slot(kind, ref, index) == [kind |-> kind, ref |-> ref, index |-> index, text |-> German("")]
Literal == [kind |-> "text", ref |-> "", index |-> 0, text |-> Both("dann", "then")]

Silent == [verb |-> <<>>, name |-> <<>>, ingredients |-> <<>>, cookware |-> <<>>, timers |-> <<>>,
           temperatures |-> <<>>, text |-> <<>>]

(* A little of something, a unit nobody knows, and prose over both.         *)
Mix == [Silent EXCEPT
  !.verb = <<Both("mischen", "mix")>>,
  !.ingredients = <<Use("u1", "flour", Spec1("scalar", Ratio(1, 8), Ratio(1, 8), "tsp", "LINEAR")),
                    Use("u2", "unbound", Spec1("scalar", Whole(2), Whole(2), Unread, "LINEAR"))>>,
  !.text = <<Slot("ingredient", "u2", 0), Literal, Slot("ingredient", "u1", 0)>>]

(* Eggs, a range, an id the registry lost, a bake time.                     *)
Bake == [Silent EXCEPT
  !.name = <<German("Teig")>>,
  !.ingredients = <<Use("u3", "egg", Spec1("count", Whole(1), Whole(3), NoUnit, "LINEAR")),
                    Use("u4", "lost", Spec1("range", Whole(250), Whole(700), "g", "LINEAR"))>>,
  !.cookware = <<[id |-> "k1", name |-> German("Ofen")]>>,
  !.timers = <<Amounts("scalar", Whole(40), Whole(40), "min")>>,
  !.temperatures = <<[value |-> 180, unit |-> "C"], [value |-> 355, unit |-> "F"]>>,
  !.text = <<Slot("cookware", "k1", 0), Slot("timer", "", 0), Slot("temperature", "", 1)>>]

(* To taste, and a quantity that must be checked.                          *)
Season == [Silent EXCEPT
  !.ingredients = <<Use("u5", "unbound", Spec1("approx", Zero, Zero, NoUnit, "INVARIANT")),
                    Use("u6", "flour", Spec1("scalar", Ratio(7, 10), Ratio(7, 10), "dl", "NONLINEAR")),
                    Use("u7", "flour", <<>>)>>]

Garnish == [Silent EXCEPT
  !.ingredients = <<Use("u8", "flour", Spec1("range", Ratio(1, 50), Ratio(1, 3), "cup_us", "LINEAR"))>>]

Tell(a, b, c) == (1 :> a @@ 2 :> b @@ 3 :> c)

(* What can be rendered, and one wrong reference of each kind.              *)
GoodContents == {Tell(Mix, Bake, Season), Tell(Silent, [Garnish EXCEPT !.text = <<Slot("state", "s1", 0)>>], Mix)}
BadContents  == {Tell(Mix, [Bake EXCEPT !.text = Append(@, Slot("timer", "", 1))], Season),
                 Tell(Mix, [Bake EXCEPT !.ingredients[2].id = "u3"], Season)}
MCContents   == GoodContents \cup BadContents

(* A recipe of one step that heats the oven and times nothing.              *)
Preheat       == [Silent EXCEPT !.verb = <<Both("vorheizen", "preheat")>>,
                                !.temperatures = <<[value |-> 180, unit |-> "C"]>>]
OneStepRecipes == {<<Action(1, 0, <<>>, "s1")>>}
OvenContents   == {Tell(Preheat, Silent, Silent)}

MCReaders ==
  {[lang |-> l, system |-> s, scale |-> f] :
     l \in {"en-US"}, s \in {"us", "metric"}, f \in {Whole(1), Ratio(1, 10), Ratio(3, 2)}}
  \cup {[lang |-> "fr", system |-> "metric", scale |-> Whole(3)],
        [lang |-> "de", system |-> "metric", scale |-> Zero]}

-----------------------------------------------------------------------------
(* Conversions come back (as ratios: the code's Decimals come back up to     *)
(* their last digits), cross from volume to mass only over a density, and a *)
(* bare cup is a cup of somewhere only.                                     *)
ASSUME ConversionsComeBack ==
  \A f, t \in Units \ {"floz", "pint", "quart"} : \A x \in {Ratio(1, 3), Whole(7)} :
    LET there == ConvertValue(x, f, t, Ratio(53, 100)) IN
    there.error = "none" => ConvertValue(there.value, t, f, Ratio(53, 100)) = Converted(x)
ASSUME NoBridgeWithoutDensity ==
  \A f, t \in Units : ConvertValue(Whole(1), f, t, NoDensity).error = "none"
                        <=> UnitDefs[f].dim = UnitDefs[t].dim
ASSUME CupsNeedALocale ==
  /\ \A l \in DOMAIN Cups : UnitDefs[ResolveUnit("cup", l)].dim = "volume"
  /\ ResolveUnit("cup", "none") = Unread

=============================================================================
