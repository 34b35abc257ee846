---------------------------- MODULE MCCooklang ----------------------------
(* Documents of one to three steps, and two recipes made in another way.    *)
EXTENDS Cooklang

MCNames == <<"s1", "s2", "s3">>
Nothing == Group(Body("empty", 0, 0, "", <<>>))
Num(n, unit) == Group(Body("number", n, n, unit, <<>>))
Between2(l, h, unit) == Group(Body("interval", l, h, unit, <<>>))
Phrase(ls) == Group(Body("words", 0, 0, "", ls))
Words(w) == Phrase(<<Word(w)>>)
Plain == At(FALSE, FALSE)

(* The steps a document is made of.                                        *)
Flour   == <<Word("mix"), Plain, Word("flour"), Num(500, "g"), Mark("=>"), Word("dough")>>
Knead   == <<Word("knead"), Mark("@&"), Words("dough"), Word("and"), Mark("@&"), Words("dough"),
             At(TRUE, TRUE), Word("salt"), Words("to taste"), Mark("=>"), Word("dough")>>
Rest    == <<Mark("@&"), Words("dough"), Mark("~"), Word("proof"), Between2(1, 2, "h")>>
Unknown == <<Word("take"), Mark("@&"), Words("cake"), Mark("=>"), Word("s1")>>
Oven    == <<Mark("#"), Word("tray"), Num(2, ""), Mark("^"), Num(180, "C"), Mark("=>"), Word("cake")>>
Swallow == <<Word("mail"), Plain, Word("us"), Mark("@&"), Words("dough"), Plain, Word("end")>>
Eggs    == <<At(FALSE, TRUE), Word("eggs"), Num(2, "large"), At(FALSE, TRUE), Word("milk"), Num(1, "cup"),
             Plain, Word("figs"), Between2(3, 4, "")>>
Wait    == <<Word("wait"), Mark("~"), Nothing>>
OnlyName == <<Mark("=>"), Word("dough")>>
(* Two arrows, and the name they give; an arrow that a token follows.       *)
TwoArrows == <<Word("sift"), Mark("=>"), Word("flour"), Mark("=>"), Word("mix")>>
UsesBoth  == <<Word("add"), Mark("=>"), Mark("@&"), Phrase(<<Word("flour"), Mark("=>"), Word("mix")>>),
               Mark("=>"), Word("dough"), Mark("=>")>>

(* Steps the parser refuses.                                               *)
BadPan   == <<Mark("#"), Word("pan"), Words("two")>>
BadTimer == <<Mark("~"), Num(5, "")>>
BadRange == <<Plain, Word("milk"), Between2(3, 2, "ml")>>
BadHeat  == <<Mark("^"), Words("hot")>>

Steps == {Flour, Knead, Rest, Unknown, Oven, Swallow, Eggs, Wait, OnlyName, TwoArrows, UsesBoth}
Bad   == {BadPan, BadTimer, BadRange, BadHeat}

MCKeys == {"title", "lang", "visibility", "servings"}
Fronts == {<<>>, [title |-> "Bread", servings |-> "4", lang |-> "de"], [title |-> ""]}
Lists  == {<<>>} \cup {<<s>> : s \in Steps \cup Bad} \cup {<<s, t>> : s, t \in Steps}
          \cup {<<s, t, u>> : s, t, u \in Steps}
MCDocuments == {[front |-> f, steps |-> l] : f \in {<<>>}, l \in Lists} \cup
               {[front |-> f, steps |-> <<Flour>>] : f \in Fronts}

(* A linear recipe: the second step uses the first, which has no name.      *)
Nameless(uses, chunks) == [name |-> <<>>, uses |-> uses, ingredients |-> <<>>, cookware |-> <<>>,
                           timers |-> <<>>, temperatures |-> <<>>, chunks |-> chunks]
Linear == {<<Nameless(<<>>, <<Literal(<<Word("boil")>>)>>), Nameless(<<1>>, <<Literal(<<Word("serve")>>)>>)>>}

=============================================================================
