----------------------------- MODULE MCCatalog -----------------------------
(* Values for the constants of Catalog, and the state its run starts from. *)
EXTENDS Catalog

TwoIds      == <<"r1", "r2">>
TwoSuffixes == [r1 |-> "s1", r2 |-> "s2"]
TwoTitles   == [A |-> "rosti", C |-> "spaetzle"]
OneTitle    == [A |-> "rosti"]
SeedOne     == [r1 |-> "A"]

By(author, t) == [author |-> author, at |-> t]

(* The seed's constant time ties with ann's first and is overtaken by her   *)
(* second.                                                                 *)
EarlySeed  == By("curator", 1)
FewStamps  == {EarlySeed, By("ann", 1), By("ann", 2)}

OneEdit   == [r1 |-> {<<"C", By("ann", 2)>>}, r2 |-> {}]
AnnsEdits == [r1 |-> {<<"A", By("ann", 1)>>}, r2 |-> {<<"A", By("ann", 1)>>}]

(* A deployment some commands later: the corpus recipe was seeded and       *)
(* projected, then edited within the second; ann's recipe of the same title *)
(* was projected after it.                                                 *)
Seeded == Version("A", {}, EarlySeed)
Edited == Version("C", {Seeded}, By("ann", 1))
Other  == Version("A", {}, By("ann", 1))

MCInit ==
  /\ versions = [r1 |-> {Seeded, Edited}, r2 |-> {Other}]
  /\ head = [r1 |-> {Edited}, r2 |-> {Other}]
  /\ rows = [r1 |-> Row(<<Seeded>>, <<"rosti">>, "curator"),
             r2 |-> Row(<<Other>>, <<"rosti", "s2">>, "ann")]
  /\ users = {"ann", "curator"}
  /\ job = [p \in Jobs |-> NoJob]
  /\ clean = [p \in Jobs |-> TRUE]
  /\ started = 0

MCFairSpec == MCInit /\ [][Next]_vars /\ \A p \in Jobs : WF_vars(JobStep(p))

=============================================================================
