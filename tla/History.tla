------------------------------ MODULE History ------------------------------
(***************************************************************************)
(* RecipeStore.history (store/base.py): a depth-first walk from HEAD along *)
(* the parent pointers, then a stable sort on created_at, newest first.    *)
(* created_at is compared as the store compares it, as an opaque ordered   *)
(* value; the store's ISO strings in one format sort like the integers     *)
(* used here.                                                              *)
(***************************************************************************)
EXTENDS RecipeStore, Integers, Sequences, FiniteSets, SequencesExt

ASSUME TimesAreOrdered == \A s \in Stamps : s.at \in Int

(* One turn of the while loop: pop the frontier, skip what was seen and     *)
(* what is not in the store, push the parents of what is kept.              *)
WalkStep(r, walk) ==
  LET v    == Last(walk.frontier)
      rest == Front(walk.frontier)
  IN IF v \in ToSet(walk.out) \/ v \notin versions[r]
     THEN [walk EXCEPT !.frontier = rest]
     ELSE [out |-> Append(walk.out, v), frontier |-> rest \o SetToSeq(v.parents)]

(* The loop ends when the frontier is empty; every turn pops one entry, and *)
(* in a lineage without merges a version pushes one at most.                *)
Walk(r) ==
  LET turns == 1 + Cardinality(versions[r])
      walk[n \in 0..turns] ==
        IF n = 0 THEN [out |-> <<>>, frontier |-> SetToSeq(head[r])]
        ELSE CHOOSE w \in {IF last.frontier = <<>> THEN last ELSE WalkStep(r, last) :
                              last \in {walk[n - 1]}} : TRUE
  IN walk[turns].out

(* Fault: newest first, but with ties turned round, a sort followed by a    *)
(* reversal.                                                               *)
OldestFirst(s) ==
  LET Before(i, j) == s[i].stamp.at < s[j].stamp.at \/ (s[i].stamp.at = s[j].stamp.at /\ i < j)
  IN [k \in DOMAIN s |->
        s[CHOOSE i \in DOMAIN s : 1 + Cardinality({j \in DOMAIN s : Before(j, i)}) = k]]

SortedThenReversed(s) == Reverse(OldestFirst(s))

(* list.sort(key=created_at, reverse=True): newest first, ties kept in      *)
(* their order.                                                             *)
NewestFirst(s) ==
  LET Before(i, j) == s[i].stamp.at > s[j].stamp.at \/ (s[i].stamp.at = s[j].stamp.at /\ i < j)
      Position(i)  == 1 + Cardinality({j \in DOMAIN s : Before(j, i)})
  IN [k \in DOMAIN s |-> s[CHOOSE i \in DOMAIN s : Position(i) = k]]

HistoryOf(r) == NewestFirst(Walk(r))

-----------------------------------------------------------------------------
(* No version among vs carries an earlier time than its parent.  commit does *)
(* not see to that: the time is the caller's, and seed_corpus passes a      *)
(* constant, which a later edit has overtaken.                             *)
InOrder(vs) == \A v \in vs : \A u \in v.parents : u.stamp.at =< v.stamp.at

(* "HEAD-first lineage": history() lists every version the recipe ever had  *)
(* exactly once, whatever created_at values the commits carried; and if no  *)
(* version is older than its parent (ties are allowed), HEAD comes first    *)
(* (project_recipe takes history[0] for it) and each entry is the parent of *)
(* the one before.                                                         *)
HistoryIsTheLineage ==
  \A r \in Recipes :
    LET h == HistoryOf(r) IN
    /\ ToSet(h) = versions[r] /\ Len(h) = Cardinality(versions[r])
    /\ InOrder(versions[r]) =>
         /\ h # <<>> => head[r] = {h[1]}
         /\ \A i \in 1..(Len(h) - 1) : h[i].parents = {h[i + 1]}

=============================================================================
