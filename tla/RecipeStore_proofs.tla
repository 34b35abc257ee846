------------------------- MODULE RecipeStore_proofs -------------------------
(***************************************************************************)
(* The lineage of the atomic store, for every set of recipes, contents and *)
(* stamps, and whatever the callers' clocks do.                            *)
(*                                                                         *)
(* LineageLinear is not inductive: two versions share their parent as soon *)
(* as a commit takes for its parent a version that has a child already.    *)
(* HeadIsALeaf excludes that; it is preserved because HEAD moves to a      *)
(* version that was not stored, and that no stored version can therefore   *)
(* have for a parent (LineageClosed).                                      *)
(*                                                                         *)
(* The second part is history(): the walk returns the lineage, and the sort  *)
(* permutes it; it leaves it as it is where no version is older than its   *)
(* parent.                                                                 *)
(***************************************************************************)
EXTENDS History, FiniteSetTheorems, SequenceTheorems, TLAPS

HeadIsALeaf == \A r \in Recipes : \A v \in versions[r] : v.parents # head[r]

LineageInv ==
  /\ StoreTypeOK /\ LineageClosed /\ LineageLinear
  /\ HeadIsALeaf /\ NoVersionRepeatsItsParent /\ OnlyHeadIsALeaf

(* What the fields of a built record are.                                  *)
LEMMA VersionFields ==
  ASSUME NEW c, NEW p, NEW s
  PROVE  /\ Version(c, p, s).content = c
         /\ Version(c, p, s).parents = p
         /\ Version(c, p, s).stamp = s
BY DEF Version

(* Before the first commit nothing is stored and no head is set.           *)
LEMMA LineageInit == StoreInit => LineageInv
<1> SUFFICES ASSUME StoreInit PROVE LineageInv
  OBVIOUS
<1>1. \A r \in Recipes : versions[r] = {} /\ head[r] = {}
  BY DEF StoreInit
<1>2. StoreTypeOK
  BY <1>1 DEF StoreInit, StoreTypeOK
<1> QED
  BY <1>1, <1>2 DEF LineageInv, LineageClosed, LineageLinear, HeadIsALeaf,
                    NoVersionRepeatsItsParent, OnlyHeadIsALeaf

(* The version a commit writes is not stored yet: its parents are the head, *)
(* and no stored version has the head for its parents.                     *)
LEMMA CommitWritesANewVersion ==
  ASSUME LineageInv, NEW r \in Recipes, NEW c, NEW s
  PROVE  Version(c, head[r], s) \notin versions[r]
BY VersionFields DEF LineageInv, HeadIsALeaf

(* A commit with something to record preserves every part of the lineage.  *)
LEMMA CommitPreservesLineage ==
  ASSUME LineageInv, NEW r \in Recipes, NEW c \in Contents, NEW s \in Stamps,
         CommitVersion(r, c, s)
  PROVE  LineageInv'
<1> DEFINE new == Version(c, head[r], s)
<1>1. new.content = c /\ new.parents = head[r] /\ new.stamp = s
  BY VersionFields
<1>2. new \notin versions[r]
  BY CommitWritesANewVersion
<1>3. /\ versions'[r] = versions[r] \cup {new}
      /\ head'[r] = {new}
      /\ \A q \in Recipes \ {r} : versions'[q] = versions[q] /\ head'[q] = head[q]
      /\ DOMAIN versions' = Recipes /\ DOMAIN head' = Recipes
  BY DEF CommitVersion, LineageInv, StoreTypeOK
<1>4. \A v \in head[r] : v.content # c
  BY DEF CommitVersion, Unchanged
<1> HIDE DEF new
<1>5. new = Version(new.content, new.parents, new.stamp)
  BY <1>1 DEF new
<1>6. head[r] \subseteq versions[r] /\ \A v \in versions[r] : v.parents \subseteq versions[r]
  BY DEF LineageInv, LineageClosed
<1>7. StoreTypeOK'
  <2>1. \A q \in Recipes : \A v \in versions'[q] :
          /\ v = Version(v.content, v.parents, v.stamp)
          /\ v.content \in Contents /\ v.stamp \in Stamps
    BY <1>1, <1>3, <1>5 DEF LineageInv, StoreTypeOK
  <2> QED
    BY <2>1, <1>3 DEF StoreTypeOK
<1>8. LineageClosed'
  <2>1. head'[r] \subseteq versions'[r] /\ \A v \in versions'[r] : v.parents \subseteq versions'[r]
    BY <1>1, <1>3, <1>6
  <2>2. \A q \in Recipes \ {r} : /\ head'[q] \subseteq versions'[q]
                                 /\ \A v \in versions'[q] : v.parents \subseteq versions'[q]
    BY <1>3 DEF LineageInv, LineageClosed
  <2> QED
    BY <2>1, <2>2 DEF LineageClosed
<1>9. LineageLinear'
  <2>1. \A v \in versions[r] : v.parents # new.parents
    BY <1>1 DEF LineageInv, HeadIsALeaf
  <2>2. \A u, v \in versions'[r] : u.parents = v.parents => u = v
    BY <2>1, <1>3 DEF LineageInv, LineageLinear
  <2>3. \A q \in Recipes \ {r} : \A u, v \in versions'[q] : u.parents = v.parents => u = v
    BY <1>3 DEF LineageInv, LineageLinear
  <2> QED
    BY <2>2, <2>3 DEF LineageLinear
<1>10. HeadIsALeaf'
  <2>1. \A v \in versions'[r] : v.parents # head'[r]
    BY <1>1, <1>2, <1>3, <1>6
  <2>2. \A q \in Recipes \ {r} : \A v \in versions'[q] : v.parents # head'[q]
    BY <1>3 DEF LineageInv, HeadIsALeaf
  <2> QED
    BY <2>1, <2>2 DEF HeadIsALeaf
<1>11. NoVersionRepeatsItsParent'
  <2>1. \A v \in versions'[r] : \A p \in v.parents : p.content # v.content
    BY <1>1, <1>3, <1>4 DEF LineageInv, NoVersionRepeatsItsParent
  <2>2. \A q \in Recipes \ {r} : \A v \in versions'[q] : \A p \in v.parents : p.content # v.content
    BY <1>3 DEF LineageInv, NoVersionRepeatsItsParent
  <2> QED
    BY <2>1, <2>2 DEF NoVersionRepeatsItsParent
<1>12. OnlyHeadIsALeaf'
  <2>1. \A v \in versions'[r] : v \in head'[r] \/ \E u \in versions'[r] : v \in u.parents
    BY <1>1, <1>3 DEF LineageInv, OnlyHeadIsALeaf
  <2>2. \A q \in Recipes \ {r} : \A v \in versions'[q] :
          v \in head'[q] \/ \E u \in versions'[q] : v \in u.parents
    BY <1>3 DEF LineageInv, OnlyHeadIsALeaf
  <2> QED
    BY <2>1, <2>2 DEF OnlyHeadIsALeaf
<1> QED
  BY <1>7, <1>8, <1>9, <1>10, <1>11, <1>12 DEF LineageInv

(* Nothing changes in a no-op commit or while the store stutters.          *)
LEMMA UnchangedPreservesLineage ==
  ASSUME LineageInv, UNCHANGED storeVars PROVE LineageInv'
BY DEF LineageInv, storeVars, StoreTypeOK, LineageClosed, LineageLinear, HeadIsALeaf,
       NoVersionRepeatsItsParent, OnlyHeadIsALeaf

LEMMA LineageStep == LineageInv /\ [StoreNext]_storeVars => LineageInv'
<1> SUFFICES ASSUME LineageInv, [StoreNext]_storeVars PROVE LineageInv'
  OBVIOUS
<1>1. CASE UNCHANGED storeVars
  BY <1>1, UnchangedPreservesLineage
<1>2. CASE StoreNext
  <2>1. PICK r \in Recipes, c \in Contents, s \in Stamps : Commit(r, c, s)
    BY <1>2 DEF StoreNext
  <2>2. CASE CommitNoOp(r, c)
    BY <2>2, UnchangedPreservesLineage DEF CommitNoOp
  <2>3. CASE CommitVersion(r, c, s)
    BY <2>3, CommitPreservesLineage
  <2> QED
    BY <2>1, <2>2, <2>3 DEF Commit
<1> QED
  BY <1>1, <1>2

LEMMA LineageInvariant == StoreSpec => []LineageInv
BY LineageInit, LineageStep, PTL DEF StoreSpec

(* Every stored record has the shape build_version_record gives it.         *)
THEOREM StoreTypeCorrect == StoreSpec => []StoreTypeOK
<1>1. LineageInv => StoreTypeOK
  BY DEF LineageInv
<1> QED
  BY <1>1, LineageInvariant, PTL

(* HEAD and every parent pointer lead to a stored version: head() never     *)
(* raises and history() never skips a record.                              *)
THEOREM LineageIsClosed == StoreSpec => []LineageClosed
<1>1. LineageInv => LineageClosed
  BY DEF LineageInv
<1> QED
  BY <1>1, LineageInvariant, PTL

(* commit alone keeps the lineage linear, whoever calls it in whatever      *)
(* order: no version gets two children.                                    *)
THEOREM LineageIsLinear == StoreSpec => []LineageLinear
<1>1. LineageInv => LineageLinear
  BY DEF LineageInv
<1> QED
  BY <1>1, LineageInvariant, PTL

(* The no-op rule, over the whole lineage: whatever is committed, no stored *)
(* version repeats the content of its parent.                              *)
THEOREM NoOpRuleOfTheStore == StoreSpec => []NoVersionRepeatsItsParent
<1>1. LineageInv => NoVersionRepeatsItsParent
  BY DEF LineageInv
<1> QED
  BY <1>1, LineageInvariant, PTL

(* HEAD is the only leaf: no version is ever orphaned, so the walk from     *)
(* HEAD has all of them to find.                                           *)
THEOREM NothingIsOrphaned == StoreSpec => []OnlyHeadIsALeaf
<1>1. LineageInv => OnlyHeadIsALeaf
  BY DEF LineageInv
<1> QED
  BY <1>1, LineageInvariant, PTL

-----------------------------------------------------------------------------
(* L lists the stored versions once each, HEAD first, every entry followed   *)
(* by its only parent.                                                      *)
IsLineage(L, stored, hd) ==
  /\ L \in Seq(stored)
  /\ \A v \in stored : \E i \in DOMAIN L : L[i] = v
  /\ \A i, j \in DOMAIN L : L[i] = L[j] => i = j
  /\ hd = IF L = <<>> THEN {} ELSE {L[1]}
  /\ \A i \in DOMAIN L : L[i].parents = IF i < Len(L) THEN {L[i + 1]} ELSE {}

(* What commits keep true, whatever times they carry.                       *)
LineageIsListed == \A r \in Recipes : \E L : IsLineage(L, versions[r], head[r])

(* Functions on 1..n are the sequences of length n.                         *)
LEMMA ListsAreSequences ==
  ASSUME NEW S, NEW n \in Nat, NEW f \in [1..n -> S]
  PROVE  f \in Seq(S) /\ Len(f) = n
<1>1. f \in Seq(S)
  BY SeqDef, Zenon
<1> QED
  BY <1>1, LenProperties

(* SetToSeq of the sets a walk meets: no parent, or one.                    *)
LEMMA NothingAsASequence == SetToSeq({}) = <<>>
<1>1. Cardinality({}) = 0
  BY FS_EmptySet
<1> DEFINE Lists == [1..Cardinality({}) -> {}]
<1>2. Lists = {<<>>}
  <2>1. Lists = [1..0 -> {}]
    BY <1>1
  <2>2. ASSUME NEW f \in [1..0 -> {}] PROVE f = <<>>
    <3>1. f \in Seq({}) /\ Len(f) = 0
      BY ListsAreSequences
    <3> QED
      BY <3>1, EmptySeq, SeqEqual
  <2>3. <<>> \in [1..0 -> {}]
    OBVIOUS
  <2> QED
    BY <2>1, <2>2, <2>3
<1>3. IsInjective(<<>>)
  BY DEF IsInjective
<1>4. SetToSeq({}) = CHOOSE f \in Lists : IsInjective(f)
  BY DEF SetToSeq
<1> HIDE DEF Lists
<1> QED
  BY <1>2, <1>3, <1>4

LEMMA OneAsASequence == ASSUME NEW v PROVE SetToSeq({v}) = <<v>>
<1>1. Cardinality({v}) = 1
  BY FS_Singleton
<1> DEFINE Lists == [1..Cardinality({v}) -> {v}]
<1>2. Lists = {<<v>>}
  <2>1. Lists = [1..1 -> {v}]
    BY <1>1
  <2>2. \A f \in [1..1 -> {v}] : f = <<v>>
    <3> SUFFICES ASSUME NEW f \in [1..1 -> {v}] PROVE f = <<v>>
      OBVIOUS
    <3>1. f \in Seq({v}) /\ Len(f) = 1
      BY ListsAreSequences
    <3>3. f[1] = v
      OBVIOUS
    <3>2. <<v>> \in Seq({v}) /\ Len(<<v>>) = 1 /\ <<v>>[1] = v
      OBVIOUS
    <3> QED
      BY <3>1, <3>2, <3>3, SeqEqual
  <2>3. <<v>> \in [1..1 -> {v}]
    OBVIOUS
  <2> QED
    BY <2>1, <2>2, <2>3
<1>3. IsInjective(<<v>>)
  BY DEF IsInjective
<1>4. SetToSeq({v}) = CHOOSE f \in Lists : IsInjective(f)
  BY DEF SetToSeq
<1> HIDE DEF Lists
<1> QED
  BY <1>2, <1>3, <1>4

(* The list has as many entries as there are versions.                      *)
LEMMA LengthOfALineage ==
  ASSUME NEW L, NEW stored, NEW hd, IsLineage(L, stored, hd)
  PROVE  Cardinality(stored) = Len(L)
<1>1. L \in [1..Len(L) -> stored] /\ Len(L) \in Nat
  BY DEF IsLineage
<1>2. L \in Bijection(1..Len(L), stored)
  BY <1>1 DEF IsLineage, Bijection, Injection, Surjection, IsInjective
<1>3. ExistsBijection(1..Len(L), stored)
  BY <1>2 DEF ExistsBijection
<1> QED
  BY <1>1, <1>3, FS_CountingElements

(* A set of naturals has a least element: induction, in the form used here. *)
LEMMA LeastExists == ASSUME NEW T \in SUBSET Nat, T # {} PROVE \E x \in T : \A y \in T : x =< y
<1>1. PICK x \in T : \A y \in T : ~(<<y, x>> \in OpToRel(<, Nat))
  BY NatLessThanWellFounded, WFMin, Zenon
<1>2. \A y \in T : ~(y < x)
  BY <1>1, Zenon DEF OpToRel
<1> QED
  BY <1>2

(* The turns of the loop of history(), without the singleton set that makes *)
(* TLC evaluate the last one once.                                         *)
Turn(r, walk) == IF walk.frontier = <<>> THEN walk ELSE WalkStep(r, walk)

(* What the definition of Walk chooses its recursive function by.           *)
IsWalk(f, r, turns) ==
  f = [n \in 0..turns |->
        IF n = 0 THEN [out |-> <<>>, frontier |-> SetToSeq(head[r])]
        ELSE CHOOSE w \in {IF last.frontier = <<>> THEN last ELSE WalkStep(r, last) :
                              last \in {f[n - 1]}} : TRUE]

ByTurns(f, r, turns) ==
  f = [n \in 0..turns |->
        IF n = 0 THEN [out |-> <<>>, frontier |-> SetToSeq(head[r])] ELSE Turn(r, f[n - 1])]

(* A walk is determined by its first state and its turns.                   *)
LEMMA WalksByTurns ==
  ASSUME NEW r, NEW turns \in Nat, NEW f
  PROVE  IsWalk(f, r, turns) <=> ByTurns(f, r, turns)
<1>1. \A x : (CHOOSE w \in {IF last.frontier = <<>> THEN last ELSE WalkStep(r, last) :
                              last \in {x}} : TRUE) = Turn(r, x)
  <2> SUFFICES ASSUME NEW x
               PROVE (CHOOSE w \in {IF last.frontier = <<>> THEN last ELSE WalkStep(r, last) :
                              last \in {x}} : TRUE) = Turn(r, x)
    OBVIOUS
  <2>1. {IF last.frontier = <<>> THEN last ELSE WalkStep(r, last) : last \in {x}} = {Turn(r, x)}
    BY Zenon DEF Turn
  <2>2. (CHOOSE w \in {Turn(r, x)} : TRUE) = Turn(r, x)
    OBVIOUS
  <2> QED
    BY <2>1, <2>2, Zenon
<1>2. \A n \in 0..turns :
        (IF n = 0 THEN [out |-> <<>>, frontier |-> SetToSeq(head[r])]
         ELSE CHOOSE w \in {IF last.frontier = <<>> THEN last ELSE WalkStep(r, last) :
                              last \in {f[n - 1]}} : TRUE)
        = IF n = 0 THEN [out |-> <<>>, frontier |-> SetToSeq(head[r])] ELSE Turn(r, f[n - 1])
  BY <1>1, Zenon
<1> QED
  BY <1>2, Zenon DEF IsWalk, ByTurns

(* The first m entries of a sequence.                                       *)
LEMMA PrefixProperties ==
  ASSUME NEW S, NEW L \in Seq(S), NEW m \in 0..Len(L)
  PROVE  /\ SubSeq(L, 1, m) \in Seq(S)
         /\ Len(SubSeq(L, 1, m)) = m
         /\ DOMAIN SubSeq(L, 1, m) = 1..m
         /\ \A i \in 1..m : SubSeq(L, 1, m)[i] = L[i]
<1>1. Len(L) \in Nat /\ \A i \in 1..m : L[i] \in S
  BY LenProperties
<1>2. /\ SubSeq(L, 1, m) \in Seq(S)
      /\ Len(SubSeq(L, 1, m)) = IF 1 =< m THEN m - 1 + 1 ELSE 0
      /\ \A i \in 1..(m - 1 + 1) : SubSeq(L, 1, m)[i] = L[1 + i - 1]
  BY <1>1, SubSeqProperties
<1> DEFINE P == SubSeq(L, 1, m)
<1> HIDE DEF P
<1>3. P \in Seq(S) /\ Len(P) = m /\ \A i \in 1..m : P[i] = L[i]
  BY <1>1, <1>2 DEF P
<1>4. DOMAIN P = 1..m
  BY <1>3, LenProperties
<1> QED
  BY <1>3, <1>4 DEF P

(* After k turns the walk has listed the first k entries of the lineage and *)
(* has the next one on its frontier: g is the recursive function Walk names, *)
(* and there is no other (a least turn where they differ follows from the    *)
(* turn before).                                                            *)
LEMMA WalkIsTheLineage ==
  ASSUME NEW r \in Recipes, NEW L, IsLineage(L, versions[r], head[r])
  PROVE  Walk(r) = L
<1> DEFINE turns == 1 + Cardinality(versions[r])
           At(k) == [out |-> SubSeq(L, 1, IF k =< Len(L) THEN k ELSE Len(L)),
                     frontier |-> IF k < Len(L) THEN <<L[k + 1]>> ELSE <<>>]
           g == [k \in 0..turns |-> At(k)]
           first == [out |-> <<>>, frontier |-> SetToSeq(head[r])]
<1>1. turns = 1 + Len(L) /\ Len(L) \in Nat /\ DOMAIN L = 1..Len(L) /\ L \in Seq(versions[r])
  BY LengthOfALineage, LenProperties DEF IsLineage
<1> HIDE DEF turns
<1>2. At(0) = first
  <2>1. SubSeq(L, 1, 0) = <<>>
    BY SubSeqEmpty
  <2>2. CASE L = <<>>
    <3>1. Len(L) = 0 /\ head[r] = {}
      BY <2>2 DEF IsLineage
    <3> QED
      BY <2>1, <3>1, NothingAsASequence
  <2>3. CASE L # <<>>
    <3>1. Len(L) > 0
      BY <1>1, <2>3, EmptySeq
    <3>2. head[r] = {L[1]}
      BY <2>3 DEF IsLineage
    <3>3. SetToSeq(head[r]) = <<L[1]>>
      BY <3>2, OneAsASequence
    <3> QED
      BY <1>1, <2>1, <3>1, <3>3
  <2> QED
    BY <2>2, <2>3
<1>3. ASSUME NEW k \in 1..turns PROVE At(k) = Turn(r, At(k - 1))
  <2>1. CASE k = turns
    <3>1. ~(k =< Len(L)) /\ ~(k < Len(L)) /\ k - 1 = Len(L) /\ ~(Len(L) < Len(L))
      BY <1>1, <2>1
    <3>2. At(k) = [out |-> SubSeq(L, 1, Len(L)), frontier |-> <<>>]
      BY <3>1
    <3>3. At(k - 1) = [out |-> SubSeq(L, 1, Len(L)), frontier |-> <<>>]
      BY <3>1
    <3> QED
      BY <3>2, <3>3 DEF Turn
  <2>2. CASE k # turns
    <3>1. k \in 1..Len(L)
      BY <1>1, <2>2
    <3> DEFINE before == SubSeq(L, 1, k - 1)
               v == L[k]
    <3>2. At(k - 1) = [out |-> before, frontier |-> <<v>>]
      BY <1>1, <3>1
    <3>3. <<v>> # <<>> /\ Last(<<v>>) = v /\ Front(<<v>>) = <<>>
      BY SubSeqEmpty DEF Last, Front
    <3>4. v \in versions[r]
      BY <1>1, <3>1, ElementOfSeq
    <3>5. v \notin ToSet(before)
      <4>1. k - 1 \in 0..Len(L)
        BY <1>1, <3>1
      <4>3. DOMAIN before = 1..(k - 1) /\ \A i \in 1..(k - 1) : before[i] = L[i]
        BY <1>1, <4>1, PrefixProperties
      <4>4. \A i \in 1..(k - 1) : L[i] # v
        BY <1>1, <3>1 DEF IsLineage
      <4> HIDE DEF before, v
      <4> QED
        BY <4>3, <4>4 DEF ToSet
    <3>6. Append(before, v) = SubSeq(L, 1, k)
      <4>0. k - 1 \in 0..Len(L) /\ k \in 0..Len(L) /\ k \in Nat
        BY <1>1, <3>1
      <4>1. before \in Seq(versions[r]) /\ Len(before) = k - 1
            /\ \A i \in 1..(k - 1) : before[i] = L[i]
        BY <1>1, <4>0, PrefixProperties
      <4>2. SubSeq(L, 1, k) \in Seq(versions[r]) /\ Len(SubSeq(L, 1, k)) = k
            /\ \A i \in 1..k : SubSeq(L, 1, k)[i] = L[i]
        BY <1>1, <4>0, PrefixProperties
      <4> HIDE DEF before, v
      <4>3. /\ Append(before, v) \in Seq(versions[r]) /\ Len(Append(before, v)) = k
            /\ \A i \in 1..(k - 1) : Append(before, v)[i] = before[i]
            /\ Append(before, v)[k] = v
        BY <3>1, <3>4, <4>0, <4>1
      <4>4. \A i \in 1..k : Append(before, v)[i] = L[i]
        BY <4>0, <4>1, <4>3 DEF v
      <4> QED
        BY <4>2, <4>3, <4>4, SeqEqual
    <3>7. <<>> \o SetToSeq(v.parents) = IF k < Len(L) THEN <<L[k + 1]>> ELSE <<>>
      <4>1. v.parents = IF k < Len(L) THEN {L[k + 1]} ELSE {}
        BY <1>1, <3>1 DEF IsLineage
      <4>2. SetToSeq(v.parents) = IF k < Len(L) THEN <<L[k + 1]>> ELSE <<>>
        BY <4>1, NothingAsASequence, OneAsASequence
      <4>3. SetToSeq(v.parents) \in Seq({L[k + 1]})
        <5>1. <<>> \in Seq({L[k + 1]}) /\ <<L[k + 1]>> \in Seq({L[k + 1]})
          OBVIOUS
        <5> QED
          BY <4>2, <5>1, Zenon
      <4> QED
        BY <4>2, <4>3, ConcatEmptySeq
    <3>8. At(k) = [out |-> SubSeq(L, 1, k), frontier |-> IF k < Len(L) THEN <<L[k + 1]>> ELSE <<>>]
      BY <1>1, <3>1
    <3> HIDE DEF before, v, At
    <3>11. At(k - 1).out = before /\ At(k - 1).frontier = <<v>>
      BY <3>2
    <3>9. WalkStep(r, At(k - 1)) = [out |-> Append(before, v), frontier |-> <<>> \o SetToSeq(v.parents)]
      BY <3>11, <3>3, <3>4, <3>5, Zenon DEF WalkStep
    <3>10. At(k - 1).frontier # <<>>
      BY <3>11, <3>3
    <3> QED
      BY <3>6, <3>7, <3>8, <3>9, <3>10 DEF Turn
  <2> QED
    BY <2>1, <2>2
<1> HIDE DEF At
<1>4. IsWalk(g, r, turns)
  <2>1. \A n \in 0..turns : g[n] = IF n = 0 THEN first ELSE Turn(r, g[n - 1])
    <3> SUFFICES ASSUME NEW n \in 0..turns
                 PROVE  g[n] = IF n = 0 THEN first ELSE Turn(r, g[n - 1])
      OBVIOUS
    <3>1. CASE n = 0
      BY <1>1, <1>2, <3>1
    <3>2. CASE n # 0
      <4>1. n \in 1..turns /\ n - 1 \in 0..turns
        BY <1>1, <3>2
      <4> QED
        BY <1>3, <3>2, <4>1
    <3> QED
      BY <3>1, <3>2
  <2>2. g = [n \in 0..turns |-> IF n = 0 THEN first ELSE Turn(r, g[n - 1])]
    BY <2>1
  <2>3. ByTurns(g, r, turns)
    BY <2>2 DEF ByTurns
  <2> HIDE DEF g
  <2> QED
    BY <2>3, <1>1, WalksByTurns
<1> DEFINE f == CHOOSE walk : IsWalk(walk, r, turns)
<1>5. Walk(r) = f[turns].out
  BY DEF Walk, IsWalk, turns
<1>6. IsWalk(f, r, turns)
  BY <1>4
<1> HIDE DEF f, g
<1>7. f = [n \in 0..turns |-> IF n = 0 THEN first ELSE Turn(r, f[n - 1])]
  <2>1. ByTurns(f, r, turns)
    BY <1>1, <1>6, WalksByTurns
  <2> QED
    BY <2>1 DEF ByTurns
<1>8. \A n \in 0..turns : f[n] = At(n)
  <2> DEFINE T == {n \in 0..turns : f[n] # At(n)}
  <2> SUFFICES ASSUME T # {} PROVE FALSE
    OBVIOUS
  <2>1. T \in SUBSET Nat
    BY <1>1
  <2>2. PICK n \in T : \A m \in T : n =< m
    BY <2>1, LeastExists
  <2>3. n # 0
    BY <1>1, <1>2, <1>7
  <2>4. n - 1 \in 0..turns /\ n - 1 \notin T /\ n \in 1..turns
    BY <1>1, <2>2, <2>3
  <2>5. f[n] = Turn(r, f[n - 1])
    BY <1>7, <2>3
  <2> QED
    BY <1>3, <2>4, <2>5
<1>9. At(turns).out = SubSeq(L, 1, Len(L))
  <2>1. ~(turns =< Len(L))
    BY <1>1
  <2> QED
    BY <2>1 DEF At
<1>10. SubSeq(L, 1, Len(L)) = L
  BY <1>1, PrefixProperties, SeqEqual
<1> QED
  BY <1>1, <1>5, <1>8, <1>9, <1>10

(* The sort leaves a list that is newest first already as it is: the ties    *)
(* keep their order, and the entry before which i - 1 others belong is i.   *)
LEMMA SortingTheSorted ==
  ASSUME NEW S, NEW L \in Seq(S), \A v \in S : v.stamp.at \in Int,
         \A i, j \in DOMAIN L : i < j => L[j].stamp.at =< L[i].stamp.at
  PROVE  NewestFirst(L) = L
<1> DEFINE Before(i, j) == L[i].stamp.at > L[j].stamp.at \/ (L[i].stamp.at = L[j].stamp.at /\ i < j)
           Pos(i) == 1 + Cardinality({j \in DOMAIN L : Before(j, i)})
<1>1. DOMAIN L = 1..Len(L) /\ Len(L) \in Nat /\ \A i \in DOMAIN L : L[i].stamp.at \in Int
  BY LenProperties
<1>2. \A i, j \in DOMAIN L : Before(j, i) <=> j < i
  BY <1>1
<1> HIDE DEF Before
<1>3. ASSUME NEW i \in DOMAIN L PROVE Pos(i) = i
  <2>1. {j \in DOMAIN L : Before(j, i)} = 1..(i - 1)
    BY <1>1, <1>2
  <2>2. Cardinality(1..(i - 1)) = i - 1
    BY <1>1, FS_Interval
  <2>3. Pos(i) = 1 + Cardinality(1..(i - 1))
    BY <2>1
  <2> HIDE DEF Pos
  <2> QED
    BY <1>1, <2>2, <2>3
<1>4. NewestFirst(L) = [k \in DOMAIN L |-> L[CHOOSE i \in DOMAIN L : Pos(i) = k]]
  BY DEF NewestFirst, Before
<1> HIDE DEF Pos
<1>5. \A k \in DOMAIN L : (CHOOSE i \in DOMAIN L : Pos(i) = k) = k
  BY <1>3
<1>6. NewestFirst(L) = [k \in DOMAIN L |-> L[k]]
  BY <1>4, <1>5
<1> QED
  BY <1>1, <1>6

-----------------------------------------------------------------------------
(* The inductive invariant of the history.                                  *)
ListInv == LineageInv /\ LineageIsListed

LEMMA ListInit == StoreInit => LineageIsListed
<1> SUFFICES ASSUME StoreInit, NEW r \in Recipes PROVE IsLineage(<<>>, versions[r], head[r])
  BY DEF LineageIsListed
<1>1. versions[r] = {} /\ head[r] = {}
  BY DEF StoreInit
<1> QED
  BY <1>1 DEF IsLineage

(* A commit puts its version in front of the list.                          *)
LEMMA LengthenedLineage ==
  ASSUME NEW L, NEW stored, NEW hd, NEW new,
         IsLineage(L, stored, hd), new \notin stored, new.parents = hd
  PROVE  IsLineage(<<new>> \o L, stored \cup {new}, {new})
<1> DEFINE longer == <<new>> \o L
<1>1. L \in Seq(stored) /\ Len(L) \in Nat /\ DOMAIN L = 1..Len(L)
  BY LenProperties DEF IsLineage
<1>2. /\ longer \in Seq(stored \cup {new})
      /\ Len(longer) = Len(L) + 1
      /\ longer[1] = new
      /\ \A i \in 1..Len(L) : longer[i + 1] = L[i]
  <2>1. <<new>> \in Seq(stored \cup {new}) /\ L \in Seq(stored \cup {new})
    BY <1>1, SeqMonotonic
  <2>2. Len(<<new>>) = 1 /\ <<new>>[1] = new
    OBVIOUS
  <2>3. \A i \in 1..(Len(<<new>>) + Len(L)) :
          longer[i] = IF i =< Len(<<new>>) THEN <<new>>[i] ELSE L[i - Len(<<new>>)]
    BY <2>1, ConcatProperties
  <2>4. longer \in Seq(stored \cup {new}) /\ Len(longer) = 1 + Len(L)
    BY <2>1, <2>2, ConcatProperties
  <2> HIDE DEF longer
  <2>5. longer[1] = new
    BY <1>1, <2>2, <2>3
  <2>6. ASSUME NEW i \in 1..Len(L) PROVE longer[i + 1] = L[i]
    <3>1. i + 1 \in 1..(1 + Len(L)) /\ ~(i + 1 =< 1) /\ (i + 1) - 1 = i
      BY <1>1
    <3> QED
      BY <2>2, <2>3, <3>1
  <2> QED
    BY <1>1, <2>4, <2>5, <2>6
<1> HIDE DEF longer
<1>3. DOMAIN longer = 1..(Len(L) + 1)
  BY <1>2, LenProperties
<1>4. ASSUME NEW i \in DOMAIN longer
      PROVE  (i = 1 /\ longer[i] = new) \/ (i - 1 \in DOMAIN L /\ longer[i] = L[i - 1])
  <2>1. CASE i = 1
    BY <1>2, <2>1
  <2>2. CASE i # 1
    <3>1. i - 1 \in 1..Len(L) /\ (i - 1) + 1 = i
      BY <1>1, <1>3, <2>2
    <3> QED
      BY <1>1, <1>2, <3>1
  <2> QED
    BY <2>1, <2>2
<1>5. \A i \in DOMAIN L : L[i] \in stored
  BY <1>1, ElementOfSeq
<1>6. \A v \in stored \cup {new} : \E i \in DOMAIN longer : longer[i] = v
  <2>1. ASSUME NEW v \in stored PROVE \E i \in DOMAIN longer : longer[i] = v
    <3>1. PICK i \in DOMAIN L : L[i] = v
      BY DEF IsLineage
    <3>2. i + 1 \in DOMAIN longer /\ longer[i + 1] = v
      BY <1>1, <1>2, <1>3, <3>1
    <3> QED
      BY <3>2
  <2>2. 1 \in DOMAIN longer /\ longer[1] = new
    BY <1>1, <1>2, <1>3
  <2> QED
    BY <2>1, <2>2
<1>7. \A i, j \in DOMAIN longer : longer[i] = longer[j] => i = j
  <2> SUFFICES ASSUME NEW i \in DOMAIN longer, NEW j \in DOMAIN longer, longer[i] = longer[j]
               PROVE  i = j
    OBVIOUS
  <2>1. \A k \in DOMAIN L : L[k] # new
    BY <1>5
  <2>2. CASE i = 1 \/ j = 1
    BY <1>2, <1>4, <2>1, <2>2
  <2>3. CASE i # 1 /\ j # 1
    <3>1. i - 1 \in DOMAIN L /\ j - 1 \in DOMAIN L /\ L[i - 1] = L[j - 1]
      BY <1>4, <2>3
    <3>2. i - 1 = j - 1
      BY <3>1 DEF IsLineage
    <3> QED
      BY <3>2, <1>3
  <2> QED
    BY <2>2, <2>3
<1>8. longer # <<>> /\ {new} = {longer[1]}
  BY <1>1, <1>2, EmptySeq
<1>9. \A i \in DOMAIN longer :
        longer[i].parents = IF i < Len(longer) THEN {longer[i + 1]} ELSE {}
  <2> SUFFICES ASSUME NEW i \in DOMAIN longer
               PROVE  longer[i].parents = IF i < Len(longer) THEN {longer[i + 1]} ELSE {}
    OBVIOUS
  <2>1. CASE i = 1
    <3>1. CASE L = <<>>
      <4>1. Len(L) = 0 /\ hd = {}
        BY <3>1 DEF IsLineage
      <4> QED
        BY <1>2, <2>1, <4>1
    <3>2. CASE L # <<>>
      <4>1. Len(L) > 0 /\ hd = {L[1]}
        BY <1>1, <3>2, EmptySeq DEF IsLineage
      <4>2. longer[2] = L[1]
        BY <1>1, <1>2, <4>1
      <4>3. longer[i].parents = {longer[i + 1]}
        BY <1>2, <2>1, <4>1, <4>2
      <4>4. i < Len(longer)
        BY <1>1, <1>2, <2>1, <4>1
      <4> QED
        BY <4>3, <4>4
    <3> QED
      BY <3>1, <3>2
  <2>2. CASE i # 1
    <3>1. i - 1 \in DOMAIN L /\ longer[i] = L[i - 1]
      BY <1>4, <2>2
    <3>2. L[i - 1].parents = IF i - 1 < Len(L) THEN {L[(i - 1) + 1]} ELSE {}
      BY <3>1 DEF IsLineage
    <3>3. i - 1 < Len(L) <=> i < Len(longer)
      BY <1>1, <1>2, <1>3
    <3>4. i - 1 < Len(L) => L[(i - 1) + 1] = longer[i + 1]
      <4>1. i - 1 < Len(L) => i \in 1..Len(L) /\ (i - 1) + 1 = i
        BY <1>1, <1>3, <3>1
      <4> QED
        BY <1>2, <4>1
    <3> QED
      BY <3>1, <3>2, <3>3, <3>4
  <2> QED
    BY <2>1, <2>2
<1> HIDE DEF longer
<1>10. IsLineage(longer, stored \cup {new}, {new})
  BY <1>2, <1>6, <1>7, <1>8, <1>9 DEF IsLineage
<1> QED
  BY <1>10 DEF longer

LEMMA CommitLengthensTheLineage ==
  ASSUME ListInv,
         NEW r \in Recipes, NEW c \in Contents, NEW s \in Stamps, CommitVersion(r, c, s)
  PROVE  ListInv'
<1> DEFINE new == Version(c, head[r], s)
<1>1. LineageInv'
  BY CommitPreservesLineage DEF ListInv
<1>2. /\ versions'[r] = versions[r] \cup {new} /\ head'[r] = {new}
      /\ \A q \in Recipes \ {r} : versions'[q] = versions[q] /\ head'[q] = head[q]
  BY DEF CommitVersion, ListInv, LineageInv, StoreTypeOK
<1>3. new \notin versions[r] /\ new.parents = head[r]
  BY CommitWritesANewVersion, VersionFields DEF ListInv
<1> HIDE DEF new
<1>4. PICK L : IsLineage(L, versions[r], head[r])
  BY DEF ListInv, LineageIsListed
<1>5. IsLineage(<<new>> \o L, versions'[r], head'[r])
  BY <1>2, <1>3, <1>4, LengthenedLineage
<1>6. \A q \in Recipes : \E K : IsLineage(K, versions'[q], head'[q])
  BY <1>2, <1>5 DEF ListInv, LineageIsListed
<1> QED
  BY <1>1, <1>6 DEF ListInv, LineageIsListed

LEMMA ListStep == ASSUME ListInv, [StoreNext]_storeVars PROVE ListInv'
<1>1. CASE UNCHANGED storeVars
  BY <1>1, UnchangedPreservesLineage DEF ListInv, LineageIsListed, storeVars
<1>2. CASE StoreNext
  <2>1. PICK r \in Recipes, c \in Contents, s \in Stamps : Commit(r, c, s)
    BY <1>2 DEF StoreNext
  <2>2. CASE CommitNoOp(r, c)
    BY <1>1, <2>2 DEF CommitNoOp
  <2>3. CASE CommitVersion(r, c, s)
    BY <2>3, CommitLengthensTheLineage
  <2> QED
    BY <2>1, <2>2, <2>3 DEF Commit
<1> QED
  BY <1>1, <1>2

(* The sort leaves no version out and doubles none, whatever the times: no   *)
(* two entries belong in one place, so every place is somebody's.           *)
LEMMA SortingPermutes ==
  ASSUME NEW S, NEW L \in Seq(S), \A v \in S : v.stamp.at \in Int
  PROVE  /\ NewestFirst(L) \in Seq(S) /\ Len(NewestFirst(L)) = Len(L)
         /\ ToSet(NewestFirst(L)) = ToSet(L)
<1> DEFINE n == Len(L)
           Before(i, j) == L[i].stamp.at > L[j].stamp.at \/ (L[i].stamp.at = L[j].stamp.at /\ i < j)
           Under(i) == {j \in DOMAIN L : Before(j, i)}
           Pos(i) == 1 + Cardinality(Under(i))
           pos == [i \in 1..n |-> Pos(i)]
           At(k) == CHOOSE i \in DOMAIN L : Pos(i) = k
<1>1. DOMAIN L = 1..n /\ n \in Nat /\ \A i \in DOMAIN L : L[i] \in S /\ L[i].stamp.at \in Int
  BY LenProperties, ElementOfSeq
<1>2. IsFiniteSet(1..n) /\ Cardinality(1..n) = n
  <2>1. n \in Nat
    BY <1>1
  <2> HIDE DEF n
  <2>2. /\ IsFiniteSet(1..n)
        /\ Cardinality(1..n) = IF 1 > n THEN 0 ELSE n - 1 + 1
    <3>1. 1 \in Int /\ n \in Int
      BY <2>1
    <3> QED
      BY <3>1, FS_Interval, Zenon
  <2>3. (IF 1 > n THEN 0 ELSE n - 1 + 1) = n
    BY <2>1
  <2> QED
    BY <2>2, <2>3
<1>3. \A i, j, k \in DOMAIN L : Before(i, j) /\ Before(j, k) => Before(i, k)
  BY <1>1
<1>4. \A i, j \in DOMAIN L : i # j => (Before(i, j) \/ Before(j, i))
  BY <1>1
<1>5. \A i \in DOMAIN L : ~Before(i, i)
  BY <1>1
<1>6. NewestFirst(L) = [k \in DOMAIN L |-> L[At(k)]]
  BY DEF NewestFirst
<1> HIDE DEF Before, n
<1>7. ASSUME NEW i \in DOMAIN L
      PROVE  IsFiniteSet(Under(i)) /\ Cardinality(Under(i)) \in Nat /\ Cardinality(Under(i)) < n
  <2>1. Under(i) \subseteq (1..n) /\ i \notin Under(i) /\ i \in 1..n
    BY <1>1, <1>5
  <2> HIDE DEF Under
  <2>2. /\ IsFiniteSet(Under(i)) /\ Cardinality(Under(i)) =< Cardinality(1..n)
        /\ Cardinality(Under(i)) # Cardinality(1..n)
    BY <1>2, <2>1, FS_Subset
  <2>3. Cardinality(Under(i)) \in Nat
    BY <2>2, FS_CardinalityType
  <2> QED
    BY <1>1, <1>2, <2>2, <2>3
<1>8. ASSUME NEW i \in DOMAIN L, NEW j \in DOMAIN L, Before(i, j) PROVE Pos(i) < Pos(j)
  <2>1. Under(i) \subseteq Under(j) /\ i \in Under(j) /\ i \notin Under(i)
    BY <1>3, <1>5, <1>8
  <2>2. IsFiniteSet(Under(j)) /\ Cardinality(Under(j)) \in Nat /\ Cardinality(Under(i)) \in Nat
    BY <1>7
  <2> HIDE DEF Under
  <2>3. Cardinality(Under(i)) =< Cardinality(Under(j)) /\ Cardinality(Under(i)) # Cardinality(Under(j))
    BY <2>1, <2>2, FS_Subset
  <2> QED
    BY <2>2, <2>3
<1>9. pos \in [1..n -> 1..n]
  <2> SUFFICES ASSUME NEW i \in DOMAIN L PROVE Pos(i) \in 1..n
    BY <1>1
  <2>1. Cardinality(Under(i)) \in Nat /\ Cardinality(Under(i)) < n
    BY <1>7
  <2> HIDE DEF Under
  <2> QED
    BY <1>1, <2>1
<1> HIDE DEF Under
<1>10. \A i, j \in 1..n : i # j => pos[i] # pos[j]
  <2> SUFFICES ASSUME NEW i \in 1..n, NEW j \in 1..n, i # j PROVE pos[i] # pos[j]
    OBVIOUS
  <2>1. pos[i] = Pos(i) /\ pos[j] = Pos(j) /\ pos[i] \in Int /\ pos[j] \in Int
    BY <1>1, <1>9
  <2>2. Pos(i) < Pos(j) \/ Pos(j) < Pos(i)
    BY <1>1, <1>4, <1>8
  <2> HIDE DEF Pos, pos
  <2> QED
    BY <2>1, <2>2
<1>11. \A i \in 1..n : pos[i] = Pos(i)
  OBVIOUS
<1> HIDE DEF Pos, pos
<1>12. pos \in Surjection(1..n, 1..n)
  <2>1. pos \in Injection(1..n, 1..n)
    BY <1>9, <1>10 DEF Injection, IsInjective
  <2> QED
    BY <1>2, <2>1, FS_Injection
<1>13. \A k \in 1..n : At(k) \in 1..n /\ Pos(At(k)) = k
  BY <1>1, <1>11, <1>12 DEF Surjection
<1>14. ASSUME NEW i \in 1..n PROVE pos[i] \in 1..n /\ At(pos[i]) = i
  <2>1. pos[i] \in 1..n
    BY <1>9
  <2>2. At(pos[i]) \in 1..n /\ Pos(At(pos[i])) = pos[i]
    BY <1>13, <2>1
  <2> HIDE DEF At
  <2> QED
    BY <1>10, <1>11, <2>1, <2>2
<1> HIDE DEF At
<1>15. NewestFirst(L) \in [1..n -> S]
  BY <1>1, <1>6, <1>13
<1>16. ToSet(NewestFirst(L)) = ToSet(L)
  <2>1. \A k \in 1..n : NewestFirst(L)[k] = L[At(k)]
    BY <1>1, <1>6
  <2>2. DOMAIN NewestFirst(L) = 1..n
    BY <1>15
  <2> QED
    BY <1>1, <1>13, <1>14, <2>1, <2>2 DEF ToSet
<1> QED
  BY <1>1, <1>15, <1>16, ListsAreSequences DEF n

(* Where no version is older than its parent, the lineage is newest first:   *)
(* the first entry out of place would be older than the entry before it,    *)
(* whose parent it is.                                                     *)
LEMMA LineageInOrder ==
  ASSUME NEW stored, NEW hd, NEW L, IsLineage(L, stored, hd), InOrder(stored),
         \A v \in stored : v.stamp.at \in Int
  PROVE  \A i, j \in DOMAIN L : i < j => L[j].stamp.at =< L[i].stamp.at
<1>1. /\ DOMAIN L = 1..Len(L) /\ Len(L) \in Nat
      /\ \A i \in DOMAIN L : L[i] \in stored /\ L[i].stamp.at \in Int
  BY LenProperties, ElementOfSeq DEF IsLineage
<1> SUFFICES ASSUME NEW i \in DOMAIN L
             PROVE  \A j \in DOMAIN L : i < j => L[j].stamp.at =< L[i].stamp.at
  OBVIOUS
<1> DEFINE Wrong == {j \in DOMAIN L : i < j /\ ~(L[j].stamp.at =< L[i].stamp.at)}
<1> SUFFICES ASSUME Wrong # {} PROVE FALSE
  OBVIOUS
<1>2. Wrong \in SUBSET Nat
  BY <1>1
<1>3. PICK j \in Wrong : \A k \in Wrong : j =< k
  BY <1>2, LeastExists
<1>4. j \in DOMAIN L /\ i < j /\ ~(L[j].stamp.at =< L[i].stamp.at)
  OBVIOUS
<1>5. j - 1 \in DOMAIN L /\ j - 1 < Len(L) /\ (j - 1) + 1 = j /\ j - 1 \notin Wrong
  BY <1>1, <1>3, <1>4
<1>6. L[j - 1].stamp.at =< L[i].stamp.at
  BY <1>1, <1>4, <1>5
<1>7. L[j - 1].parents = {L[j]}
  BY <1>5 DEF IsLineage
<1>8. L[j].stamp.at =< L[j - 1].stamp.at
  BY <1>1, <1>5, <1>7 DEF InOrder
<1> QED
  BY <1>1, <1>4, <1>5, <1>6, <1>8

(* history() returns the list the invariant speaks of.                      *)
LEMMA HistoryListsTheLineage == ListInv => HistoryIsTheLineage
<1> SUFFICES ASSUME ListInv, NEW r \in Recipes
             PROVE  LET h == HistoryOf(r) IN
                    /\ ToSet(h) = versions[r] /\ Len(h) = Cardinality(versions[r])
                    /\ InOrder(versions[r]) =>
                         /\ h # <<>> => head[r] = {h[1]}
                         /\ \A i \in 1..(Len(h) - 1) : h[i].parents = {h[i + 1]}
  BY DEF HistoryIsTheLineage
<1>1. PICK L : IsLineage(L, versions[r], head[r])
  BY DEF ListInv, LineageIsListed
<1>2. L \in Seq(versions[r]) /\ Len(L) \in Nat /\ DOMAIN L = 1..Len(L)
  BY <1>1, LenProperties DEF IsLineage
<1>3. \A v \in versions[r] : v.stamp.at \in Int
  BY TimesAreOrdered DEF ListInv, LineageInv, StoreTypeOK
<1>4. HistoryOf(r) = NewestFirst(L)
  BY <1>1, WalkIsTheLineage DEF HistoryOf
<1>5. ToSet(L) = versions[r] /\ Len(L) = Cardinality(versions[r])
  <2>1. \A i \in DOMAIN L : L[i] \in versions[r]
    BY <1>2, ElementOfSeq
  <2>2. \A v \in versions[r] : \E i \in DOMAIN L : L[i] = v
    BY <1>1 DEF IsLineage
  <2>3. ToSet(L) = versions[r]
    BY <2>1, <2>2 DEF ToSet
  <2> QED
    BY <1>1, <2>3, LengthOfALineage
<1>6. ToSet(HistoryOf(r)) = versions[r] /\ Len(HistoryOf(r)) = Cardinality(versions[r])
  BY <1>2, <1>3, <1>4, <1>5, SortingPermutes
<1>7. ASSUME InOrder(versions[r])
      PROVE  /\ HistoryOf(r) # <<>> => head[r] = {HistoryOf(r)[1]}
             /\ \A i \in 1..(Len(HistoryOf(r)) - 1) : HistoryOf(r)[i].parents = {HistoryOf(r)[i + 1]}
  <2>1. \A i, j \in DOMAIN L : i < j => L[j].stamp.at =< L[i].stamp.at
    BY <1>1, <1>3, <1>7, LineageInOrder
  <2>2. HistoryOf(r) = L
    BY <1>2, <1>3, <1>4, <2>1, SortingTheSorted
  <2>3. L # <<>> => head[r] = {L[1]}
    BY <1>1 DEF IsLineage
  <2>4. \A i \in 1..(Len(L) - 1) : L[i].parents = {L[i + 1]}
    <3> SUFFICES ASSUME NEW i \in 1..(Len(L) - 1) PROVE L[i].parents = {L[i + 1]}
      OBVIOUS
    <3>1. i \in DOMAIN L /\ i < Len(L)
      BY <1>2
    <3> QED
      BY <1>1, <3>1 DEF IsLineage
  <2> QED
    BY <2>2, <2>3, <2>4
<1> QED
  BY <1>6, <1>7

LEMMA HistoryIsASequence ==
  ASSUME ListInv, NEW r \in Recipes PROVE HistoryOf(r) \in Seq(versions[r])
<1>1. PICK L : IsLineage(L, versions[r], head[r])
  BY DEF ListInv, LineageIsListed
<1>2. L \in Seq(versions[r]) /\ HistoryOf(r) = NewestFirst(L)
  BY <1>1, WalkIsTheLineage DEF HistoryOf, IsLineage
<1>3. \A v \in versions[r] : v.stamp.at \in Int
  BY TimesAreOrdered DEF ListInv, LineageInv, StoreTypeOK
<1> QED
  BY <1>2, <1>3, SortingPermutes

(* HistoryIsTheLineage: whatever times the commits carry, history() lists   *)
(* every version of a recipe exactly once; where no version is older than   *)
(* its parent, HEAD comes first and each entry is the parent of the one     *)
(* before.                                                                 *)
THEOREM HistoryIsComplete == StoreSpec => []HistoryIsTheLineage
<1>1. StoreInit => ListInv
  BY ListInit, LineageInit DEF ListInv
<1>2. ListInv /\ [StoreNext]_storeVars => ListInv'
  BY ListStep
<1> QED
  BY <1>1, <1>2, HistoryListsTheLineage, PTL DEF StoreSpec

=============================================================================
