--------------------------- MODULE Catalog_proofs ---------------------------
(***************************************************************************)
(* However commands, edits and deleted accounts interleave, a row of the    *)
(* catalog is a snapshot of its recipe (CatInv); a command nobody has        *)
(* interfered with is up to date, a rebuild as far as it has come            *)
(* (CleanInv).  Nothing is assumed of the times commits carry: where a      *)
(* version is older than its parent, the two say less (InOrder).            *)
(*                                                                         *)
(* A snapshot stays one while the store grows (SnapshotsStay), so what a     *)
(* command has read and what it has pending are as good as rows; a lineage   *)
(* that is complete is a snapshot of itself (HistoryIsASnapshot), because    *)
(* HEAD is its only leaf and commits give a version one parent.             *)
(*                                                                         *)
(* Locks (held) only delay and abort commands: no proof depends on them.    *)
(***************************************************************************)
EXTENDS Catalog, RecipeStore_proofs

Single ==
  \A r \in Recipes : /\ \A x, y \in head[r] : x = y
                     /\ \A v \in versions[r] : \A x, y \in v.parents : x = y

StoreInv == LineageInv /\ Single

(* vs, with its tip, among the versions that are stored.                    *)
IsSnapshot(stored, tip, vs) ==
  /\ vs \subseteq stored /\ tip \in vs
  /\ \A v \in vs : v.parents \subseteq vs
  /\ InOrder(vs) => \A v \in vs : v = tip <=> ~\E u \in vs : v \in u.parents

Fields == {"kind", "step", "todo", "owner", "history", "slug", "known", "left", "listed",
           "wiped", "pending", "held"}

(* The steps of reindex --full before it writes, of project_recipe once it   *)
(* has read the history, and the ones before the transaction can commit.     *)
Deleting   == {"clear", "cascade", "delete", "list"}
HasRead    == {"slug", "lock", "row", "versions"}
Projecting == HasRead \cup {"read"}

(* A table of rows, and a command, over a store vers with the heads hd.     *)
RowsHold(table, vers) ==
  \A r \in DOMAIN table : r \in Recipes /\ IsSnapshot(vers[r], table[r].head, table[r].versions)

StepsOf ==
  {<<"none", "none">>, <<"seed", "store">>, <<"full", "owner">>}
    \cup ({"full"} \X Deleting) \cup ({"seed", "one", "full"} \X Projecting)
    \cup ({"seed", "one"} \X {"commit"})

JobHolds(j, vers, hd) ==
  /\ DOMAIN j = Fields
  /\ <<j.kind, j.step>> \in StepsOf
  /\ j.todo \subseteq Recipes
  /\ j.kind = "seed" => j.todo \subseteq DOMAIN Corpus
  /\ j.kind = "one" => \E r : j.todo = IF j.step = "commit" THEN {} ELSE {r}
  /\ j.kind = "full" => \A r \in j.todo : hd[r] # {}
  /\ j.step \in Projecting \cup {"store"} => j.todo # {}
  /\ j.step = "read" => hd[First(j.todo)] # {}
  /\ j.step \in HasRead => IsSnapshot(vers[First(j.todo)], j.history[1], ToSet(j.history))
  /\ j.step = "store" => j.pending = NoRows
  /\ RowsHold(j.pending, vers)

CatInv ==
  /\ StoreInv
  /\ RowsHold(rows, versions)
  /\ \A r \in DOMAIN rows : rows[r].owner \in users
  /\ DOMAIN job = Jobs
  /\ \A p \in Jobs : JobHolds(job[p], versions, head)

(* A row, and what has been read of a history, nobody has touched since.     *)
IsFresh(tip, vs, r, vers, hd) == vs = vers[r] /\ (InOrder(vers[r]) => tip \in hd[r])

(* A rebuild nobody has interfered with: it deletes every row there is ...   *)
Deletes(j, us, table) ==
  /\ DOMAIN j.pending = {}
  /\ j.step \in {"clear", "cascade"} => j.wiped = {}
  /\ j.step = "cascade" => j.listed = DOMAIN table
  /\ j.step = "delete" => j.wiped \cup j.left = DOMAIN table
  /\ j.step = "list" => j.wiped = DOMAIN table /\ j.known = us

(* ... has done the recipes before those it has to do, and written what the  *)
(* catalog ought to hold of them.                                          *)
Writes(j, hd, us, table, image) ==
  /\ j.known = us /\ j.wiped = DOMAIN table
  /\ \A q \in j.todo, r \in Recipes \ j.todo : hd[r] # {} => Position(r) < Position(q)
  /\ DOMAIN j.pending = DOMAIN image \ j.todo
  /\ \A r \in DOMAIN j.pending : j.pending[r] = image[r]
  /\ j.step \in Projecting =>
       First(j.todo) \in DOMAIN image /\ j.owner = image[First(j.todo)].owner
  /\ j.step \in HasRead \ {"slug"} => j.slug = image[First(j.todo)].slug

OnTrack(j, hd, us, table, image) ==
  IF j.step \in Deleting THEN Deletes(j, us, table) ELSE Writes(j, hd, us, table, image)

(* What holds of a command as long as nobody else has written anything.     *)
AllInOrder(vers) == \A r \in Recipes : InOrder(vers[r])

CleanJob(j, vers, hd, us, table, image) ==
  /\ j.step \in HasRead => IsFresh(j.history[1], ToSet(j.history), First(j.todo), vers, hd)
  /\ \A r \in DOMAIN j.pending : IsFresh(j.pending[r].head, j.pending[r].versions, r, vers, hd)
  /\ j.kind = "full" /\ AllInOrder(vers) => OnTrack(j, hd, us, table, image)

CleanInv ==
  /\ clean \in [Jobs -> BOOLEAN]
  /\ \A p \in Jobs : clean[p] => CleanJob(job[p], versions, head, users, rows, Image)

Inv == CatInv /\ CleanInv

-----------------------------------------------------------------------------
(* A recipe is listed where its position says, so no two share one.         *)
LEMMA Positions == \A r \in Recipes : Position(r) \in Nat /\ Ids[Position(r)] = r
<1> SUFFICES ASSUME NEW r \in Recipes PROVE Position(r) \in Nat /\ Ids[Position(r)] = r
  OBVIOUS
<1>1. Ids \in Seq(Recipes)
  BY IdsListRecipes
<1>2. r \in ToSet(Ids)
  BY IdsListRecipes
<1>3. \E i \in DOMAIN Ids : Ids[i] = r
  BY <1>2 DEF ToSet
<1>4. Position(r) \in DOMAIN Ids /\ Ids[Position(r)] = r
  BY <1>3 DEF Position
<1> QED
  BY <1>1, <1>4

(* First takes the recipe with the least position.                          *)
LEMMA FirstComesFirst ==
  ASSUME NEW S \in SUBSET Recipes, S # {}
  PROVE  First(S) \in S /\ \A q \in S \ {First(S)} : Position(First(S)) < Position(q)
<1> DEFINE T == {Position(r) : r \in S}
<1>1. \E x \in T : \A y \in T : x =< y
  <2>1. T \in SUBSET Nat /\ T # {}
    BY Positions
  <2> HIDE DEF T
  <2> QED
    BY <2>1, LeastExists
<1>2. \E r \in S : \A q \in S : Position(r) =< Position(q)
  BY <1>1
<1>3. First(S) \in S /\ \A q \in S : Position(First(S)) =< Position(q)
  BY <1>2 DEF First
<1>4. ASSUME NEW q \in S \ {First(S)} PROVE Position(First(S)) < Position(q)
  <2>1. Position(First(S)) # Position(q)
    BY <1>3, Positions
  <2> QED
    BY <1>3, <2>1, Positions
<1> QED
  BY <1>3, <1>4

(* There is a first recipe of those a command has to do.                    *)
LEMMA FirstIsOne == ASSUME NEW S \in SUBSET Recipes, S # {} PROVE First(S) \in S
BY FirstComesFirst

LEMMA StoreInvInit == StoreInit => StoreInv
<1>1. StoreInit => Single
  BY DEF StoreInit, Single
<1> QED
  BY <1>1, LineageInit DEF StoreInv

(* What a commit does to the store, as far as the catalog depends on it.    *)
LEMMA StoreGrows ==
  ASSUME StoreInv,
         \/ UNCHANGED storeVars
         \/ \E r \in Recipes, c \in Contents, s \in Stamps : CommitVersion(r, c, s)
  PROVE  /\ StoreInv'
         /\ \A r \in Recipes : versions[r] \subseteq versions'[r] /\ (head[r] # {} => head'[r] # {})
<1>1. CASE UNCHANGED storeVars
  <2>1. LineageInv'
    BY <1>1, UnchangedPreservesLineage DEF StoreInv
  <2> QED
    BY <1>1, <2>1 DEF StoreInv, Single, storeVars
<1>2. ASSUME NEW r \in Recipes, NEW c \in Contents, NEW s \in Stamps, CommitVersion(r, c, s)
      PROVE  /\ StoreInv'
             /\ \A q \in Recipes : versions[q] \subseteq versions'[q] /\ (head[q] # {} => head'[q] # {})
  <2> DEFINE new == Version(c, head[r], s)
  <2>1. LineageInv'
    BY <1>2, CommitPreservesLineage DEF StoreInv
  <2>2. new.parents = head[r]
    BY VersionFields
  <2>3. /\ versions'[r] = versions[r] \cup {new} /\ head'[r] = {new}
        /\ \A q \in Recipes \ {r} : versions'[q] = versions[q] /\ head'[q] = head[q]
    BY <1>2 DEF CommitVersion, StoreInv, LineageInv, StoreTypeOK
  <2> HIDE DEF new
  <2>4. Single'
    <3> SUFFICES ASSUME NEW q \in Recipes
                 PROVE  /\ \A x, y \in head'[q] : x = y
                        /\ \A v \in versions'[q] : \A x, y \in v.parents : x = y
      BY DEF Single
    <3>1. CASE q = r
      BY <2>2, <2>3, <3>1 DEF StoreInv, Single
    <3>2. CASE q # r
      BY <2>3, <3>2 DEF StoreInv, Single
    <3> QED
      BY <3>1, <3>2
  <2>5. ASSUME NEW q \in Recipes
        PROVE  versions[q] \subseteq versions'[q] /\ (head[q] # {} => head'[q] # {})
    BY <2>3
  <2> QED
    BY <2>1, <2>4, <2>5 DEF StoreInv
<1> QED
  BY <1>1, <1>2

(* A complete lineage is a snapshot of itself.                              *)
LEMMA HistoryIsASnapshot ==
  ASSUME StoreInv, ListInv, NEW r \in Recipes, head[r] # {}
  PROVE  LET h == HistoryOf(r) IN
         /\ IsSnapshot(versions[r], h[1], ToSet(h))
         /\ IsFresh(h[1], ToSet(h), r, versions, head)
<1> DEFINE h == HistoryOf(r)
<1>1. /\ ToSet(h) = versions[r] /\ h \in Seq(versions[r])
      /\ InOrder(versions[r]) => (h # <<>> => head[r] = {h[1]})
  BY HistoryListsTheLineage, HistoryIsASequence DEF HistoryIsTheLineage
<1> HIDE DEF h
<1>2. /\ head[r] \subseteq versions[r] /\ \A v \in versions[r] : v.parents \subseteq versions[r]
  BY DEF StoreInv, LineageInv, LineageClosed
<1>3. h # <<>> /\ h[1] \in versions[r]
  <2>1. ToSet(h) # {}
    BY <1>1, <1>2
  <2>2. h # <<>>
    BY <2>1 DEF ToSet
  <2>3. 1 \in DOMAIN h
    BY <1>1, <2>2, EmptySeq, LenProperties
  <2> QED
    BY <1>1, <2>2, <2>3, ElementOfSeq
<1>4. ASSUME InOrder(versions[r]), NEW v \in versions[r]
      PROVE  v = h[1] <=> ~\E u \in versions[r] : v \in u.parents
  <2>1. head[r] = {h[1]}
    BY <1>1, <1>3, <1>4
  <2>2. ASSUME v = h[1], NEW u \in versions[r], v \in u.parents PROVE FALSE
    <3>1. u.parents = {v}
      BY <2>2 DEF StoreInv, Single
    <3>2. u.parents = head[r]
      BY <2>1, <2>2, <3>1
    <3> QED
      BY <2>2, <3>2 DEF StoreInv, LineageInv, HeadIsALeaf
  <2>3. v = h[1] \/ \E u \in versions[r] : v \in u.parents
    BY <2>1 DEF StoreInv, LineageInv, OnlyHeadIsALeaf
  <2> QED
    BY <2>2, <2>3
<1>5. IsSnapshot(versions[r], h[1], ToSet(h))
  BY <1>1, <1>2, <1>3, <1>4 DEF IsSnapshot
<1>6. IsFresh(h[1], ToSet(h), r, versions, head)
  BY <1>1, <1>3 DEF IsFresh
<1> QED
  BY <1>5, <1>6 DEF h

(* As the store grows, snapshots stay snapshots.                            *)
LEMMA SnapshotsStay ==
  ASSUME NEW vers, NEW hd, NEW more, NEW later,
         \A r \in Recipes : vers[r] \subseteq more[r] /\ (hd[r] # {} => later[r] # {})
  PROVE  /\ \A table : RowsHold(table, vers) => RowsHold(table, more)
         /\ \A j : JobHolds(j, vers, hd) => JobHolds(j, more, later)
<1>1. ASSUME NEW r \in Recipes, NEW tip, NEW vs, IsSnapshot(vers[r], tip, vs)
      PROVE  IsSnapshot(more[r], tip, vs)
  BY <1>1 DEF IsSnapshot
<1>2. ASSUME NEW table, RowsHold(table, vers) PROVE RowsHold(table, more)
  BY <1>1, <1>2 DEF RowsHold
<1>3. ASSUME NEW j, JobHolds(j, vers, hd) PROVE JobHolds(j, more, later)
  <2>1. j.todo # {} => First(j.todo) \in Recipes
    BY <1>3, FirstIsOne DEF JobHolds
  <2>2. RowsHold(j.pending, more)
    BY <1>2, <1>3 DEF JobHolds
  <2>3. j.kind = "full" => \A r \in j.todo : later[r] # {}
    BY <1>3 DEF JobHolds
  <2>4. j.step \in Projecting => First(j.todo) \in Recipes
    BY <1>3, <2>1 DEF JobHolds
  <2>5. j.step = "read" => later[First(j.todo)] # {}
    BY <1>3, <2>4 DEF JobHolds, Projecting
  <2>6. j.step \in HasRead => IsSnapshot(more[First(j.todo)], j.history[1], ToSet(j.history))
    BY <1>1, <1>3, <2>4 DEF JobHolds, Projecting
  <2> QED
    BY <1>3, <2>2, <2>3, <2>5, <2>6 DEF JobHolds
<1> QED
  BY <1>2, <1>3

-----------------------------------------------------------------------------
LEMMA IdleHolds ==
  /\ \A vers : RowsHold(NoRows, vers)
  /\ \A vers, hd : JobHolds(NoJob, vers, hd)
  /\ \A vers, hd, us, table, image : CleanJob(NoJob, vers, hd, us, table, image)
<1>1. \A vers : RowsHold(NoRows, vers)
  BY DEF RowsHold, NoRows
<1>2. /\ DOMAIN NoJob = Fields /\ NoJob.kind = "none" /\ NoJob.step = "none"
      /\ NoJob.todo = {} /\ NoJob.pending = NoRows /\ DOMAIN NoRows = {}
  BY DEF NoJob, Fields, NoRows
<1>3. \A vers, hd : JobHolds(NoJob, vers, hd)
  BY <1>1, <1>2, Zenon DEF JobHolds, StepsOf, Projecting, HasRead
<1>4. \A vers, hd, us, table, image : CleanJob(NoJob, vers, hd, us, table, image)
  BY <1>2, Zenon DEF CleanJob, HasRead
<1> QED
  BY <1>1, <1>3, <1>4

LEMMA InvInit == Init => Inv
<1> SUFFICES ASSUME Init PROVE Inv
  OBVIOUS
<1>1. \A p \in Jobs : job[p] = NoJob
  BY DEF Init
<1>2. CatInv
  BY <1>1, IdleHolds, StoreInvInit DEF Init, CatInv, NoRows
<1>3. CleanInv
  BY <1>1, IdleHolds DEF Init, CleanInv
<1> QED
  BY <1>2, <1>3 DEF Inv

(* What no step of a command or of the environment undoes.                  *)
LEMMA GrowthKeeps ==
  ASSUME CatInv,
         \/ UNCHANGED storeVars
         \/ \E r \in Recipes, c \in Contents, s \in Stamps : CommitVersion(r, c, s)
  PROVE  /\ StoreInv' /\ RowsHold(rows, versions')
         /\ \A q \in Jobs : JobHolds(job[q], versions', head')
<1>1. /\ StoreInv'
      /\ \A r \in Recipes : versions[r] \subseteq versions'[r] /\ (head[r] # {} => head'[r] # {})
  BY StoreGrows DEF CatInv
<1>2. /\ \A table : RowsHold(table, versions) => RowsHold(table, versions')
      /\ \A j : JobHolds(j, versions, head) => JobHolds(j, versions', head')
  BY <1>1, SnapshotsStay
<1> QED
  BY <1>1, <1>2 DEF CatInv

(* The image depends on the store and the accounts alone.                   *)
LEMMA ImageStays ==
  ASSUME versions' = versions, head' = head, users' = users PROVE Image' = Image
<1>1. ASSUME NEW r PROVE HeadOf(r)' = HeadOf(r)
  BY DEF HeadOf
<1>2. Projectable' = Projectable
  BY DEF Projectable, HeadOf
<1>3. ASSUME NEW r PROVE Title(r)' = Title(r)
  BY DEF Title, HeadOf
<1> QED
  BY <1>2 DEF Image, Title, HeadOf

(* A step of one command: it disturbs the others, or leaves what they have   *)
(* read.                                                                   *)
LEMMA JobSteps ==
  ASSUME Inv, NEW p \in Jobs, NEW j, job' = [job EXCEPT ![p] = j],
         \/ UNCHANGED storeVars
         \/ \E r \in Recipes, c \in Contents, s \in Stamps : CommitVersion(r, c, s),
         RowsHold(rows', versions'), \A r \in DOMAIN rows' : rows'[r].owner \in users',
         JobHolds(j, versions', head'),
         clean' \in [Jobs -> BOOLEAN],
         \A q \in Jobs \ {p} : clean'[q] => clean[q],
         (\E q \in Jobs \ {p} : clean'[q]) => UNCHANGED <<versions, head, users, rows>>,
         clean'[p] => CleanJob(j, versions', head', users', rows', Image')
  PROVE  Inv'
<1>1. /\ StoreInv' /\ \A q \in Jobs : JobHolds(job[q], versions', head')
  BY GrowthKeeps DEF Inv
<1>2. DOMAIN job' = Jobs /\ \A q \in Jobs : job'[q] = IF q = p THEN j ELSE job[q]
  BY DEF Inv, CatInv
<1>3. \A q \in Jobs : JobHolds(job'[q], versions', head')
  BY <1>1, <1>2
<1>4. CatInv'
  BY <1>1, <1>2, <1>3 DEF CatInv
<1>5. ASSUME NEW q \in Jobs, clean'[q]
      PROVE  CleanJob(job'[q], versions', head', users', rows', Image')
  <2>1. CASE q = p
    BY <1>2, <1>5, <2>1
  <2>2. CASE q # p
    <3>1. clean[q] /\ UNCHANGED <<versions, head, users, rows>>
      BY <1>5, <2>2
    <3>2. Image' = Image
      BY <3>1, ImageStays
    <3>3. CleanJob(job[q], versions, head, users, rows, Image)
      BY <3>1 DEF Inv, CleanInv
    <3> QED
      BY <1>2, <2>2, <3>1, <3>2, <3>3
  <2> QED
    BY <2>1, <2>2
<1>6. CleanInv'
  BY <1>5 DEF CleanInv
<1> QED
  BY <1>4, <1>6 DEF Inv

(* A step that only moves the command p on.                                 *)
LEMMA Moves ==
  ASSUME Inv, NEW p \in Jobs, NEW j, Move(p, j), JobHolds(j, versions, head),
         clean[p] => CleanJob(j, versions, head, users, rows, Image)
  PROVE  Inv'
<1>1. /\ job' = [job EXCEPT ![p] = j] /\ UNCHANGED storeVars
      /\ versions' = versions /\ head' = head /\ rows' = rows /\ users' = users /\ clean' = clean
  BY DEF Move, storeVars
<1>2. Image' = Image
  BY <1>1, ImageStays
<1>3. RowsHold(rows', versions') /\ \A r \in DOMAIN rows' : rows'[r].owner \in users'
  BY <1>1 DEF Inv, CatInv
<1>4. clean' \in [Jobs -> BOOLEAN] /\ \A q \in Jobs : clean'[q] => clean[q]
  BY <1>1 DEF Inv, CleanInv
<1> QED
  BY <1>1, <1>2, <1>3, <1>4, JobSteps

(* A command that raises leaves nothing but what it committed before.       *)
LEMMA Fails == ASSUME Inv, NEW p \in Jobs, Fail(p) PROVE Inv'
<1>1. Move(p, NoJob)
  BY DEF Fail, Move
<1> QED
  BY <1>1, IdleHolds, Moves

(* A command that has read nothing yet starts.                              *)
LEMMA Starts ==
  ASSUME Inv, NEW p \in Jobs, NEW j, Start(p, j), JobHolds(j, versions, head),
         UNCHANGED <<versions, head, rows>>, users \subseteq users',
         clean' \in [Jobs -> BOOLEAN],
         \A q \in Jobs \ {p} : clean'[q] => clean[q] /\ users' = users,
         clean'[p] => CleanJob(j, versions', head', users', rows', Image')
  PROVE  Inv'
<1>1. job' = [job EXCEPT ![p] = j] /\ UNCHANGED storeVars
  BY DEF Start, storeVars
<1>2. RowsHold(rows', versions') /\ \A r \in DOMAIN rows' : rows'[r].owner \in users'
  BY DEF Inv, CatInv
<1> QED
  BY <1>1, <1>2, JobSteps

-----------------------------------------------------------------------------
LEMMA EditHolds ==
  ASSUME Inv, NEW r \in Recipes, NEW e \in Edits[r], Edit(r, e[1], e[2]) PROVE Inv'
<1>1. e[1] \in Contents /\ e[2] \in Stamps
  BY EditsAreCommits
<1>2. /\ CommitVersion(r, e[1], e[2]) /\ rows' = rows /\ users' = users /\ job' = job
      /\ clean' = [q \in Jobs |-> FALSE]
  BY DEF Edit
<1>3. /\ StoreInv' /\ RowsHold(rows, versions')
      /\ \A q \in Jobs : JobHolds(job[q], versions', head')
  BY <1>1, <1>2, GrowthKeeps DEF Inv
<1>4. CatInv'
  BY <1>2, <1>3 DEF Inv, CatInv
<1>5. CleanInv'
  BY <1>2 DEF CleanInv
<1> QED
  BY <1>4, <1>5 DEF Inv

LEMMA DeleteHolds == ASSUME Inv, NEW u \in users, DeleteAccount(u) PROVE Inv'
<1> DEFINE kept == DOMAIN rows \ {q \in DOMAIN rows : rows[q].owner = u}
<1>1. /\ users' = users \ {u} /\ rows' = [q \in kept |-> rows[q]]
      /\ job' = job /\ UNCHANGED storeVars /\ clean' = [q \in Jobs |-> FALSE]
  BY DEF DeleteAccount, storeVars
<1>2. /\ StoreInv' /\ RowsHold(rows, versions')
      /\ \A q \in Jobs : JobHolds(job[q], versions', head')
  BY <1>1, GrowthKeeps DEF Inv
<1>3. RowsHold(rows', versions')
  BY <1>1, <1>2 DEF RowsHold
<1>4. \A q \in DOMAIN rows' : rows'[q].owner \in users'
  BY <1>1 DEF Inv, CatInv
<1>5. CatInv'
  BY <1>1, <1>2, <1>3, <1>4 DEF Inv, CatInv
<1>6. CleanInv'
  BY <1>1 DEF CleanInv
<1> QED
  BY <1>5, <1>6 DEF Inv

LEMMA StartSeedHolds == ASSUME Inv, NEW p \in Jobs, StartSeed(p) PROVE Inv'
<1> DEFINE j == [NoJob EXCEPT !.kind = "seed", !.step = "store", !.owner = SeedStamp.author,
                              !.todo = DOMAIN Corpus]
<1>1. /\ Start(p, j) /\ UNCHANGED <<versions, head, rows>>
      /\ users' = users \cup {SeedStamp.author}
      /\ clean' = [q \in Jobs |-> clean[q] /\ SeedStamp.author \in users]
  BY DEF StartSeed
<1>2. /\ DOMAIN j = Fields /\ j.kind = "seed" /\ j.step = "store"
      /\ j.todo = DOMAIN Corpus /\ j.pending = NoRows
  BY DEF NoJob, Fields
<1> HIDE DEF j
<1>3. JobHolds(j, versions, head)
  BY <1>2, IdleHolds, CorpusIsSeeded DEF JobHolds, StepsOf, Projecting, HasRead
<1>4. CleanJob(j, versions', head', users', rows', Image')
  BY <1>2 DEF CleanJob, HasRead, NoRows
<1>5. clean' \in [Jobs -> BOOLEAN] /\ \A q \in Jobs : clean'[q] => clean[q] /\ users' = users
  BY <1>1 DEF Inv, CleanInv
<1>6. users \subseteq users'
  BY <1>1
<1> QED
  BY <1>1, <1>3, <1>4, <1>5, <1>6, Starts

LEMMA StartOneHolds ==
  ASSUME Inv, NEW p \in Jobs, NEW r \in Recipes, StartReindexOne(p, r) PROVE Inv'
<1>1. PICK v \in head[r] :
        Start(p, [NoJob EXCEPT !.kind = "one", !.step = "read", !.todo = {r},
                               !.owner = v.stamp.author])
  BY DEF StartReindexOne
<1> DEFINE j == [NoJob EXCEPT !.kind = "one", !.step = "read", !.todo = {r},
                              !.owner = v.stamp.author]
<1>2. /\ Start(p, j) /\ UNCHANGED <<versions, head, rows>> /\ users' = users
      /\ clean' = [clean EXCEPT ![p] = TRUE]
  BY <1>1 DEF StartReindexOne
<1>3. /\ DOMAIN j = Fields /\ j.kind = "one" /\ j.step = "read"
      /\ j.todo = {r} /\ j.pending = NoRows
  BY DEF NoJob, Fields
<1> HIDE DEF j
<1>4. First(j.todo) = r
  BY <1>3, FirstIsOne
<1>5. JobHolds(j, versions, head)
  BY <1>1, <1>3, <1>4, IdleHolds DEF JobHolds, StepsOf, Projecting, HasRead
<1>6. CleanJob(j, versions', head', users', rows', Image')
  BY <1>3 DEF CleanJob, HasRead, NoRows
<1>7. clean' \in [Jobs -> BOOLEAN] /\ \A q \in Jobs \ {p} : clean'[q] => clean[q]
  BY <1>2 DEF Inv, CleanInv
<1> QED
  BY <1>2, <1>5, <1>6, <1>7, Starts

LEMMA StartFullHolds == ASSUME Inv, NEW p \in Jobs, StartReindexFull(p) PROVE Inv'
<1> DEFINE j == [NoJob EXCEPT !.kind = "full", !.step = "clear", !.left = DOMAIN rows]
<1>1. /\ Start(p, j) /\ UNCHANGED <<versions, head, rows>> /\ users' = users
      /\ clean' = [clean EXCEPT ![p] = TRUE]
  BY DEF StartReindexFull
<1>2. /\ DOMAIN j = Fields /\ j.kind = "full" /\ j.step = "clear"
      /\ j.todo = {} /\ j.pending = NoRows /\ j.wiped = {}
  BY DEF NoJob, Fields
<1> HIDE DEF j
<1>3. JobHolds(j, versions, head)
  BY <1>2, IdleHolds DEF JobHolds, StepsOf, Projecting, HasRead, Deleting
<1>4. CleanJob(j, versions', head', users', rows', Image')
  BY <1>2 DEF CleanJob, OnTrack, Deletes, HasRead, Deleting, NoRows
<1>5. clean' \in [Jobs -> BOOLEAN] /\ \A q \in Jobs \ {p} : clean'[q] => clean[q]
  BY <1>1 DEF Inv, CleanInv
<1> QED
  BY <1>1, <1>3, <1>4, <1>5, Starts

LEMMA SeedCommitHolds == ASSUME Inv, NEW p \in Jobs, SeedCommit(p) PROVE Inv'
<1> DEFINE old == job[p]
           j == [old EXCEPT !.step = "read"]
           r == First(old.todo)
<1>1. JobHolds(old, versions, head) /\ old.step = "store"
  BY DEF Inv, CatInv, SeedCommit
<1>2. r \in DOMAIN Corpus /\ r \in Recipes /\ Corpus[r] \in Contents /\ old.kind = "seed"
  BY <1>1, FirstIsOne, CorpusIsSeeded DEF JobHolds, StepsOf, Projecting, HasRead, Deleting
<1>3. /\ job' = [job EXCEPT ![p] = j] /\ rows' = rows /\ users' = users
      /\ \/ CommitNoOp(r, Corpus[r]) /\ clean' = [clean EXCEPT ![p] = TRUE]
         \/ CommitVersion(r, Corpus[r], SeedStamp) /\ clean' = [q \in Jobs |-> q = p]
  BY DEF SeedCommit
<1>4. /\ \/ UNCHANGED storeVars
         \/ \E q \in Recipes, c \in Contents, s \in Stamps : CommitVersion(q, c, s)
      /\ head'[r] # {}
      /\ clean' \in [Jobs -> BOOLEAN] /\ \A q \in Jobs \ {p} : clean'[q] => clean[q]
      /\ (\E q \in Jobs \ {p} : clean'[q]) => UNCHANGED storeVars
  <2>1. CASE CommitNoOp(r, Corpus[r]) /\ clean' = [clean EXCEPT ![p] = TRUE]
    BY <2>1 DEF CommitNoOp, Unchanged, storeVars, Inv, CleanInv
  <2>2. CASE CommitVersion(r, Corpus[r], SeedStamp) /\ clean' = [q \in Jobs |-> q = p]
    <3>1. head'[r] # {}
      BY <1>2, <2>2 DEF CommitVersion, Inv, CatInv, StoreInv, LineageInv, StoreTypeOK
    <3> QED
      BY <1>2, <2>2, <3>1, CorpusIsSeeded
  <2> QED
    BY <1>3, <2>1, <2>2
<1>5. JobHolds(old, versions', head') /\ RowsHold(rows', versions')
  BY <1>3, <1>4, GrowthKeeps DEF Inv
<1>6. /\ DOMAIN j = Fields /\ j.step = "read"
      /\ j.kind = old.kind /\ j.todo = old.todo /\ j.pending = old.pending
  BY <1>1 DEF JobHolds, Fields
<1> HIDE DEF j, old
<1>7. JobHolds(j, versions', head')
  BY <1>1, <1>2, <1>4, <1>5, <1>6 DEF JobHolds, StepsOf, Projecting, HasRead, r
<1>8. CleanJob(j, versions', head', users', rows', Image')
  BY <1>1, <1>2, <1>6 DEF JobHolds, CleanJob, HasRead, NoRows
<1>9. \A q \in DOMAIN rows' : rows'[q].owner \in users'
  BY <1>3 DEF Inv, CatInv
<1>10. (\E q \in Jobs \ {p} : clean'[q]) => UNCHANGED <<versions, head, users, rows>>
  BY <1>3, <1>4 DEF storeVars
<1> QED
  BY <1>3, <1>4, <1>5, <1>7, <1>8, <1>9, <1>10, JobSteps

-----------------------------------------------------------------------------
(* project_recipe, up to its last statement: what it has read and chosen.   *)
LEMMA ReadHistoryHolds ==
  ASSUME Inv, ListInv, NEW p \in Jobs, ReadHistory(p) PROVE Inv'
<1> DEFINE old == job[p]
           r == First(old.todo)
           h == HistoryOf(r)
           j == [old EXCEPT !.history = h, !.step = "slug"]
<1>1. JobHolds(old, versions, head) /\ old.step = "read"
  BY DEF Inv, CatInv, ReadHistory
<1>2. r \in Recipes /\ head[r] # {}
  BY <1>1, FirstIsOne DEF JobHolds, Projecting
<1>3. IsSnapshot(versions[r], h[1], ToSet(h)) /\ IsFresh(h[1], ToSet(h), r, versions, head)
  BY <1>2, HistoryIsASnapshot DEF Inv, CatInv
<1>4. Move(p, j)
  BY DEF ReadHistory, HistoryOf
<1> HIDE DEF h
<1>5. /\ DOMAIN j = Fields /\ j.step = "slug" /\ j.history = h
      /\ \A f \in Fields \ {"step", "history"} : j[f] = old[f]
  BY <1>1 DEF JobHolds, Fields
<1>6. /\ j.kind = old.kind /\ j.todo = old.todo /\ j.pending = old.pending
      /\ j.known = old.known /\ j.wiped = old.wiped /\ j.owner = old.owner
  BY <1>5 DEF Fields
<1> HIDE DEF j, old
<1>7. JobHolds(j, versions, head)
  BY <1>1, <1>3, <1>5, <1>6 DEF JobHolds, StepsOf, Projecting, HasRead, Deleting, r
<1>8. ASSUME clean[p] PROVE CleanJob(j, versions, head, users, rows, Image)
  <2>1. CleanJob(old, versions, head, users, rows, Image)
    BY <1>8 DEF Inv, CleanInv, old
  <2>2. ASSUME j.kind = "full", AllInOrder(versions) PROVE OnTrack(j, head, users, rows, Image)
    <3>1. Writes(old, head, users, rows, Image)
      BY <1>1, <1>6, <2>1, <2>2 DEF CleanJob, OnTrack, Deleting
    <3>2. Writes(j, head, users, rows, Image)
      BY <1>1, <1>5, <1>6, <3>1 DEF Writes, Projecting, HasRead
    <3> QED
      BY <1>5, <3>2 DEF OnTrack, Deleting
  <2> QED
    BY <1>3, <1>5, <1>6, <2>1, <2>2 DEF CleanJob, r
<1> QED
  BY <1>4, <1>7, <1>8, Moves

(* The rows of the image.                                                  *)
LEMMA ImageFields ==
  /\ DOMAIN Image = Projectable
  /\ \A r \in Projectable :
       /\ Image[r] = [slug |-> Image[r].slug, owner |-> HeadOf(r).stamp.author,
                      head |-> HeadOf(r), versions |-> versions[r]]
       /\ Image[r].owner = HeadOf(r).stamp.author
       /\ Image[r].slug = IF \E q \in Projectable : Position(q) < Position(r) /\ Title(q) = Title(r)
                          THEN <<Title(r), SuffixOf[r]>> ELSE <<Title(r)>>
BY DEF Image

(* The slug a rebuild finds for the next recipe: another recipe it has      *)
(* written holds the plain title exactly if one that comes before has it.   *)
LEMMA SlugOfTheNext ==
  ASSUME NEW todo \in SUBSET Recipes, NEW r \in todo, NEW done, r \in Projectable,
         \A q \in todo \ {r} : Position(r) < Position(q),
         \A o \in Recipes \ todo : head[o] # {} => Position(o) < Position(r),
         DOMAIN done = Projectable \ todo,
         \A o \in DOMAIN done : done[o] = Image[o]
  PROVE  UniqueSlug(r, HeadOf(r).content, done) = Image[r].slug
<1> DEFINE Before(o) == Position(o) < Position(r) /\ Title(o) = Title(r)
<1>1. ASSUME NEW o \in DOMAIN done \ {r}, done[o].slug = <<Title(r)>>
      PROVE  o \in Projectable /\ Before(o)
  <2>1. o \in Projectable /\ o \in Recipes \ todo /\ head[o] # {}
    BY <1>1 DEF Projectable
  <2>2. Image[o].slug = <<Title(r)>>
    BY <1>1
  <2>3. Image[o].slug \in {<<Title(o), SuffixOf[o]>>, <<Title(o)>>}
    BY <2>1, ImageFields
  <2>4. Title(o) = Title(r)
    <3>1. <<Title(o), SuffixOf[o]>> # <<Title(r)>>
      <4>1. Len(<<Title(o), SuffixOf[o]>>) = 2 /\ Len(<<Title(r)>>) = 1
        OBVIOUS
      <4> QED
        BY <4>1
    <3> QED
      BY <2>2, <2>3, <3>1
  <2> QED
    BY <2>1, <2>4
<1>2. ASSUME NEW q \in Projectable, Before(q)
      PROVE  \E o \in DOMAIN done \ {r} : done[o].slug = <<Title(r)>>
  <2> DEFINE S == {o \in Projectable : Before(o)}
  <2>1. S \in SUBSET Recipes /\ S # {}
    BY <1>2 DEF Projectable
  <2> DEFINE o == First(S)
  <2>2. o \in S /\ \A x \in S \ {o} : Position(o) < Position(x)
    BY <2>1, FirstComesFirst
  <2>3. o \in Projectable /\ Position(o) < Position(r) /\ Title(o) = Title(r)
    BY <2>2
  <2>4. o \in Recipes /\ Position(o) \in Nat /\ Position(r) \in Nat
    BY <2>3, Positions DEF Projectable
  <2>5. o \notin todo /\ o # r
    BY <2>3, <2>4
  <2>6. ~\E x \in Projectable : Position(x) < Position(o) /\ Title(x) = Title(o)
    <3> SUFFICES ASSUME NEW x \in Projectable, Position(x) < Position(o), Title(x) = Title(o)
                 PROVE  FALSE
      OBVIOUS
    <3>1. Position(x) \in Nat
      BY Positions DEF Projectable
    <3>2. x \in S
      BY <2>3, <2>4, <3>1
    <3>3. Position(o) < Position(x) \/ x = o
      BY <2>2, <3>2
    <3> QED
      BY <2>4, <3>1, <3>3
  <2> HIDE DEF o, S
  <2>7. Image[o].slug = <<Title(r)>>
    BY <2>3, <2>6, ImageFields
  <2>8. o \in DOMAIN done \ {r}
    BY <2>3, <2>5
  <2>9. done[o] = Image[o]
    BY <2>8
  <2> QED
    BY <2>7, <2>8, <2>9
<1>3. Image[r].slug = IF \E q \in Projectable : Before(q)
                      THEN <<Title(r), SuffixOf[r]>> ELSE <<Title(r)>>
  BY ImageFields
<1>4. UniqueSlug(r, HeadOf(r).content, done) =
        IF \E o \in DOMAIN done \ {r} : done[o].slug = <<Title(r)>>
        THEN <<Title(r), SuffixOf[r]>> ELSE <<Title(r)>>
  BY DEF UniqueSlug, Title
<1> HIDE DEF Before
<1>5. (\E q \in Projectable : Before(q)) <=> \E o \in DOMAIN done \ {r} : done[o].slug = <<Title(r)>>
  BY <1>1, <1>2
<1> QED
  BY <1>3, <1>4, <1>5

(* A rebuild that has deleted every row there is sees its own rows alone.   *)
LEMMA SeesItsOwn ==
  ASSUME NEW p, job[p].wiped = DOMAIN rows
  PROVE  /\ DOMAIN VisibleTo(p) = DOMAIN job[p].pending
         /\ VisibleTo(p) = [q \in DOMAIN job[p].pending |-> job[p].pending[q]]
BY DEF VisibleTo, Over

(* A command does what comes first of what it has to do.                    *)
LEMMA NextRecipe ==
  ASSUME NEW j, NEW vers, NEW hd, JobHolds(j, vers, hd), j.todo # {}
  PROVE  /\ First(j.todo) \in Recipes /\ First(j.todo) \in j.todo /\ j.todo \in SUBSET Recipes
         /\ \A q \in j.todo \ {First(j.todo)} : Position(First(j.todo)) < Position(q)
BY FirstComesFirst DEF JobHolds

LEMMA TheHead ==
  ASSUME Inv, NEW r \in Recipes, NEW v \in head[r] PROVE v = HeadOf(r)
<1>1. HeadOf(r) \in head[r]
  BY DEF HeadOf
<1> QED
  BY <1>1 DEF Inv, CatInv, StoreInv, Single

LEMMA ReadSlugsHolds == ASSUME Inv, NEW p \in Jobs, ReadSlugs(p) PROVE Inv'
<1> DEFINE old == job[p]
           r == First(old.todo)
           seen == VisibleTo(p)
           slug == UniqueSlug(r, old.history[1].content, seen)
           j == [old EXCEPT !.slug = slug, !.step = "lock"]
<1>1. JobHolds(old, versions, head) /\ old.step = "slug"
  BY DEF Inv, CatInv, ReadSlugs
<1>2. /\ r \in Recipes /\ r \in old.todo /\ old.todo \in SUBSET Recipes
      /\ \A q \in old.todo \ {r} : Position(r) < Position(q)
  <2>1. old.todo # {}
    BY <1>1 DEF JobHolds, Projecting, HasRead
  <2> QED
    BY <1>1, <2>1, NextRecipe
<1>3. Move(p, j)
  BY DEF ReadSlugs
<1>4. old.wiped = DOMAIN rows => seen = [q \in DOMAIN old.pending |-> old.pending[q]]
  BY SeesItsOwn
<1> HIDE DEF seen
<1>5. slug = UniqueSlug(r, old.history[1].content, seen)
  OBVIOUS
<1> HIDE DEF slug
<1>6. /\ DOMAIN j = Fields /\ j.step = "lock" /\ j.slug = slug
      /\ \A f \in Fields \ {"step", "slug"} : j[f] = old[f]
  BY <1>1 DEF JobHolds, Fields
<1>7. /\ j.kind = old.kind /\ j.todo = old.todo /\ j.pending = old.pending
      /\ j.history = old.history
      /\ j.known = old.known /\ j.wiped = old.wiped /\ j.owner = old.owner
  BY <1>6 DEF Fields
<1> HIDE DEF j, old
<1>8. JobHolds(j, versions, head)
  BY <1>1, <1>6, <1>7 DEF JobHolds, StepsOf, Projecting, HasRead, Deleting
<1>9. ASSUME clean[p] PROVE CleanJob(j, versions, head, users, rows, Image)
  <2>1. CleanJob(old, versions, head, users, rows, Image)
    BY <1>9 DEF Inv, CleanInv, old
  <2>2. ASSUME j.kind = "full", AllInOrder(versions) PROVE OnTrack(j, head, users, rows, Image)
    <3>1. Writes(old, head, users, rows, Image)
      BY <1>1, <1>7, <2>1, <2>2 DEF CleanJob, OnTrack, Deleting
    <3>2. /\ DOMAIN seen = Projectable \ old.todo /\ r \in Projectable
          /\ \A o \in DOMAIN seen : seen[o] = Image[o]
          /\ \A o \in Recipes \ old.todo : head[o] # {} => Position(o) < Position(r)
      BY <1>1, <1>2, <1>4, <3>1, ImageFields DEF Writes, Projecting, HasRead, r
    <3>3. old.history[1] = HeadOf(r)
      <4>1. old.history[1] \in head[r]
        BY <1>1, <1>2, <2>1, <2>2 DEF CleanJob, IsFresh, HasRead, AllInOrder, r
      <4> QED
        BY <1>2, <4>1, TheHead
    <3>4. slug = Image[r].slug
      <4>1. UniqueSlug(r, HeadOf(r).content, seen) = Image[r].slug
        <5> HIDE DEF r
        <5> QED
          BY <1>2, <3>2, SlugOfTheNext, ZenonT(30)
      <4> QED
        BY <1>5, <3>3, <4>1
    <3>5. Writes(j, head, users, rows, Image)
      BY <1>1, <1>6, <1>7, <3>1, <3>4 DEF Writes, Projecting, HasRead, r
    <3> QED
      BY <1>6, <3>5 DEF OnTrack, Deleting
  <2> QED
    BY <1>1, <1>6, <1>7, <2>1, <2>2 DEF CleanJob, HasRead
<1> QED
  BY <1>3, <1>8, <1>9, Moves

(* A statement that waits for a lock and takes it.                          *)
LEMMA LockingHolds ==
  ASSUME Inv, NEW p \in Jobs, NEW j, Move(p, j), DOMAIN j = Fields,
         <<job[p].step, j.step>> \in {<<"lock", "row">>, <<"row", "versions">>},
         \A f \in Fields \ {"step", "held"} : j[f] = job[p][f]
  PROVE  Inv'
<1> DEFINE old == job[p]
<1>1. /\ JobHolds(old, versions, head)
      /\ old.step \in {"lock", "row"} /\ j.step \in {"row", "versions"}
  BY DEF Inv, CatInv
<1>2. /\ j.kind = old.kind /\ j.todo = old.todo /\ j.pending = old.pending
      /\ j.history = old.history /\ j.slug = old.slug
      /\ j.known = old.known /\ j.wiped = old.wiped /\ j.owner = old.owner
  BY DEF Fields
<1> HIDE DEF old
<1>3. JobHolds(j, versions, head)
  BY <1>1, <1>2 DEF JobHolds, StepsOf, Projecting, HasRead, Deleting
<1>4. ASSUME clean[p] PROVE CleanJob(j, versions, head, users, rows, Image)
  <2>1. CleanJob(old, versions, head, users, rows, Image)
    BY <1>4 DEF Inv, CleanInv, old
  <2>2. ASSUME j.kind = "full", AllInOrder(versions) PROVE OnTrack(j, head, users, rows, Image)
    <3>1. Writes(old, head, users, rows, Image)
      BY <1>1, <1>2, <2>1, <2>2 DEF CleanJob, OnTrack, Deleting
    <3>2. Writes(j, head, users, rows, Image)
      BY <1>1, <1>2, <3>1 DEF Writes, Projecting, HasRead
    <3> QED
      BY <1>1, <3>2 DEF OnTrack, Deleting
  <2> QED
    BY <1>1, <1>2, <2>1, <2>2 DEF CleanJob, HasRead
<1> QED
  BY <1>3, <1>4, Moves

LEMMA LockRowHolds == ASSUME Inv, NEW p \in Jobs, LockRow(p) PROVE Inv'
<1> DEFINE locks == job[p].held \cup {RowLock(First(job[p].todo))}
           j == [job[p] EXCEPT !.held = locks, !.step = "row"]
<1>1. Move(p, j) /\ job[p].step = "lock" /\ DOMAIN job[p] = Fields
  BY DEF LockRow, Inv, CatInv, JobHolds
<1> HIDE DEF locks
<1>2. /\ DOMAIN j = Fields /\ j.step = "row"
      /\ \A f \in Fields \ {"step", "held"} : j[f] = job[p][f]
  BY <1>1 DEF Fields
<1> HIDE DEF j
<1> QED
  BY <1>1, <1>2, LockingHolds

LEMMA WriteRowHolds == ASSUME Inv, NEW p \in Jobs, WriteRow(p) PROVE Inv'
<1> DEFINE r == First(job[p].todo)
           seen == VisibleTo(p)
           locks == job[p].held \cup {SlugLock(job[p].slug)}
                      \cup {SlugLock(seen[q].slug) : q \in {r} \cap DOMAIN seen}
           j == [job[p] EXCEPT !.held = locks, !.step = "versions"]
<1>1. Move(p, j) /\ job[p].step = "row" /\ DOMAIN job[p] = Fields
  BY DEF WriteRow, Inv, CatInv, JobHolds
<1> HIDE DEF locks
<1>2. /\ DOMAIN j = Fields /\ j.step = "versions"
      /\ \A f \in Fields \ {"step", "held"} : j[f] = job[p][f]
  BY <1>1 DEF Fields
<1> HIDE DEF j
<1> QED
  BY <1>1, <1>2, LockingHolds

(* A row is derived from what has been read of one history.                 *)
LEMMA RowIsHeld ==
  ASSUME NEW vers, NEW r \in Recipes, NEW h, NEW slug, NEW owner, NEW table,
         IsSnapshot(vers[r], h[1], ToSet(h)), RowsHold(table, vers)
  PROVE  RowsHold(Put(r, Row(h, slug, owner), table), vers)
<1> DEFINE row == Row(h, slug, owner)
           added == Put(r, row, table)
<1>1. row.head = h[1] /\ row.versions = ToSet(h)
  BY DEF Row
<1> HIDE DEF row
<1>2. /\ DOMAIN added = DOMAIN table \cup {r}
      /\ \A q \in DOMAIN added : added[q] = IF q = r THEN row ELSE table[q]
  BY DEF Put, Over
<1> HIDE DEF added
<1>3. RowsHold(added, vers)
  BY <1>1, <1>2 DEF RowsHold
<1> QED
  BY <1>3 DEF row, added

LEMMA ReplaceVersionsHolds == ASSUME Inv, NEW p \in Jobs, ReplaceVersions(p) PROVE Inv'
<1> DEFINE old == job[p]
           r == First(old.todo)
           row == Row(old.history, old.slug, old.owner)
           table == Put(r, row, old.pending)
           locks == old.held \cup {VersionsLock(r)}
           step == IF old.kind = "full" THEN "owner" ELSE "commit"
           j == [old EXCEPT !.held = locks, !.pending = table, !.todo = @ \ {r}, !.step = step]
<1>1. JobHolds(old, versions, head) /\ old.step = "versions"
  BY DEF Inv, CatInv, ReplaceVersions
<1>2. /\ r \in Recipes /\ r \in old.todo /\ old.todo \in SUBSET Recipes
      /\ \A q \in old.todo \ {r} : Position(r) < Position(q)
  <2>1. old.todo # {}
    BY <1>1 DEF JobHolds, Projecting, HasRead
  <2> QED
    BY <1>1, <2>1, NextRecipe
<1>3. Move(p, j)
  BY DEF ReplaceVersions
<1>4. RowsHold(table, versions)
  <2>1. IsSnapshot(versions[r], old.history[1], ToSet(old.history)) /\ RowsHold(old.pending, versions)
    BY <1>1 DEF JobHolds, HasRead
  <2> HIDE DEF r, old
  <2> QED
    BY <1>2, <2>1, RowIsHeld
<1>5. /\ DOMAIN table = DOMAIN old.pending \cup {r}
      /\ \A q \in DOMAIN table : table[q] = IF q = r THEN row ELSE old.pending[q]
  BY DEF Put, Over
<1>6. step = IF old.kind = "full" THEN "owner" ELSE "commit"
  OBVIOUS
<1> HIDE DEF table, locks, step
<1>7. /\ DOMAIN j = Fields /\ j.step = step /\ j.pending = table /\ j.todo = old.todo \ {r}
      /\ \A f \in Fields \ {"held", "step", "pending", "todo"} : j[f] = old[f]
  BY <1>1 DEF JobHolds, Fields
<1>8. j.kind = old.kind /\ j.known = old.known /\ j.wiped = old.wiped
  BY <1>7 DEF Fields
<1>9. row.head = old.history[1] /\ row.versions = ToSet(old.history)
  BY DEF Row
<1>10. row = [slug |-> old.slug, owner |-> old.owner, head |-> old.history[1],
              versions |-> ToSet(old.history)]
  BY DEF Row
<1> HIDE DEF j, old, row
<1>11. <<j.kind, j.step>> \in {<<"full", "owner">>} \cup ({"seed", "one"} \X {"commit"})
  BY <1>1, <1>6, <1>7, <1>8 DEF JobHolds, StepsOf, Projecting, HasRead, Deleting
<1>12. old.kind = "one" => j.todo = {}
  BY <1>1, <1>2, <1>7 DEF JobHolds
<1>13. JobHolds(j, versions, head)
  BY <1>1, <1>4, <1>7, <1>8, <1>11, <1>12 DEF JobHolds, StepsOf, Projecting, HasRead, Deleting
<1>14. ASSUME clean[p] PROVE CleanJob(j, versions, head, users, rows, Image)
  <2>1. CleanJob(old, versions, head, users, rows, Image)
    BY <1>14 DEF Inv, CleanInv, old
  <2>2. IsFresh(row.head, row.versions, r, versions, head)
    BY <1>1, <1>9, <2>1 DEF CleanJob, HasRead, r
  <2>3. \A q \in DOMAIN j.pending :
          IsFresh(j.pending[q].head, j.pending[q].versions, q, versions, head)
    BY <1>5, <1>7, <2>1, <2>2 DEF CleanJob
  <2>4. ASSUME j.kind = "full", AllInOrder(versions) PROVE OnTrack(j, head, users, rows, Image)
    <3>1. Writes(old, head, users, rows, Image)
      BY <1>1, <1>8, <2>1, <2>4 DEF CleanJob, OnTrack, Deleting
    <3>2. /\ r \in Projectable /\ old.owner = Image[r].owner /\ old.slug = Image[r].slug
      BY <1>1, <3>1, ImageFields DEF Writes, Projecting, HasRead, r
    <3>3. old.history[1] = HeadOf(r) /\ ToSet(old.history) = versions[r]
      <4>1. old.history[1] \in head[r] /\ ToSet(old.history) = versions[r]
        BY <1>2, <1>9, <2>2, <2>4 DEF IsFresh, AllInOrder
      <4> QED
        BY <1>2, <4>1, TheHead
    <3>4. row = Image[r]
      <4>1. Image[r] = [slug |-> Image[r].slug, owner |-> HeadOf(r).stamp.author,
                        head |-> HeadOf(r), versions |-> versions[r]]
        BY <3>2, ImageFields, Zenon
      <4>2. Image[r].owner = HeadOf(r).stamp.author
        BY <3>2, ImageFields, Zenon
      <4> QED
        BY <1>10, <3>2, <3>3, <4>1, <4>2, Zenon
    <3>5. DOMAIN j.pending = DOMAIN Image \ j.todo
      BY <1>2, <1>5, <1>7, <3>1, <3>2, ImageFields DEF Writes
    <3>6. \A o \in DOMAIN j.pending : j.pending[o] = Image[o]
      BY <1>5, <1>7, <3>1, <3>4 DEF Writes
    <3>7. \A q \in j.todo, o \in Recipes \ j.todo : head[o] # {} => Position(o) < Position(q)
      BY <1>2, <1>7, <3>1 DEF Writes
    <3>8. j.step = "owner" /\ j.known = users /\ j.wiped = DOMAIN rows
      BY <1>6, <1>7, <1>8, <2>4, <3>1 DEF Writes
    <3>9. Writes(j, head, users, rows, Image)
      BY <3>5, <3>6, <3>7, <3>8 DEF Writes, Projecting, HasRead
    <3> QED
      BY <3>8, <3>9 DEF OnTrack, Deleting
  <2>5. j.step \notin HasRead
    BY <1>6, <1>7 DEF HasRead
  <2> QED
    BY <2>3, <2>4, <2>5 DEF CleanJob
<1> QED
  BY <1>3, <1>13, <1>14, Moves

-----------------------------------------------------------------------------
(* reindex --full, before it writes: deletion after deletion.               *)
LEMMA DeletingHolds ==
  ASSUME Inv, NEW p \in Jobs, NEW j, Move(p, j), DOMAIN j = Fields,
         job[p].step \in Deleting, j.step \in Deleting,
         j.kind = job[p].kind, j.todo = job[p].todo, j.pending = job[p].pending,
         Deletes(job[p], users, rows) => Deletes(j, users, rows)
  PROVE  Inv'
<1> DEFINE old == job[p]
<1>1. JobHolds(old, versions, head)
  BY DEF Inv, CatInv
<1>2. /\ old.step \in Deleting /\ j.kind = old.kind /\ j.todo = old.todo
      /\ j.pending = old.pending /\ (Deletes(old, users, rows) => Deletes(j, users, rows))
  OBVIOUS
<1>3. clean[p] => CleanJob(old, versions, head, users, rows, Image)
  BY DEF Inv, CleanInv
<1> HIDE DEF old
<1>4. JobHolds(j, versions, head)
  BY <1>1, <1>2 DEF JobHolds, StepsOf, Projecting, HasRead, Deleting
<1>5. clean[p] => CleanJob(j, versions, head, users, rows, Image)
  <2>1. j.step \notin HasRead
    BY DEF Deleting, HasRead
  <2> QED
    BY <1>2, <1>3, <2>1 DEF CleanJob, OnTrack
<1> QED
  BY <1>4, <1>5, Moves

LEMMA DeleteVersionsHolds == ASSUME Inv, NEW p \in Jobs, DeleteVersions(p) PROVE Inv'
<1> DEFINE old == job[p]
           r == First(old.left)
           locks == old.held \cup {VersionsLock(q) : q \in {r} \cap DOMAIN rows}
           j == [old EXCEPT !.held = locks, !.left = @ \ {r}]
<1>1. DOMAIN old = Fields
  BY DEF Inv, CatInv, JobHolds
<1>2. Move(p, j) /\ old.step \in {"clear", "cascade"}
  BY DEF DeleteVersions
<1> HIDE DEF locks
<1>3. DOMAIN j = Fields /\ \A f \in Fields \ {"held", "left"} : j[f] = old[f]
  BY <1>1 DEF Fields
<1>4. /\ j.step = old.step /\ j.kind = old.kind /\ j.todo = old.todo /\ j.pending = old.pending
      /\ j.wiped = old.wiped /\ j.listed = old.listed
  BY <1>3 DEF Fields
<1>5. old.step \in Deleting /\ j.step \in Deleting
  BY <1>2, <1>4 DEF Deleting
<1> HIDE DEF j
<1>6. Deletes(old, users, rows) => Deletes(j, users, rows)
  BY <1>2, <1>4 DEF Deletes
<1> QED
  BY <1>2, <1>3, <1>4, <1>5, <1>6, DeletingHolds

LEMMA ListRowsHolds == ASSUME Inv, NEW p \in Jobs, ListRows(p) PROVE Inv'
<1> DEFINE old == job[p]
           j == [old EXCEPT !.listed = DOMAIN rows, !.left = DOMAIN rows, !.step = "cascade"]
<1>1. DOMAIN old = Fields
  BY DEF Inv, CatInv, JobHolds
<1>2. Move(p, j) /\ old.step = "clear"
  BY DEF ListRows
<1>3. /\ DOMAIN j = Fields /\ j.step = "cascade" /\ j.listed = DOMAIN rows
      /\ \A f \in Fields \ {"listed", "left", "step"} : j[f] = old[f]
  BY <1>1 DEF Fields
<1>4. j.kind = old.kind /\ j.todo = old.todo /\ j.pending = old.pending /\ j.wiped = old.wiped
  BY <1>3 DEF Fields
<1>5. old.step \in Deleting /\ j.step \in Deleting
  BY <1>2, <1>3 DEF Deleting
<1> HIDE DEF j
<1>6. Deletes(old, users, rows) => Deletes(j, users, rows)
  BY <1>2, <1>3, <1>4 DEF Deletes
<1> QED
  BY <1>2, <1>3, <1>4, <1>5, <1>6, DeletingHolds

LEMMA CascadeEndsHolds == ASSUME Inv, NEW p \in Jobs, CascadeEnds(p) PROVE Inv'
<1> DEFINE old == job[p]
           j == [old EXCEPT !.left = old.listed, !.step = "delete"]
<1>1. DOMAIN old = Fields
  BY DEF Inv, CatInv, JobHolds
<1>2. Move(p, j) /\ old.step = "cascade"
  BY DEF CascadeEnds
<1>3. /\ DOMAIN j = Fields /\ j.step = "delete" /\ j.left = old.listed
      /\ \A f \in Fields \ {"left", "step"} : j[f] = old[f]
  BY <1>1 DEF Fields
<1>4. j.kind = old.kind /\ j.todo = old.todo /\ j.pending = old.pending /\ j.wiped = old.wiped
  BY <1>3 DEF Fields
<1>5. old.step \in Deleting /\ j.step \in Deleting
  BY <1>2, <1>3 DEF Deleting
<1> HIDE DEF j
<1>6. Deletes(old, users, rows) => Deletes(j, users, rows)
  BY <1>2, <1>3, <1>4 DEF Deletes
<1> QED
  BY <1>2, <1>3, <1>4, <1>5, <1>6, DeletingHolds

LEMMA DeleteRowHolds == ASSUME Inv, NEW p \in Jobs, DeleteRow(p) PROVE Inv'
<1> DEFINE old == job[p]
           r == First(old.left)
           gone == {r} \cap DOMAIN rows
           locks == old.held \cup {RowLock(q) : q \in gone} \cup {SlugLock(rows[q].slug) : q \in gone}
           j == [old EXCEPT !.held = locks, !.wiped = @ \cup gone, !.left = @ \ {r}]
<1>1. DOMAIN old = Fields
  BY DEF Inv, CatInv, JobHolds
<1>2. Move(p, j) /\ old.step = "delete"
  BY DEF DeleteRow
<1> HIDE DEF locks
<1>3. /\ DOMAIN j = Fields /\ j.wiped = old.wiped \cup gone /\ j.left = old.left \ {r}
      /\ \A f \in Fields \ {"held", "wiped", "left"} : j[f] = old[f]
  BY <1>1 DEF Fields
<1>4. j.step = old.step /\ j.kind = old.kind /\ j.todo = old.todo /\ j.pending = old.pending
  BY <1>3 DEF Fields
<1>5. old.step \in Deleting /\ j.step \in Deleting
  BY <1>2, <1>4 DEF Deleting
<1> HIDE DEF j, r
<1>6. old.wiped \cup old.left = DOMAIN rows => j.wiped \cup j.left = DOMAIN rows
  BY <1>3
<1>7. Deletes(old, users, rows) => Deletes(j, users, rows)
  BY <1>2, <1>4, <1>6 DEF Deletes
<1> QED
  BY <1>2, <1>3, <1>4, <1>5, <1>7, DeletingHolds

LEMMA ResolveAccountsHolds == ASSUME Inv, NEW p \in Jobs, ResolveAccounts(p) PROVE Inv'
<1> DEFINE old == job[p]
           j == [old EXCEPT !.known = users, !.step = "list"]
<1>1. DOMAIN old = Fields
  BY DEF Inv, CatInv, JobHolds
<1>2. Move(p, j) /\ old.step = "delete" /\ old.left = {}
  BY DEF ResolveAccounts
<1>3. /\ DOMAIN j = Fields /\ j.step = "list" /\ j.known = users
      /\ \A f \in Fields \ {"known", "step"} : j[f] = old[f]
  BY <1>1 DEF Fields
<1>4. j.kind = old.kind /\ j.todo = old.todo /\ j.pending = old.pending /\ j.wiped = old.wiped
  BY <1>3 DEF Fields
<1>5. old.step \in Deleting /\ j.step \in Deleting
  BY <1>2, <1>3 DEF Deleting
<1> HIDE DEF j
<1>6. Deletes(old, users, rows) => Deletes(j, users, rows)
  BY <1>2, <1>3, <1>4 DEF Deletes
<1> QED
  BY <1>2, <1>3, <1>4, <1>5, <1>6, DeletingHolds

(* project_store: what it lists, and whose owners it finds.                 *)
LEMMA ListStoreHolds == ASSUME Inv, NEW p \in Jobs, ListStore(p) PROVE Inv'
<1> DEFINE old == job[p]
           todo == {r \in Recipes : head[r] # {}}
           j == [old EXCEPT !.todo = todo, !.step = "owner"]
<1>1. JobHolds(old, versions, head) /\ old.step = "list"
  BY DEF Inv, CatInv, ListStore
<1>2. Move(p, j)
  BY DEF ListStore
<1>3. /\ todo \in SUBSET Recipes /\ \A r \in todo : head[r] # {}
      /\ \A r \in Recipes \ todo : head[r] = {}
  OBVIOUS
<1>4. DOMAIN Image \ todo = {}
  BY ImageFields DEF Projectable
<1> HIDE DEF todo
<1>5. /\ DOMAIN j = Fields /\ j.step = "owner" /\ j.todo = todo
      /\ \A f \in Fields \ {"todo", "step"} : j[f] = old[f]
  BY <1>1 DEF JobHolds, Fields
<1>6. /\ j.kind = old.kind /\ j.pending = old.pending
      /\ j.known = old.known /\ j.wiped = old.wiped
  BY <1>5 DEF Fields
<1>7. clean[p] => CleanJob(old, versions, head, users, rows, Image)
  BY DEF Inv, CleanInv
<1> HIDE DEF j, old
<1>8. old.kind = "full"
  BY <1>1 DEF JobHolds, StepsOf, Projecting, HasRead, Deleting
<1>9. JobHolds(j, versions, head)
  BY <1>1, <1>3, <1>5, <1>6, <1>8 DEF JobHolds, StepsOf, Projecting, HasRead, Deleting
<1>10. Deletes(old, users, rows) => Writes(j, head, users, rows, Image)
  BY <1>1, <1>3, <1>4, <1>5, <1>6 DEF Deletes, Writes, Projecting, HasRead
<1>11. clean[p] => CleanJob(j, versions, head, users, rows, Image)
  BY <1>1, <1>5, <1>6, <1>7, <1>10 DEF CleanJob, OnTrack, Deleting, HasRead
<1> QED
  BY <1>2, <1>9, <1>11, Moves

LEMMA ResolveOwnerHolds == ASSUME Inv, NEW p \in Jobs, ResolveOwner(p) PROVE Inv'
<1> DEFINE old == job[p]
           r == First(old.todo)
           author == (CHOOSE v \in head[r] : TRUE).stamp.author
           found == [old EXCEPT !.owner = author, !.step = "read"]
           skipped == [old EXCEPT !.todo = @ \ {r}]
           j == IF author \in old.known THEN found ELSE skipped
<1>1. JobHolds(old, versions, head) /\ old.step = "owner" /\ old.todo # {}
  BY DEF Inv, CatInv, ResolveOwner
<1>2. /\ r \in Recipes /\ r \in old.todo /\ old.todo \in SUBSET Recipes
      /\ \A q \in old.todo \ {r} : Position(r) < Position(q)
  BY <1>1, NextRecipe
<1>3. old.kind = "full" /\ head[r] # {}
  BY <1>1, <1>2 DEF JobHolds, StepsOf, Projecting, HasRead, Deleting
<1>4. Move(p, j)
  BY DEF ResolveOwner
<1>5. author = HeadOf(r).stamp.author
  BY DEF HeadOf
<1> HIDE DEF author
<1>6. /\ DOMAIN found = Fields /\ found.step = "read" /\ found.owner = author
      /\ DOMAIN skipped = Fields /\ skipped.todo = old.todo \ {r}
      /\ \A f \in Fields \ {"step", "owner"} : found[f] = old[f]
      /\ \A f \in Fields \ {"todo"} : skipped[f] = old[f]
  BY <1>1 DEF JobHolds, Fields
<1>7. /\ found.kind = "full" /\ found.todo = old.todo /\ found.pending = old.pending
      /\ found.known = old.known /\ found.wiped = old.wiped
      /\ skipped.step = "owner" /\ skipped.kind = "full" /\ skipped.pending = old.pending
      /\ skipped.known = old.known /\ skipped.wiped = old.wiped
  BY <1>1, <1>3, <1>6 DEF Fields
<1>8. clean[p] => CleanJob(old, versions, head, users, rows, Image)
  BY DEF Inv, CleanInv
<1> HIDE DEF found, skipped, old
<1>9. JobHolds(found, versions, head)
  BY <1>1, <1>3, <1>6, <1>7 DEF JobHolds, StepsOf, Projecting, HasRead, Deleting, r
<1>10. JobHolds(skipped, versions, head)
  BY <1>1, <1>3, <1>6, <1>7 DEF JobHolds, StepsOf, Projecting, HasRead, Deleting
<1> HIDE DEF r
<1>11. ASSUME Writes(old, head, users, rows, Image), author \in old.known
       PROVE  Writes(found, head, users, rows, Image)
  <2>1. r \in Projectable
    BY <1>2, <1>3, <1>5, <1>11 DEF Projectable, Writes
  <2>2. r \in DOMAIN Image /\ Image[r].owner = author
    BY <1>5, <2>1, ImageFields
  <2>3. First(found.todo) = r
    BY <1>7 DEF r
  <2> QED
    BY <1>6, <1>7, <1>11, <2>2, <2>3 DEF Writes, HasRead
<1>12. ASSUME Writes(old, head, users, rows, Image), author \notin old.known
       PROVE  Writes(skipped, head, users, rows, Image)
  <2>1. r \notin DOMAIN Image
    BY <1>5, <1>12, ImageFields DEF Projectable, Writes
  <2>2. DOMAIN skipped.pending = DOMAIN Image \ skipped.todo
    BY <1>6, <1>7, <1>12, <2>1 DEF Writes
  <2>3. \A q \in skipped.todo, o \in Recipes \ skipped.todo :
          head[o] # {} => Position(o) < Position(q)
    BY <1>2, <1>6, <1>12 DEF Writes
  <2> QED
    BY <1>7, <1>12, <2>2, <2>3 DEF Writes, Projecting, HasRead
<1>13. JobHolds(j, versions, head)
  BY <1>9, <1>10
<1>14. /\ j.kind = old.kind /\ j.pending = old.pending
       /\ j.step \notin HasRead /\ j.step \notin Deleting
  BY <1>3, <1>6, <1>7 DEF HasRead, Deleting
<1>15. Writes(old, head, users, rows, Image) => Writes(j, head, users, rows, Image)
  BY <1>11, <1>12
<1> HIDE DEF j
<1>16. clean[p] => CleanJob(j, versions, head, users, rows, Image)
  BY <1>1, <1>8, <1>14, <1>15 DEF CleanJob, OnTrack, Deleting
<1> QED
  BY <1>4, <1>13, <1>16, Moves

-----------------------------------------------------------------------------
(* What a transaction leaves in the catalog.                                *)
LEMMA VisibleRows ==
  ASSUME NEW p
  PROVE  /\ DOMAIN VisibleTo(p) = DOMAIN job[p].pending \cup (DOMAIN rows \ job[p].wiped)
         /\ \A r \in DOMAIN VisibleTo(p) :
              VisibleTo(p)[r] = IF r \in DOMAIN job[p].pending THEN job[p].pending[r] ELSE rows[r]
BY DEF VisibleTo, Over

LEMMA CommitCatalogHolds == ASSUME Inv, NEW p \in Jobs, CommitCatalog(p) PROVE Inv'
<1> DEFINE old == job[p]
           next == [NoJob EXCEPT !.kind = old.kind, !.step = "store", !.owner = old.owner,
                                 !.todo = old.todo]
           j == IF old.todo = {} THEN NoJob ELSE next
<1>1. JobHolds(old, versions, head) /\ (old.step = "commit" \/ old.todo = {})
  BY DEF Inv, CatInv, CommitCatalog, Done
<1>2. /\ job' = [job EXCEPT ![p] = j] /\ rows' = VisibleTo(p) /\ users' = users
      /\ versions' = versions /\ head' = head /\ UNCHANGED storeVars
      /\ clean' = [q \in Jobs |-> clean[q] /\ q = p]
      /\ \A r \in DOMAIN old.pending : old.pending[r].owner \in users
  BY DEF CommitCatalog, Disturb, OwnersExist, storeVars
<1>3. /\ DOMAIN rows' = DOMAIN old.pending \cup (DOMAIN rows \ old.wiped)
      /\ \A r \in DOMAIN rows' :
           rows'[r] = IF r \in DOMAIN old.pending THEN old.pending[r] ELSE rows[r]
  BY <1>2, VisibleRows
<1>4. /\ DOMAIN next = Fields /\ next.step = "store" /\ next.kind = old.kind
      /\ next.todo = old.todo /\ next.pending = NoRows
  BY DEF NoJob, Fields
<1> HIDE DEF next, old
<1>5. RowsHold(rows', versions') /\ \A r \in DOMAIN rows' : rows'[r].owner \in users'
  <2>1. RowsHold(old.pending, versions) /\ RowsHold(rows, versions)
    BY <1>1 DEF JobHolds, Inv, CatInv
  <2>2. RowsHold(rows', versions')
    BY <1>2, <1>3, <2>1 DEF RowsHold
  <2> QED
    BY <1>2, <1>3, <2>2 DEF Inv, CatInv
<1>6. ASSUME old.todo # {} PROVE old.kind = "seed"
  BY <1>1, <1>6 DEF JobHolds, StepsOf, Projecting, HasRead, Deleting
<1>7. ASSUME old.todo # {} PROVE JobHolds(next, versions, head)
  BY <1>1, <1>4, <1>6, <1>7, IdleHolds DEF JobHolds, StepsOf, Projecting, HasRead, Deleting
<1>8. JobHolds(j, versions', head')
  BY <1>2, <1>7, IdleHolds
<1>9. CleanJob(j, versions', head', users', rows', Image')
  <2>1. CASE old.todo = {}
    BY <2>1, IdleHolds
  <2>2. CASE old.todo # {}
    <3>1. CleanJob(next, versions', head', users', rows', Image')
      BY <1>4, <1>6, <2>2 DEF CleanJob, HasRead, NoRows
    <3> QED
      BY <2>2, <3>1
  <2> QED
    BY <2>1, <2>2
<1>10. clean' \in [Jobs -> BOOLEAN] /\ \A q \in Jobs \ {p} : ~clean'[q]
  BY <1>2 DEF Inv, CleanInv
<1> QED
  BY <1>2, <1>5, <1>8, <1>9, <1>10, JobSteps

LEMMA InvStep == ASSUME Inv, ListInv, [Next]_vars PROVE Inv'
<1>1. CASE UNCHANGED vars
  <2>1. UNCHANGED <<versions, head, rows, users, job, clean>>
    BY <1>1 DEF vars
  <2>2. Image' = Image
    BY <2>1, ImageStays
  <2>3. StoreInv'
    BY <2>1, GrowthKeeps DEF Inv, storeVars
  <2>4. CatInv'
    BY <2>1, <2>3 DEF Inv, CatInv
  <2>5. CleanInv'
    BY <2>1, <2>2 DEF Inv, CleanInv
  <2> QED
    BY <2>4, <2>5 DEF Inv
<1>2. ASSUME NEW p \in Jobs, Projects(p) PROVE Inv'
  <2>1. CASE RowRefused(p) \/ CommitRefused(p)
    BY <2>1, Fails DEF RowRefused, CommitRefused
  <2> QED
    BY <1>2, <2>1, ReadHistoryHolds, ReadSlugsHolds, LockRowHolds, WriteRowHolds,
       ReplaceVersionsHolds, CommitCatalogHolds DEF Projects
<1>3. ASSUME NEW p \in Jobs, Rebuilds(p) PROVE Inv'
  BY <1>3, DeleteVersionsHolds, ListRowsHolds, CascadeEndsHolds, DeleteRowHolds,
     ResolveAccountsHolds, ListStoreHolds, ResolveOwnerHolds DEF Rebuilds
<1>4. ASSUME NEW p \in Jobs, JobStep(p) PROVE Inv'
  BY <1>2, <1>3, <1>4, SeedCommitHolds, Fails DEF JobStep, DeadlockAborts
<1>5. ASSUME Next PROVE Inv'
  BY <1>4, <1>5, EditHolds, DeleteHolds, StartSeedHolds, StartOneHolds, StartFullHolds DEF Next
<1> QED
  BY <1>1, <1>5

(* Commands and edits change the store by commits alone.                    *)
LEMMA CatalogCommits == ASSUME Inv, [Next]_vars PROVE [StoreNext]_storeVars
<1>1. CASE UNCHANGED vars
  BY <1>1 DEF vars, storeVars
<1>2. ASSUME NEW r \in Recipes, NEW e \in Edits[r], Edit(r, e[1], e[2]) PROVE StoreNext
  <2>1. e[1] \in Contents /\ e[2] \in Stamps
    BY EditsAreCommits
  <2> QED
    BY <1>2, <2>1 DEF Edit, StoreNext, Commit
<1>3. ASSUME NEW p \in Jobs, SeedCommit(p) PROVE StoreNext
  <2> DEFINE r == First(job[p].todo)
  <2>1. JobHolds(job[p], versions, head) /\ job[p].step = "store"
    BY <1>3 DEF Inv, CatInv, SeedCommit
  <2>2. r \in DOMAIN Corpus
    BY <2>1, FirstIsOne DEF JobHolds, StepsOf, Projecting, HasRead, Deleting
  <2>3. r \in Recipes /\ Corpus[r] \in Contents /\ SeedStamp \in Stamps
    BY <2>2, CorpusIsSeeded
  <2>4. Commit(r, Corpus[r], SeedStamp)
    BY <1>3 DEF SeedCommit, Commit
  <2> QED
    BY <2>3, <2>4 DEF StoreNext
<1>4. ASSUME NEW p \in Jobs, Projects(p) \/ Rebuilds(p) \/ DeadlockAborts(p)
      PROVE  UNCHANGED storeVars
  BY <1>4 DEF Projects, Rebuilds, DeadlockAborts, Fail, Move, ReadHistory, ReadSlugs, LockRow,
              WriteRow, RowRefused, ReplaceVersions, CommitCatalog, CommitRefused,
              DeleteVersions, ListRows, CascadeEnds, DeleteRow, ResolveAccounts, ListStore,
              ResolveOwner, storeVars
<1>5. ASSUME NEW p \in Jobs, StartSeed(p) \/ StartReindexFull(p) PROVE UNCHANGED storeVars
  BY <1>5 DEF StartSeed, StartReindexFull, storeVars
<1>6. ASSUME NEW p \in Jobs, NEW r \in Recipes, StartReindexOne(p, r) PROVE UNCHANGED storeVars
  BY <1>6 DEF StartReindexOne, storeVars
<1>7. ASSUME NEW u, DeleteAccount(u) PROVE UNCHANGED storeVars
  BY <1>7 DEF DeleteAccount, storeVars
<1> QED
  BY <1>1, <1>2, <1>3, <1>4, <1>5, <1>6, <1>7 DEF Next, JobStep

-----------------------------------------------------------------------------
(* The steps the action properties speak of.                                *)
FreshRows(p) ==
  CommitCatalog(p) /\ clean[p] =>
    \A r \in DOMAIN job[p].pending :
      /\ rows'[r].versions = versions[r]
      /\ InOrder(versions[r]) => rows'[r].head \in head[r]

ExactRows(p) ==
  CommitCatalog(p) /\ clean[p] /\ job[p].kind = "full" =>
    ((\A r \in Recipes : InOrder(versions[r])) => rows' = Image)

LEMMA CommitsAreFresh == ASSUME Inv, NEW p \in Jobs PROVE FreshRows(p)
<1> SUFFICES ASSUME CommitCatalog(p), clean[p], NEW r \in DOMAIN job[p].pending
             PROVE  /\ rows'[r].versions = versions[r]
                    /\ InOrder(versions[r]) => rows'[r].head \in head[r]
  BY DEF FreshRows
<1>1. IsFresh(job[p].pending[r].head, job[p].pending[r].versions, r, versions, head)
  BY DEF Inv, CleanInv, CleanJob
<1>2. rows' = VisibleTo(p)
  BY DEF CommitCatalog
<1>3. rows'[r] = job[p].pending[r]
  BY <1>2, VisibleRows
<1> QED
  BY <1>1, <1>3 DEF IsFresh

(* What a rebuild has written when nothing is left to do is the image.      *)
LEMMA RebuildsAreExact == ASSUME Inv, NEW p \in Jobs PROVE ExactRows(p)
<1> SUFFICES ASSUME CommitCatalog(p), clean[p], job[p].kind = "full", AllInOrder(versions)
             PROVE  rows' = Image
  BY DEF ExactRows, AllInOrder
<1>1. rows' = VisibleTo(p) /\ (job[p].step = "commit" \/ (job[p].step = "owner" /\ job[p].todo = {}))
  BY DEF CommitCatalog, Done
<1>2. job[p].step = "owner" /\ job[p].todo = {}
  BY <1>1 DEF Inv, CatInv, JobHolds, StepsOf, Deleting, Projecting, HasRead
<1>3. OnTrack(job[p], head, users, rows, Image)
  BY DEF Inv, CleanInv, CleanJob
<1>4. Writes(job[p], head, users, rows, Image)
  BY <1>2, <1>3 DEF OnTrack, Deleting
<1>5. rows' = [q \in DOMAIN job[p].pending |-> job[p].pending[q]]
  BY <1>1, <1>4, SeesItsOwn DEF Writes
<1>6. DOMAIN job[p].pending = Projectable /\ \A q \in Projectable : job[p].pending[q] = Image[q]
  BY <1>2, <1>4, ImageFields DEF Writes
<1>7. rows' = [q \in Projectable |-> Image[q]]
  BY <1>5, <1>6
<1> QED
  BY <1>7 DEF Image

(* The inductive invariant of the catalog.                                  *)
CatalogInv == Inv /\ ListInv

LEMMA CatalogInductive == Spec => []CatalogInv
<1>1. Init => CatalogInv
  BY InvInit, ListInit, LineageInit DEF Init, CatalogInv, ListInv
<1>2. CatalogInv /\ [Next]_vars => CatalogInv'
  <2> SUFFICES ASSUME CatalogInv, [Next]_vars PROVE CatalogInv'
    OBVIOUS
  <2>1. Inv /\ ListInv
    BY DEF CatalogInv
  <2>2. [StoreNext]_storeVars
    BY <2>1, CatalogCommits
  <2>3. Inv'
    BY <2>1, InvStep
  <2>4. ListInv'
    BY <2>1, <2>2, ListStep
  <2> QED
    BY <2>3, <2>4 DEF CatalogInv
<1> QED
  BY <1>1, <1>2, PTL DEF Spec

(* The commands and the edits write the store by commits alone, so whatever *)
(* is proved of the store holds of it under the catalog, history() included. *)
THEOREM CatalogOnlyCommits == Spec => StoreSpec
<1>1. CatalogInv /\ [Next]_vars => [StoreNext]_storeVars
  BY CatalogCommits DEF CatalogInv
<1>2. Init => StoreInit
  BY DEF Init
<1> QED
  BY <1>1, <1>2, CatalogInductive, PTL DEF Spec, StoreSpec

(* RowsAreSnapshots: however seed_corpus, reindex, commits past the catalog, *)
(* deleted accounts and aborted transactions interleave, a row shows one    *)
(* version with exactly one lineage its recipe had, and names an account    *)
(* that exists; the version is that lineage's HEAD if none in it is older   *)
(* than its parent.                                                        *)
THEOREM RowsStaySnapshots == Spec => []RowsAreSnapshots
<1>1. CatalogInv => RowsAreSnapshots
  BY DEF CatalogInv, Inv, CatInv, RowsHold, IsSnapshot, RowsAreSnapshots
<1> QED
  BY <1>1, CatalogInductive, PTL

(* UndisturbedProjectionIsFresh: the commit of a projection nobody          *)
(* interferes with leaves the recipe's full history, and shows the store's  *)
(* HEAD if no version of the recipe is older than its parent.               *)
THEOREM ProjectionsAreFresh == Spec => UndisturbedProjectionIsFresh
<1>1. CatalogInv /\ [Next]_vars => [\A p \in Jobs : FreshRows(p)]_vars
  BY CommitsAreFresh DEF CatalogInv
<1>2. Spec => [][\A p \in Jobs : FreshRows(p)]_vars
  BY <1>1, CatalogInductive, PTL DEF Spec
<1> QED
  BY <1>2 DEF FreshRows, UndisturbedProjectionIsFresh

(* UndisturbedRebuildIsExact: a full rebuild nobody interferes with leaves  *)
(* exactly the image of the store, for any number of recipes that share a   *)
(* title and whatever rows there were before, if no version in the store is *)
(* older than its parent.                                                  *)
THEOREM RebuildsLeaveTheImage == Spec => UndisturbedRebuildIsExact
<1>1. CatalogInv /\ [Next]_vars => [\A p \in Jobs : ExactRows(p)]_vars
  BY RebuildsAreExact DEF CatalogInv
<1>2. Spec => [][\A p \in Jobs : ExactRows(p)]_vars
  BY <1>1, CatalogInductive, PTL DEF Spec
<1> QED
  BY <1>2 DEF ExactRows, UndisturbedRebuildIsExact

=============================================================================
