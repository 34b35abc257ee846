------------------------------ MODULE Catalog ------------------------------
(***************************************************************************)
(* The Postgres catalog over the recipe store: who may write a row, from   *)
(* what it is derived, and what a rebuild does (apps/web/catalog).         *)
(*                                                                         *)
(* The store is RecipeStore.tla, one atomic step per commit.  The catalog  *)
(* is written by management commands: seed_corpus (commit, then project),  *)
(* reindex --recipe and reindex --full.  They are separate processes; each *)
(* reads the store first and writes its row afterwards, and commits, other *)
(* commands and account deletions fall in between.                         *)
(*                                                                         *)
(* Postgres runs at READ COMMITTED: a statement sees what is committed and  *)
(* what its own transaction did, and one that meets a row or an entry of a  *)
(* unique index another transaction has touched waits until that one ends.  *)
(* Every place where a statement can wait is a step of its own, and a       *)
(* transaction keeps what it has taken (held) until it ends.  Rows are      *)
(* known by their recipe's id, their primary keys are left out.             *)
(*                                                                         *)
(* An author handle and the account it resolves to are one value (the code  *)
(* looks the handle up among user names, then among e-mail addresses).      *)
(* Of a row only what the properties tell apart is kept: the slug, the      *)
(* owner, the head version (title, visibility and dates are functions of    *)
(* it) and the set of projected versions.                                  *)
(***************************************************************************)
EXTENDS History

CONSTANTS Jobs,          \* processes that run a management command
          Ids,           \* Recipes in the order of list_recipe_ids
          TitleOf,       \* the slugified title of a content
          SuffixOf,      \* what _unique_slug cuts out of a recipe id
          Corpus,        \* [recipe -> content] of the bundled corpus
          SeedStamp,     \* the constant author and created_at of seed_corpus
          Edits,         \* Edits[r]: the <<content, stamp>> pairs others commit to r
          Accounts,      \* handles that have a local account at first
          MaxJobs        \* bound on the commands started

ASSUME IdsListRecipes == Ids \in Seq(Recipes) /\ ToSet(Ids) = Recipes /\ Len(Ids) = Cardinality(Recipes)
ASSUME TitlesAndSuffixes == DOMAIN TitleOf = Contents /\ DOMAIN SuffixOf = Recipes
ASSUME EditsAreCommits == \A r \in Recipes : Edits[r] \subseteq Contents \X Stamps
ASSUME CorpusIsSeeded ==
  /\ DOMAIN Corpus # {} /\ DOMAIN Corpus \subseteq Recipes /\ SeedStamp \in Stamps
  /\ \A r \in DOMAIN Corpus : Corpus[r] \in Contents

VARIABLES rows,      \* the committed catalog: [projected recipes -> row]
          users,     \* handles that resolve to an account
          job,       \* job[p]: the command p runs and how far it is
          clean,     \* clean[p]: nobody else has written anything since p first read
          started    \* number of commands started

vars == <<versions, head, rows, users, job, clean, started>>

NoRows == <<>>
NoJob == [kind |-> "none", step |-> "none", todo |-> {}, owner |-> "", history |-> <<>>,
          slug |-> <<>>, known |-> {}, left |-> {}, listed |-> {}, wiped |-> {},
          pending |-> NoRows, held |-> {}]

(* A command takes the recipes it has to do in the order of their ids (the  *)
(* corpus is listed by slug, which is the same order).                     *)
Position(r) == CHOOSE i \in DOMAIN Ids : Ids[i] = r
First(todo) == CHOOSE r \in todo : \A q \in todo : Position(r) =< Position(q)

Init ==
  /\ StoreInit
  /\ rows = NoRows
  /\ users = Accounts
  /\ job = [p \in Jobs |-> NoJob]
  /\ clean = [p \in Jobs |-> TRUE]
  /\ started = 0

-----------------------------------------------------------------------------
(* A table with rows replaced or added.                                    *)
Over(new, table) ==
  [q \in DOMAIN new \cup DOMAIN table |-> IF q \in DOMAIN new THEN new[q] ELSE table[q]]

Put(r, row, table) == Over([q \in {r} |-> row], table)

(* _unique_slug over the rows a transaction sees: the title, or the title  *)
(* and the id suffix if another recipe holds it.  The fallback is not      *)
(* checked again.                                                          *)
UniqueSlug(r, c, visible) ==
  IF \E q \in DOMAIN visible \ {r} : visible[q].slug = <<TitleOf[c]>>
  THEN <<TitleOf[c], SuffixOf[r]>>
  ELSE <<TitleOf[c]>>

(* Faults: only HEAD is projected; the oldest version is taken for HEAD.    *)
RowOfHeadAlone(history, slug, owner) ==
  [slug |-> slug, owner |-> owner, head |-> history[1], versions |-> {history[1]}]

RowOfTheOldest(history, slug, owner) ==
  [slug |-> slug, owner |-> owner, head |-> Last(history), versions |-> ToSet(history)]

(* The row project_recipe derives from a history: its first entry is taken *)
(* for HEAD.                                                               *)
Row(history, slug, owner) ==
  [slug |-> slug, owner |-> owner, head |-> history[1], versions |-> ToSet(history)]

SlugTaken(r, slug, visible) == \E q \in DOMAIN visible \ {r} : visible[q].slug = slug

(* Fault: a rebuild sees the rows it has deleted.                          *)
VisibleWithDeleted(p) == Over(job[p].pending, rows)

(* What a command sees: its own rows, and those committed that it has not   *)
(* deleted.                                                                *)
VisibleTo(p) ==
  Over(job[p].pending, [q \in DOMAIN rows \ job[p].wiped |-> rows[q]])

-----------------------------------------------------------------------------
(* What a transaction locks: a recipe's row, its version rows, an entry of  *)
(* the unique index on slugs.                                              *)
RowLock(r)      == <<"row", r>>
VersionsLock(r) == <<"versions", r>>
SlugLock(s)     == <<"slug", s>>

(* The lock the next statement of p asks for.                              *)
Needs(p) ==
  LET j == job[p] IN
  CASE j.step \in {"clear", "cascade"} /\ j.left # {} -> {VersionsLock(First(j.left))}
    [] j.step = "delete" /\ j.left # {}               -> {RowLock(First(j.left))}
    [] j.step = "lock"                                -> {RowLock(First(j.todo))}
    [] j.step = "row"                                 -> {SlugLock(j.slug)}
    [] j.step = "versions"                            -> {VersionsLock(First(j.todo))}
    [] OTHER                                          -> {}

Awaits(p, o) == o # p /\ Needs(p) \cap job[o].held # {}

Waits(p) == \E o \in Jobs : Awaits(p, o)

(* Commands that wait for each other in a circle, p among them.            *)
Deadlocked(p) ==
  /\ Waits(p)
  /\ \E S \in SUBSET Jobs :
    /\ p \in S
    /\ \A q \in S : (\E o \in S : Awaits(q, o)) /\ (\E o \in S : Awaits(o, q))

-----------------------------------------------------------------------------
Disturb(p) == clean' = [q \in Jobs |-> clean[q] /\ q = p]

Start(p, new) ==
  /\ job[p].kind = "none" /\ started < MaxJobs
  /\ started' = started + 1
  /\ job' = [job EXCEPT ![p] = new]

(* A command that raises: its transaction rolls back and the process ends. *)
Fail(p) ==
  /\ job' = [job EXCEPT ![p] = NoJob]
  /\ UNCHANGED <<versions, head, rows, users, clean, started>>

(* A step of a command that neither commits nor touches the store.         *)
Move(p, new) ==
  /\ job' = [job EXCEPT ![p] = new]
  /\ UNCHANGED <<versions, head, rows, users, clean, started>>

-----------------------------------------------------------------------------
(* Somebody commits to the store without the catalog: a git pull, a hand    *)
(* edit, the authoring tools.                                              *)
Edit(r, c, s) ==
  /\ CommitVersion(r, c, s)
  /\ clean' = [q \in Jobs |-> FALSE]
  /\ UNCHANGED <<rows, users, job, started>>

(* An account is deleted; its rows go with it (owner is ON DELETE CASCADE), *)
(* once no command has them locked.  Foreign keys are checked at commit, so *)
(* rows a command has written and not committed are no obstacle.  The      *)
(* deletion itself is one step, which holds nothing while it waits.         *)
DeleteAccount(u) ==
  LET owned == {q \in DOMAIN rows : rows[q].owner = u} IN
  /\ u \in users
  /\ \A p \in Jobs, q \in owned : {RowLock(q), VersionsLock(q)} \cap job[p].held = {}
  /\ users' = users \ {u}
  /\ rows' = [q \in DOMAIN rows \ owned |-> rows[q]]
  /\ clean' = [q \in Jobs |-> FALSE]
  /\ UNCHANGED <<versions, head, job, started>>

(* seed_corpus: get or create the curator, then for each corpus recipe ...  *)
StartSeed(p) ==
  /\ Start(p, [NoJob EXCEPT !.kind = "seed", !.step = "store", !.owner = SeedStamp.author,
                            !.todo = DOMAIN Corpus])
  /\ users' = users \cup {SeedStamp.author}
  /\ clean' = [q \in Jobs |-> clean[q] /\ SeedStamp.author \in users]
  /\ UNCHANGED <<versions, head, rows>>

(* ... commit it to the store (a no-op if HEAD has the content already),   *)
(* then project it in a transaction of its own.                            *)
SeedCommit(p) ==
  LET r == First(job[p].todo) IN
  /\ job[p].step = "store"
  /\ \/ CommitNoOp(r, Corpus[r]) /\ clean' = [clean EXCEPT ![p] = TRUE]
     \/ CommitVersion(r, Corpus[r], SeedStamp) /\ clean' = [q \in Jobs |-> q = p]
  /\ job' = [job EXCEPT ![p].step = "read"]
  /\ UNCHANGED <<rows, users, started>>

(* reindex --recipe: the recipe exists and its HEAD's author resolves.     *)
StartReindexOne(p, r) ==
  /\ \E v \in head[r] :
       /\ v.stamp.author \in users
       /\ Start(p, [NoJob EXCEPT !.kind = "one", !.step = "read", !.todo = {r},
                                 !.owner = v.stamp.author])
  /\ clean' = [clean EXCEPT ![p] = TRUE]
  /\ UNCHANGED <<versions, head, rows, users>>

-----------------------------------------------------------------------------
(* project_recipe, in whatever command: read the history ...               *)
ReadHistory(p) ==
  /\ job[p].step = "read"
  /\ \E walk \in {Walk(First(job[p].todo))} :
       Move(p, [job[p] EXCEPT !.history = NewestFirst(walk), !.step = "slug"])

(* ... and the slugs in use; nothing of this recipe is locked yet ...       *)
ReadSlugs(p) ==
  LET j == job[p] IN
  /\ j.step = "slug"
  /\ Move(p, [j EXCEPT !.slug = UniqueSlug(First(j.todo), j.history[1].content, VisibleTo(p)),
                       !.step = "lock"])

(* ... take the row: select for update, or the new row's unique recipe id   *)
(* (an insert that loses the race for it finds and locks the winner's row)  *)
(* ...                                                                     *)
LockRow(p) ==
  LET j == job[p] IN
  /\ j.step = "lock" /\ ~Waits(p)
  /\ Move(p, [j EXCEPT !.held = @ \cup {RowLock(First(j.todo))}, !.step = "row"])

(* ... update or create it: the index entries of its new and its old slug  *)
(* are taken ...                                                           *)
WriteRow(p) ==
  LET j    == job[p]
      r    == First(j.todo)
      seen == VisibleTo(p)
  IN /\ j.step = "row" /\ ~Waits(p) /\ ~SlugTaken(r, j.slug, seen)
     /\ Move(p, [j EXCEPT !.held = @ \cup {SlugLock(j.slug)}
                                     \cup {SlugLock(seen[q].slug) : q \in {r} \cap DOMAIN seen},
                          !.step = "versions"])

(* ... unless another recipe has the slug by now, or has the fallback as    *)
(* well: the database refuses the row.                                     *)
RowRefused(p) ==
  /\ job[p].step = "row" /\ ~Waits(p)
  /\ SlugTaken(First(job[p].todo), job[p].slug, VisibleTo(p))
  /\ Fail(p)

(* ... and replace its versions.                                           *)
ReplaceVersions(p) ==
  LET j == job[p]
      r == First(j.todo)
  IN /\ j.step = "versions" /\ ~Waits(p)
     /\ Move(p, [j EXCEPT !.held = @ \cup {VersionsLock(r)},
                          !.pending = Put(r, Row(j.history, j.slug, j.owner), @),
                          !.todo = @ \ {r},
                          !.step = IF j.kind = "full" THEN "owner" ELSE "commit"])

Done(p) == job[p].step = "commit" \/ (job[p].step = "owner" /\ job[p].todo = {})

(* The owners of the rows written exist: foreign keys are checked at commit. *)
OwnersExist(p) == \A r \in DOMAIN job[p].pending : job[p].pending[r].owner \in users

(* The transaction commits.  seed_corpus goes on with its next recipe.      *)
CommitCatalog(p) ==
  LET j == job[p] IN
  /\ Done(p) /\ OwnersExist(p)
  /\ rows' = VisibleTo(p)
  /\ job' = [job EXCEPT ![p] =
               IF j.todo = {} THEN NoJob
               ELSE [NoJob EXCEPT !.kind = j.kind, !.step = "store", !.owner = j.owner,
                                  !.todo = j.todo]]
  /\ Disturb(p)
  /\ UNCHANGED <<versions, head, users, started>>

(* An owner is gone; or a rebuild that others have written next to meets    *)
(* version rows newer than the statement that deleted them, of a row it     *)
(* has deleted (whether there are any is left open).                       *)
CommitRefused(p) ==
  /\ Done(p)
  /\ ~OwnersExist(p) \/ (job[p].kind = "full" /\ ~clean[p])
  /\ Fail(p)

(* Fault: the victim of a deadlock repeats its statement, and keeps what it *)
(* has locked.                                                             *)
DeadlockRepeats(p) == Deadlocked(p) /\ UNCHANGED vars

(* Postgres ends a deadlock by aborting one of the transactions in it.      *)
DeadlockAborts(p) == Deadlocked(p) /\ Fail(p)

-----------------------------------------------------------------------------
(* reindex --full: open the transaction and delete ...                     *)
StartReindexFull(p) ==
  /\ Start(p, [NoJob EXCEPT !.kind = "full", !.step = "clear", !.left = DOMAIN rows])
  /\ clean' = [clean EXCEPT ![p] = TRUE]
  /\ UNCHANGED <<versions, head, rows, users>>

(* ... the version rows, those of one recipe after the other ("clear"), and *)
(* once more those of the rows listed then ("cascade"); a row that is gone  *)
(* when its turn comes has none ...                                        *)
DeleteVersions(p) ==
  LET j == job[p]
      r == First(j.left)
  IN /\ j.step \in {"clear", "cascade"} /\ j.left # {} /\ ~Waits(p)
     /\ Move(p, [j EXCEPT !.held = @ \cup {VersionsLock(q) : q \in {r} \cap DOMAIN rows},
                          !.left = @ \ {r}])

(* ... (Recipe.objects.all().delete() lists the rows; the cascade to their  *)
(* versions comes before the rows) ...                                     *)
ListRows(p) ==
  /\ job[p].step = "clear" /\ job[p].left = {}
  /\ Move(p, [job[p] EXCEPT !.listed = DOMAIN rows, !.left = DOMAIN rows, !.step = "cascade"])

CascadeEnds(p) ==
  /\ job[p].step = "cascade" /\ job[p].left = {}
  /\ Move(p, [job[p] EXCEPT !.left = job[p].listed, !.step = "delete"])

(* ... and the rows listed.                                                *)
DeleteRow(p) ==
  LET j    == job[p]
      r    == First(j.left)
      gone == {r} \cap DOMAIN rows
  IN /\ j.step = "delete" /\ j.left # {} /\ ~Waits(p)
     /\ Move(p, [j EXCEPT !.held = @ \cup {RowLock(q) : q \in gone}
                                     \cup {SlugLock(rows[q].slug) : q \in gone},
                          !.wiped = @ \cup gone,
                          !.left = @ \ {r}])

(* project_store: resolve the accounts, all at once ...                    *)
ResolveAccounts(p) ==
  /\ job[p].step = "delete" /\ job[p].left = {}
  /\ Move(p, [job[p] EXCEPT !.known = users, !.step = "list"])

(* ... list the store ...                                                  *)
ListStore(p) ==
  /\ job[p].step = "list"
  /\ Move(p, [job[p] EXCEPT !.todo = {r \in Recipes : head[r] # {}}, !.step = "owner"])

(* ... and for each recipe resolve HEAD's author and project it, or skip    *)
(* it, all in the transaction that deleted the rows.                       *)
ResolveOwner(p) ==
  LET j == job[p]
      r == First(j.todo)
      author == (CHOOSE v \in head[r] : TRUE).stamp.author
  IN /\ j.step = "owner" /\ j.todo # {}
     /\ Move(p, IF author \in j.known THEN [j EXCEPT !.owner = author, !.step = "read"]
                ELSE [j EXCEPT !.todo = @ \ {r}])

-----------------------------------------------------------------------------
Projects(p) ==
  \/ ReadHistory(p) \/ ReadSlugs(p) \/ LockRow(p) \/ WriteRow(p) \/ RowRefused(p)
  \/ ReplaceVersions(p) \/ CommitCatalog(p) \/ CommitRefused(p)

Rebuilds(p) ==
  \/ DeleteVersions(p) \/ ListRows(p) \/ CascadeEnds(p) \/ DeleteRow(p)
  \/ ResolveAccounts(p) \/ ListStore(p) \/ ResolveOwner(p)

JobStep(p) == SeedCommit(p) \/ Projects(p) \/ Rebuilds(p) \/ DeadlockAborts(p)

Next ==
  \/ \E r \in Recipes : \E e \in Edits[r] : Edit(r, e[1], e[2])
  \/ \E u \in users : DeleteAccount(u)
  \/ \E p \in Jobs : StartSeed(p) \/ StartReindexFull(p) \/ JobStep(p)
  \/ \E p \in Jobs, r \in Recipes : StartReindexOne(p, r)

Spec == Init /\ [][Next]_vars

(* A command that has been started is scheduled until it ends.              *)
FairSpec == Spec /\ \A p \in Jobs : WF_vars(JobStep(p))

-----------------------------------------------------------------------------
(* "Every field is derivable from the file store": however commands and     *)
(* commits interleave, a row shows one version of the recipe together with  *)
(* exactly one lineage it once had, never a mixture of two reads of the     *)
(* store; if no version in it is older than its parent, that version is the *)
(* lineage's HEAD.  And no row outlives the account it names.               *)
RowsAreSnapshots ==
  \A r \in DOMAIN rows :
    LET vs  == rows[r].versions
        tip == rows[r].head
    IN /\ rows[r].owner \in users
       /\ vs \subseteq versions[r] /\ tip \in vs
       /\ \A v \in vs : v.parents \subseteq vs
       /\ InOrder(vs) => \A v \in vs : v = tip <=> ~\E u \in vs : v \in u.parents

(* test_head_matches_the_store: the commit of a projection nobody interferes *)
(* with leaves the recipe's full history, and shows the store's HEAD if no  *)
(* version is older than its parent.                                       *)
UndisturbedProjectionIsFresh ==
  [][\A p \in Jobs : CommitCatalog(p) /\ clean[p] =>
       \A r \in DOMAIN job[p].pending :
         /\ rows'[r].versions = versions[r]
         /\ InOrder(versions[r]) => rows'[r].head \in head[r]]_vars

(* What the catalog ought to be, stated over the store and the accounts     *)
(* alone: a row for every recipe whose HEAD's author has an account; the    *)
(* plain slug for the first recipe of a title, in id order.                 *)
HeadOf(r) == CHOOSE v \in head[r] : TRUE
Projectable == {r \in Recipes : head[r] # {} /\ HeadOf(r).stamp.author \in users}
Title(r) == TitleOf[HeadOf(r).content]
Image ==
  [r \in Projectable |->
    [slug     |-> IF \E q \in Projectable : Position(q) < Position(r) /\ Title(q) = Title(r)
                  THEN <<Title(r), SuffixOf[r]>> ELSE <<Title(r)>>,
     owner    |-> HeadOf(r).stamp.author,
     head     |-> HeadOf(r),
     versions |-> versions[r]]]

(* "Postgres is a cache": a full rebuild nobody interferes with leaves      *)
(* exactly the image of the store, whatever the catalog held before, if no  *)
(* version is older than its parent.                                       *)
UndisturbedRebuildIsExact ==
  [][\A p \in Jobs : CommitCatalog(p) /\ clean[p] /\ job[p].kind = "full" =>
       ((\A r \in Recipes : InOrder(versions[r])) => rows' = Image)]_vars

(* A command that was started ends, although the transactions of others     *)
(* hold what it needs and take their locks in other orders.                 *)
EveryJobEnds == \A p \in Jobs : job[p].kind # "none" ~> job[p].kind = "none"

(* _unique_slug: "A stable, unique slug.  Deterministic so a rebuild         *)
(* reproduces it", never dependent on projection order: where the catalog   *)
(* shows the HEAD of every recipe in the store already, a rebuild nobody    *)
(* interferes with leaves every row the slug it had.                       *)
RebuildKeepsSlugs ==
  [][\A p \in Jobs :
       /\ CommitCatalog(p) /\ clean[p] /\ job[p].kind = "full"
       /\ \A r \in Recipes : head[r] # {} => r \in DOMAIN rows /\ rows[r].head \in head[r]
       => \A r \in DOMAIN rows \cap DOMAIN rows' : rows'[r].slug = rows[r].slug]_vars

=============================================================================
