# Snap Cook: specifications, model checking and proofs

Snap Cook keeps recipes as versioned graphs in a store of plain files; Postgres is a cache that
is rebuilt from that store, and a web application renders a recipe for each reader in their
language, units and scale. This directory specifies in TLA+ the parts of it in which something
can go wrong that a unit test would hardly reach: commits by several processes to files without a
lock, crashes between two writes, a cache derived from a store that moves on, the two graph
algorithms every recipe passes through, the way from a stored quantity to the number on a page, a
text format that must survive being read and printed, and requests that are authorised by one
piece of state and answered from another.

Paths below are relative to the repository; `core` stands for
`packages/snapcook-core/src/snapcook_core`, `web` for `apps/web`.

## 1. The system

| Component | State | Operations | Talks to |
|---|---|---|---|
| Version store, shared logic (`core/store/base.py`, `memory.py`) | version records by id, branch head of each recipe | `commit`, `head`, `head_recipe`, `history`, `list_recipe_ids` | its backend |
| Filesystem backend (`core/store/fs.py`) | `versions/<id>`, `refs/heads/main`, three projection files | `_put_version`, `_get_version`, `_read_head_ref`, `_write_head_ref`, `_write_projections` | the file system, shared by all processes |
| Catalog (`web/catalog`) | rows `Recipe`, `RecipeVersion` in Postgres | `project_recipe`, `project_store`, `reindex --full`, `reindex --recipe`, `seed_corpus` | store (reads, and commits when seeding), accounts (foreign key) |
| Recipe graph (`core/schema/recipe.py`, `graph.py`) | none: an immutable value checked at construction | `_internal_references_resolve`, `_validate_graph`, `_assert_acyclic` | everything that constructs an `Action` or a `Recipe` |
| Topological order (`core/render/toposort.py`) | none | `topological_actions` | renderer, Cooklang printer |
| Quantities, scaling, rounding, units, densities (`core/schema/quantity.py`, `core/units`) | none | `scale_spec`, `convert_value`, `format_quantity` | renderer |
| Render model (`core/render/build.py`) | locals of one call: labels, steps, warnings, drawing | `build_render_model` | views; toposort, units, registry, localised text |
| Cooklang parser and printer (`core/cooklang`) | locals of one call: names of states, the scanner | `parse_cook`, `print_cook` | authoring tools, projections |
| Canonical encoding and hashing | none | `content_hash`, `version_id` | store |
| Localised text, ingredient registry | none | `resolve`, `name_for`, `get` | renderer |
| Views and access (`web/recipes`, `web/catalog/access.py`) | none | `index`, `detail` | catalog rows, HEAD of the store, preferences |
| Accounts, API tokens (`web/accounts`, `web/api`) | rows in Postgres; the probe file of the health check | issue, authenticate, `/me`, `/ops/api/health` | catalog (cascade), settings |

`PROJECT.json` lists every component with the reason when it is not modelled.

**What is hard.** The store is opened by web workers, a background worker and management commands
at once. None takes a lock; `Path.write_text` truncates first and writes afterwards; `commit` reads
HEAD, decides, and writes later; a process may be killed between any two calls. The catalog is
written by commands that read the store first and write a row later, inside transactions that wait
for each other, while edits and account deletions go on. `history()` does not follow the parent
pointers but sorts on a time that callers supply. A recipe's graph is checked by one implementation
of Kahn's algorithm and ordered by another one. A page is rendered from values that were checked
when they were stored; what it shows has been scaled, converted and rounded, and what could not be is
in a warning that is collected somewhere else. A request checks a row, reads the store, and answers,
while commits, projections, deletions, expiry and revocation go on.

**What correctness means, per component.**

* Store: HEAD and parent pointers lead to records that exist and can be read; a lineage is one line;
  nothing that was committed becomes unreachable; a no-op records nothing; `None` for a head means
  that the recipe is new; projections show HEAD.
* `history()`: every version once; HEAD first and each followed by its parent, as long as no version is
  older than its parent.
* Catalog: a row is a snapshot the store once had, never a mixture; a projection nobody interferes with
  is fresh; a rebuild nobody interferes with yields the image of the store whatever was there before;
  every command ends, although commands take the same locks in opposite orders.
* Graph: refused as cyclic exactly when it is cyclic; whatever is accepted can be ordered; the order
  respects dependencies and is a function of the graph.
* Rendering: no amount and no timer is silently left unscaled; the exact amount beside the number is the
  stored one times the factor; no number is rounded away; what a line flags, the notes explain; no
  reference is left raw; the drawing is the recipe.
* Cooklang: what the parser builds is a recipe; a document that is read, printed and read again is the
  same document and the same recipe.
* Requests: nobody is served as somebody else; a valid token is refused only for a reason; a page shows
  HEAD to those HEAD is visible to; every reader gets a view that can be rendered; a health check is not
  degraded without cause.

## 2. Modules

| Module | Models | How it is used |
|---|---|---|
| `RecipeStore` | the store its callers rely on: `commit` as one step | abstract specification; extended by `History`; target of the refinement |
| `History` | `history()`: walk from HEAD, stable sort on `created_at` | pure operators over the store's state |
| `FilesystemStore` | `fs.py` under `commit` and `head_recipe`: one action per file-system call, processes, crashes | the detailed store |
| `StoreRefinement` | the refinement mapping from `FilesystemStore` to `RecipeStore` | `ImplementsAtomicStore` |
| `MCFilesystemStore` | projection lists | runs of the two modules above |
| `Catalog` | projection, reindex, seeding as processes over store and rows | composes `RecipeStore`/`History` with the rows, the accounts and the commands |
| `MCCatalog` | titles, suffixes, stamps, corpus, the state run `catalog_rebuild` starts from | runs of `Catalog`, and through it of `RecipeStore` and `History` |
| `RecipeGraph` | construction checks and toposort, one turn of a loop per step | extended by `Render` |
| `Quantities` | scaling policies, the unit table, conversion, rounding and display | operators over ratios, used by `Render` and `Cooklang` |
| `Render` | construction of actions, then the recipe's graph, then `build_render_model` | composes `RecipeGraph` and `Quantities`; its steps are steps of `RecipeGraph` or leave it alone |
| `MCRender` | recipes, what their actions say, registry, readers | runs of `Render`; its ASSUMEs check conversions against each other |
| `Cooklang` | parser and printer, one token per step, two rounds | uses `Quantities` for units |
| `MCCooklang` | documents of up to three steps | runs of `Cooklang` |
| `Requests` | pages, product API and ops API, one query, read or file operation per step | workers and an environment that changes what they read |
| `MCRequests` | accounts, tokens, query strings, environments | runs of `Requests` |
| `*_proofs` | theorems of the module in the name; `FilesystemStore_proofs` also those of `StoreRefinement` | TLAPS |

A definition introduced by a comment beginning `Fault:` is not part of a specification. It is a
plausible bug for one definition, kept next to it and listed in `PROJECT.json` under `mutants`, to
show that a property notices it.

### The store

A version id hashes content, parents, author, `created_at`, message and origin. Hashes are taken to be
collision-free, so a version *is* that tuple, and two commits produce one id exactly if they agree in
all of it. `Contents` are the canonical contents, a stamp is everything the caller adds. `head[r]` is
the set of versions the ref names: `{}` is Python's `None`.

`RecipeStore.CommitNoOp` and `CommitVersion` are the two outcomes of `commit` (`base.py:127`).
`MemoryStore` implements them by construction. `created_at` is whatever the caller passes; nothing in the
code compares it with the parent's, and neither does the model. `InOrder` says of a set of versions that none
is older than its parent; only statements about the *order* of `history()`, and about what is read off its
first entry, are made under it. `commit` also takes an explicit list of parents, for merges to come. Nothing
in the repository passes one, and both store modules leave it out.

`FilesystemStore` runs `commit` call by call. `pc[w]` names the next call:

| `pc` | actions | code |
|---|---|---|
| `idle` | `BeginCommit` | entry of `commit` |
| `readRef` | `ReadHeadRef` | `_read_head_ref`; missing and empty file both read as `None` |
| `getHead` | `GetHeadUnchanged` (return HEAD), `GetHeadChanged`, `GetHeadRaises` | `_get_version`, no-op rule |
| `openVersion`, `writeVersion` | `OpenVersion`, `WriteVersion` | `_put_version`: truncate, write |
| `openRef`, `writeRef` | `OpenRef`, `WriteRef` | `_write_head_ref`: truncate, write |
| `getProjected` | `GetProjected`, `GetProjectedRaises` | the record is read again before it is projected |
| `openFile`, `writeFile` | `OpenFile`, `WriteFile` | each projection: truncate, write |

`torn` is the set of records that are truncated and not yet written; they do not validate. Two
writers of one projection overwrite each other at offset 0, so a file may hold a mixture, modelled as
a set of contents. `Crash` kills a writer anywhere; its locals are gone and its files stay. Left out:
`.snapcook/HEAD` and `config.json`, which nothing reads back.

### The catalog

`versions` and `head` are the store, changed by `Edit` (commits that bypass the catalog) and
`SeedCommit`. `rows` is the committed table; `job[p]` is the command process `p` runs, with what it has
read and written so far and the locks it holds.

Every statement at which a command can wait is a step of its own, because a transaction waits with all its
locks in hand:

| `step` | actions | code |
|---|---|---|
| `store` | `SeedCommit` | `seed_corpus`: commit, then project in a transaction |
| `read`, `slug` | `ReadHistory`, `ReadSlugs` | `history`, `_unique_slug`: nothing of the recipe is locked yet (`projection.py:65`, `:56`) |
| `lock`, `row` | `LockRow`, `WriteRow`, `RowRefused` | `update_or_create`: the recipe's row, then the unique index on slugs (`projection.py:76`) |
| `versions` | `ReplaceVersions` | `_project_versions` deletes and inserts the version rows (`projection.py:100`) |
| `clear`, `cascade` | `StartReindexFull`, `DeleteVersions`, `ListRows`, `CascadeEnds` | a rebuild deletes version rows first (`reindex.py:83`), and once more with the rows (`:84`) |
| `delete` | `DeleteRow`, `ResolveAccounts` | then the recipe rows with their slugs (`reindex.py:84`); then all accounts are read |
| `list`, `owner` | `ListStore`, `ResolveOwner` | `project_store`: for each recipe, HEAD's author, then `project_recipe` |
| `commit`, or `owner` with nothing left | `CommitCatalog`, `CommitRefused` | the transaction ends; owners are foreign keys checked at commit |

So a rebuild locks version rows before recipe rows and a projection does the reverse. `Needs(p)` is the lock
the next statement asks for, `Waits(p)` disables it while another transaction holds it, and `DeadlockAborts`
is what Postgres does to one of several that wait in a circle: it raises, rolls back, and its locks are free.
`VisibleTo` is what read-committed isolation lets a command see. These model the database as the code uses
it. `clean[p]` records whether anybody else wrote anything since `p` began to read; apart from
`CommitRefused`, which may refuse a rebuild others have written next to, no guard looks at it.

### The graph

A recipe is a list of actions (`id`, `order`, `uses`, `produces`). One behaviour takes one recipe
through construction (`RejectGraph`, `RejectDangling`, `RejectSelfUse`, `BeginCheck`, `CheckPop`,
`EndCheck`) and, if it is accepted, through `topological_actions` (`BeginSort`, `SortPop`, `EndSort`).
`Load` and `Pop` are what both loops have in common. The check pops a plain list and only counts, so
which ready id it takes is left open; the sort pops the least by `(order, id)`. A use is a *position*
in `uses`, so a state named twice counts twice, as in the code.

### Quantities and rendering

A `Decimal` is a ratio in lowest terms. `Scalar`, `Range`, `Count` and `Approx` are one record with two
ends; the three validators are `SpecOK`. `ScaleSpec` returns the quantity, whether a warning is due and
whether the factor raises. `ConvertValue` returns an amount or one of the two exceptions. A displayed
number (`Shown`) is the number a reader reads off the page, with the form it is written in: a fraction
of the unit's ladder, a decimal, or a whole number.

`Render` keeps what an action says beside its place in the graph as its `content`, a function of the
action id. `view` follows one recipe: `writing`, then `ConstructActions` (which may refuse), then the
steps of `RecipeGraph`, then a reader comes (`Open`: `_state_labels`), each step is rendered
(`RenderStep`, which adds the step and its warnings or raises), and the graph is drawn (`DrawStates`,
`DrawAction`, `Show`). `Resolve` and `NameFor` are the two fallback chains, which differ at their end.

### Cooklang

A document is a list of steps, a step a list of lexemes. What the regular expressions see is in the
lexemes: sigils, text, `=>`, groups in braces with their body classified as `_parse_quantity` does.
`_PRODUCE` takes the leftmost arrow behind which no sigil and no brace stands, and what follows it to the
end of the step, further arrows included, is the name (`IsArrow`, `Arrow`).
`ReadState`, `ReadIngredient`, `ReadCookware`, `ReadTimer`, `ReadTemperature` and `ReadLiteral` are the
turns of `_StepScanner.run`; `EndStep` is the rest of `_parse_step`, `EndDocument` of `parse_cook`;
`PrintCook` prints the recipe and starts a second round over what was printed. An ingredient's name
swallows whatever stands before the next brace, other sigils included, and so it does in the model.
`DocumentsAreWritten` says which documents there are: a step is not blank (`_split_steps` drops blank
blocks), and the lexeme `@&` comes with its group (without one the scanner takes `@` for an ingredient).
Below the lexemes, and left out: a brace without its partner, and `@=>`, where the one `=` would be both a
modifier and half an arrow.

### Requests

A worker has one request: who sends it and with what, how far it is, what it has read, the answer. The
last four fields of `Request` only observe (which tokens were dead when it began, whether the row and
HEAD agreed and nobody wrote, whether another health check ran, whether something was out of order); no
guard looks at them. `Visit`, `FindRow`, `ReadHead`, `ChooseOptions` are `detail`; `VisitIndex`,
`ListRows` are `index`; `CallMe`, `Authenticate`, `AnswerMe` the product API; `CallHealth`,
`TouchProbe`, `UnlinkProbe` the ops API. The environment commits, projects, deletes accounts, issues
and revokes tokens, lets time pass, and takes the database or the disk away. The surfaces share only
the accounts, so one behaviour serves one of them.

## 3. Runs

| Run | Question | Bounds and why they are enough |
|---|---|---|
| `fs_serial` | Does one unharmed writer implement the atomic store (refinement)? Do projections follow, does `None` mean new, is an emptied ref filled again? | Four commits, all three projection files, a reader beside it |
| `fs_writers` | Do HEAD, parents and acknowledged versions stay stored and readable, do readers never fail, with concurrent writers and a crash? | Two writers, a reader, three commits, one crash: one commit may be orphaned, one torn and one built on top |
| `fs_seeders` | The same with one constant stamp (`seed_corpus`): closed lineage, no-op rule, every commit ends | Two writers, three commits, one crash: two of them can write one id while the third reads it |
| `catalog_rebuild` | Are rows snapshots, an undisturbed projection fresh, an undisturbed rebuild exact? Do commands that lock in opposite orders all end? Is the lineage under them one closed line that `history()` lists whole? | It starts from a deployment some commands old (`MCInit`: a corpus recipe seeded, projected and edited within the second; another one of the same title, projected second and holding the fallback slug), a state that two commands and two edits lead to from `Init`. Two commands, two recipes, two accounts: every pair of commands, with edits and account deletions between any two steps. A pair of a rebuild and a projection is the least that can deadlock, and does. Two seeds commit the constant time over a later edit, so lineages with a version older than its parent are among the states |
| `render` | Verdicts, terminal states, least order, termination; and what a page shows | 6,161 recipes of up to three actions: cycles of length one to three, multi-edges, dangling uses, double producers, repeated ids, ties; four contents (two of them with a wrong reference) with every kind of quantity, policy and chunk; eight readers with factors 0, 1/10, 1, 3/2 and 3 |
| `cooklang` | Is what the parser builds sound, and do reading and printing invert each other? | All lists of up to three of eleven steps that use, redefine, swallow and forward-reference names, two of them with several arrows, and four steps that are refused, 1,470 documents: three steps are the least in which a name is redefined and used again |
| `requests` | Who is served, who is refused, what do pages, readers and health checks get? | Two workers, two accounts, two tokens (which may share a prefix), two versions, three environments; three concurrent or consecutive health checks, one request to the other surfaces, since no other request writes what a request reads |
| `fs_fork` (violation) | "linear lineage only", with two writers | see findings |
| `catalog_slugs` (violation) | "a rebuild reproduces it", of a slug | one process, three commands, two recipes of one title |
| `render_temperatures` (violation) | "never changed, emits a warning", of an oven temperature | recipes of one step |
| `cook_reread` (violation) | "reads back into an equivalent recipe", for a recipe made in code | see findings |
| `token_issued` (violation) | the issued form is the form that is read | see findings |

Deadlock is checked for `fs_serial` and `fs_writers`, where a reader is always possible. In the others the
bound on commits or commands, or the end of the call, is a legitimate end.

**Fairness.** `FilesystemStore.FairSpec` schedules a commit that is under way: it holds no lock and
waits for nobody. A crash sends the process back to `idle`. Nothing obliges a caller to commit.
`Catalog.FairSpec` and `MCFairSpec` schedule a command that has been started (`WF(JobStep(p))`), the database's
abort of a deadlocked one included (`deadlock_timeout`). Waiting for a lock disables a step, and weak fairness
promises nothing to a step that is disabled again and again, so `EveryJobEnds` says that locks are really
released and circles really broken. `Render.RFairSpec` and `Cooklang.CFairSpec`: a
function that is called runs to its end; nothing obliges a reader to come.

## 4. What the runs show

The positive results are in the table. Five disagreements between code and documents:

* **`fs_fork`** Two processes that read the same HEAD both return a committed version with the same
  parent; the first is no longer reachable. `ConcurrentWriteError` is declared in
  `core/errors.py:112` ("Optimistic concurrency check failed") and raised nowhere.
* **`catalog_slugs`** `_unique_slug` promises a "stable, unique slug", "deterministic so a rebuild reproduces
  it", never dependent on projection order. It asks which other rows exist. Of two recipes of one title the
  one projected first has the plain slug; a rebuild projects in the order of the ids and, at rest, with all
  rows current, gives it to the other one. Both pages change their address.
* **`render_temperatures`** `ScalingPolicy.MANUAL` and `RECIPE_SPEC.md:118` promise a warning for oven
  temperatures that are not scaled. `_render_temperature` collects no issue: the page is silent.
* **`cook_reread`** An anonymous state that a later step uses is printed under a made-up name (`s1`)
  that the producing step does not declare. The parser takes the reference for text: the edge is lost
  and the order of the steps is free.
* **`token_issued`** `ApiToken.issue` uses `token_urlsafe`, whose alphabet has the underscore that
  `PatAuth.authenticate` splits at. About half of all tokens are refused for ever.

**Known limits**, which the properties step around explicitly, each where a comment says so:

* A process killed between truncating and writing the ref leaves a recipe with versions that reads as
  new (`NoneMeansNew`); killed after the ref, it leaves stale projections, which a retried commit, being
  a no-op, does not rewrite (`ProjectionsFollowHead`). Set `MaxCrashes = 1` in `fs_serial.cfg` to see
  either.
* `project_recipe` takes `history()[0]` for HEAD, and the order is by the callers' `created_at`.
  `seed_corpus` commits under a constant time: over a later edit it commits the corpus content on top and
  projects the edit. Such lineages are in the run; what depends on the order is claimed only where no version is
  older than its parent (`InOrder`), and that every version is listed and projected is claimed without it.
* The fallback slug cuts eight characters out of a ULID, its time down to about a second, and is not checked
  again. Two recipes of a held title with one suffix fail on the unique index, and a rebuild with them fails as a
  whole each time (`RowRefused` models it; no run has such ids). The slug is unique because the database refuses
  the row, not because `_unique_slug` makes it so.
* `DeleteAccount` is one step: account deletion waits for locks but holds none while it waits. A handle and
  the account it resolves to are one value, where `owner_resolver_from_db` looks among user names first and
  e-mail addresses second. `CommitRefused` leaves open whether a rebuild next to which others have written
  meets version rows it has not deleted, so it refuses in more cases than Postgres does.
* Where two commits put one id, as two seeders do, `RecordsImmutable`, `LineageReadable` and
  `ReadersNeverFail` do not hold; they are stated for `FreshStamps`, and `fs_seeders` checks what is
  left without it.
* Two actions with one id pass construction, and the sort returns one of them. The reader's promises
  are stated for `DistinctIds`; `DependenciesFirst` and `SortIsLeast` hold without it.
* A US range whose ends take different forms can read backwards (0.13 to 0.14 tsp as "1/8–0.1").
* Ids of steps, states and joins are different things in `Render`'s drawing, where `_build_graph` puts them
  into one set of strings: an id that equals a made-up `start_...` or `join_...` is outside the model.
* Ratios are exact; the code's `Decimal`s carry 28 digits, so a conversion there and back is not exact. What is
  claimed of conversions is claimed of ratios.
* An empty timer is read as 0 and printed as a count, which the parser refuses (`HasEmptyTimer`).
* `?scale=nan` is an uncaught exception; `imperial`, which preferences offer, is shown as metric; a
  preferred language `de-CH` lands on English (`ReaderGetsTheirView` says exactly which reader lands
  where). Stored preferences are claimed of a reader whose query is empty.
* Concurrent health checks share one probe file, and one of them may report "degraded".
* While a projection is outstanding, a page decides by the row's visibility and shows HEAD's content.

`docs/architecture/dag-model.md:37` asks for "exactly one terminal state, or all terminals declared as
outputs". The code knows no declared outputs and accepts any number of terminals from one up;
`AcyclicHasATerminal` shows that even this check can never refuse an acyclic recipe.

## 5. Proofs

Proved by TLAPS, for every value of the constants that satisfies the named assumptions.

**`RecipeStore_proofs`** (any recipes, contents and stamps, clocks that run as they like): type
correctness, `LineageClosed`, `LineageLinear`, `NoVersionRepeatsItsParent`, `OnlyHeadIsALeaf`.
`LineageLinear` alone is not inductive: two versions share a parent as soon as a commit
builds on a version that has a child. `HeadIsALeaf` (no stored version has the present head as its
parent) excludes it, and is preserved because HEAD moves to a version that was not stored, which
therefore is nobody's parent (`LineageClosed`).

`HistoryIsTheLineage` is proved for every store (`HistoryIsComplete`). The invariant `LineageIsListed` says
that each recipe's versions can be put in one list from HEAD down, each entry the parent of the one before.
The walk of `history()` is a recursive function: it is shown to return that list, whatever the times are. A
stable sort only rearranges a list, so every version is in it once; and it leaves a list alone whose times
never grow, which the lineage is where no version is older than its parent.

**`FilesystemStore_proofs`** (any number of writers, readers, commits and crashes): `TypeOK`,
`LineageStored` and `NoVersionRepeatsItsParent` whatever the stamps; `LineageReadable`,
`ReadersNeverFail` and the action property `RecordsImmutable` when no two commits carry one stamp. The
invariant has two layers. `Closed`: from `OpenVersion` on the record of a commit is on disk, and past
the no-op check it differs from the head it builds on. `Intact`: stamps tell the commits under way
apart, so nobody truncates a record that somebody else has completed, and everything a process holds
or a file names can be read. Assumptions: readers and writers are different processes, there is some
content and some projection file, bounds are natural numbers.

The same module holds the refinement (one writer, no crash; any readers, contents, stamps and number of
commits): `OneWriterIsAtomic` proves `Spec => ImplementsAtomicStore`, that is, the initial states map
to initial states and every file-system call is a commit of `RecipeStore` or a stutter;
`ProjectionsFollowHead`, `AckedLineageIsLinear` and `NoneMeansNew` follow from the same invariant. It
adds to `Closed` how far the one commit under way has got: the ref is what the writer read until
`OpenRef` truncates it (`RefFollows`); HEAD has no child, and the record being put is nobody's parent
(`NoChild`), so opening it adds something new and `WriteRef` keeps the lineage a line; only the record
just opened is torn (`OneTorn`), so nothing raises; the projections written so far hold the new content
(`ProjectedSoFar`). `Alone` states the hypothesis (`OneWriter` and `MaxCrashes = 0`); the run
`fs_fork`, and `MaxCrashes = 1` in `fs_serial.cfg`, show that neither half can be dropped.

**`RecipeGraph_proofs`** (any recipes, any number of actions): `TypeOK`, `DependenciesFirst`,
`VerdictIsRight`, `AcyclicHasATerminal`, `SortNeverRaises`, `SortIsLeast`. The loop invariant `Kahn`: an indegree is
the number of uses whose producer has not been emitted; an id is ready exactly if that number is zero
and it has not been emitted; and no member of a set that waits in circles is ever emitted. If a loop
stops early, what is left is such a set (`StuckIsACircle`). If it does not, none exists
(`CompleteIsAcyclic`), and what the last action emitted produces is used by nothing
(`CompleteHasATerminal`). Since the check has accepted the recipe, the sort cannot stop early.
The order is least because each action that was popped was the least ready one, and any other dependency
order that agrees with it so far can only go on with a ready one (`LeastSoFar`).
Assumptions: ids are ordered as integers are, a recipe is a finite list of actions with finitely many
uses.

**`Catalog_proofs`** (any commands, recipes, accounts, edits). `CatalogOnlyCommits`: the steps of the
catalog are commits of `RecipeStore` or leave it alone, so all that is proved of the store holds under it.
No hypothesis about the clocks: what depends on the order of `history()` says `InOrder` itself, and where that
fails `ProjectionsAreFresh` still promises the full history in the row, `RebuildsLeaveTheImage` nothing. Locks
only delay and abort commands; no proof depends on them, and the proofs cover any number of commands and locks
whatever the outcome of a deadlock. The theorems speak of `Spec`, which starts from an
empty catalog; the run starts from a state such a behaviour reaches, to come further with two commands.

* `RowsAreSnapshots`. A snapshot is a set of versions, closed under parents, whose only leaf is its tip
  (`IsSnapshot`). A complete lineage is one, since HEAD is the only leaf and no version has two parents
  (`HistoryIsASnapshot`), and it stays one as the store grows (`SnapshotsStay`). So the invariant says of
  what a command holds, its history past `read` and its pending rows, the same as of the committed rows;
  commit and upsert only move it. Owners exist because the foreign key is checked when a row is committed.
* `UndisturbedProjectionIsFresh` and `UndisturbedRebuildIsExact`. The invariant `CleanInv` says what a
  command that nobody interfered with has in hand at each of its steps: the history it read is still the
  lineage (`Fresh`), and a rebuild's pending rows are the image of the recipes it has been through, in
  order (`OnTrack`), so the slug it gives the next one is the slug of the image (`SlugOfTheNext`).

**`Quantities_proofs`** (any amounts, factors, densities). `Gcd` and the powers of ten are recursive
functions, and what they compute is shown by least counterexamples over `Nat`: `Gcd` divides both
numbers and is a sum of multiples of them (`GcdDivides`), so a ratio in lowest terms is determined by its
value (`SameDecimal`) and `Times` is exact (`TimesIsExact`). From that:

* `ScalingComesBack`: scaling by a factor and by its inverse returns the quantity (the docstring of
  `scaling.py`), over exact ratios.
* `SnapMetricIsMonotone`, `CountsGrow`: the greater amount is shown as the greater number, or the same
  one. Within a band that is rounding half up; from one band to the next it holds because the end of each
  band is a multiple of both steps, and below the first step because two significant digits of
  something less than a twentieth stay below a tenth.
* `SnapMetricShows`, and `NumbersOfAreFair` for `format_quantity` as a whole.

**`Render_proofs`** (any recipes, contents, readers): `RSpec => Spec`, so the theorems of
`RecipeGraph_proofs` hold of a recipe that is rendered; then `NoAmountSilentlyUnscaled`,
`EveryReferenceShows`, `FlagsMeetWarnings`, `DrawingIsTheRecipe`, `ExactIsTheScaledAmount`,
`NumbersAreFair`. The invariant: the steps on the page are those of the first actions of the order, none
of them raised, each kept its warnings, and every warning comes from one of them (`Rendered`); there is a
label for the product of each action (`Labelled`). That an arrow of the drawing starts at something drawn
earlier needs the order, and ids that tell actions apart: `DrawingIsTheRecipe` says so itself.
`FlagsMeetTheirReasons` is proved under `UseIdsTellUses` (an id names one ingredient use in the whole
recipe, whereas construction only compares the ids within an action): warnings are found again by the id
of the use alone. The two theorems about numbers rest on `Quantities_proofs`: a factor and a change of unit
keep the two ends of a quantity in order and make nothing of none (`ScalingKeepsTheOrder`,
`ConvertedKeepsTheOrder`). Assumptions: what `schema/quantity.py` validates (`SpecsAreValid`), and that
amounts and factors are non-negative numbers (`AmountsAreDecimals`).

Two proofs that failed were right to fail. The bands of `_METRIC_BANDS` were a `CASE` whose guards overlap,
where TLA+ does not promise the first; they are an `IF` chain now, as the loop over the bands is. And
`_round_significant` looked for its first digit among five places only, where the code has no such bound.

**`Cooklang_proofs`** (any documents, of any length). `ActionsAreSound`, provided the recipes made in code
are themselves sound: the property speaks of finished steps; the invariant says the same of the step
being scanned, and that a name stands for an earlier step, which is why what `EndStep` appends refers
backwards only.

`ReadsBack` and `PrintReproducesTheText` are proved for recipes that came from a document (`Authored = {}`;
for others `cook_reread` refutes the first). Their invariant is about every step that has been read: it has a
trace (`IsStep`), which is the list of scans it went through, each beside the text printed of it so far. From
one entry to the next the text grows by one lexeme, and the scan by that lexeme, or by one token, which
reads as the step from the one scan to the other (`Event`), or is an empty timer and refused. In the second
round the scanner is shown to follow the trace of the step it reads, entry by entry (`Reread`). Three
things make that more than a look at each token:

* The printed text is not the written one: a quantity is printed from what was parsed, a temperature
  loses the words before its group, `C` and `=` appear or vanish (`TokenRewritten`: the token that is
  printed is accepted and adds what the written one did).
* A lexeme that opened no token must open none when it is printed. Whether `@` opens a token depends on
  a group anywhere behind it, so the invariant keeps, for every such lexeme of the printed text, that no
  group stands behind it there nor behind the place the reader has come to, or that it is an `@&` whose
  name no earlier step produced (`Open`, and `Settled` when the step ends).
* A step without a product must not be printed as one that ends in `=> name`, for which the invariant
  keeps what the text printed so far ends in (`Ends`); and the arrow a step is printed with must be the
  leftmost of it when it is read, so the text before it must not end in an arrow with nothing but words
  and arrows behind it (`FitsName`, `ReadsArrow`).

Whether a name is known is the same in both rounds because `name_to_state` holds, after n steps, exactly the
last producers among those n (`NamesAre`).

**`Requests_proofs`** (any workers, accounts, tokens, recipes and query strings): the five properties of
`requests`. `WellFormed` says which steps a request of each kind takes, and that tokens are a list of rows
and time a number. Each property then adds what its surface keeps true between two steps of a request, and
what the other surfaces and the environment cannot undo: a dead token stays dead, so who was dead when the
request began still is (`Held`); a row is older than HEAD or says what HEAD says, so a current row opens
what HEAD opens for as long as nobody writes (`Opened`); among the rows with one prefix there is a newest
one, and the row that is looked at is no older than the token's own (`Refused`); a view has options that
can be rendered, the stored ones where the query is silent (`Viewed`); and a health check knows of
everything that may still make it fail: an outage, an error it has met, another check that may remove the
probe (`Suspects`). Assumptions: the anonymous visitor is no account, no issued secret is guessed or
held by a request without a token, numbers are integers.

**Only model-checked.** Liveness (`EveryCommitEnds`, `RefIsRestored`, `EveryJobEnds`,
`EveryRecipeIsDecided`, `EveryDocumentEnds`) is out of TLAPS's reach. The library's induction theorems take
an operator as a parameter, which the installed provers cannot instantiate; where the data are numbers or
positions in a list a least counterexample does the same, and the proofs use it. Every other property that a
passing run checks is a theorem.

## 6. Not modelled, and why

* Canonical encoding and hashing: byte-level data without control; its injectivity is the assumption the
  store modules are built on.
* The wording and layout of the views, Mermaid text and its escaping, titles and scaled servings,
  negative amounts, aliases of units, counts turned into masses (called by nothing).
* Regular expressions and YAML below the lexemes of `Cooklang`; printing in a language other than the
  recipe's own, which the printer's docstring calls "not a reversible" projection.
* Translation staleness and binding names to the registry: look-ups no page depends on.
* Token scopes and `_require_write`, which no endpoint uses; the read-only settings endpoint; `/up`.
* Sign-in (allauth), templates, migrations, deployment scripts, the task queue (nothing is enqueued at
  this commit), the empty packages `imports`, `social`, `diff`, `importing`, `migrate`, and the mobile
  client, which is a document.

## 7. Running

```
tlc -workers 2 -config fs_writers.cfg MCFilesystemStore
tlapm FilesystemStore_proofs.tla
```

`PROJECT.json` names the module of each configuration, the source lines of each definition, the fault
for each property, and the hazards each property is aimed at. All runs finish within two minutes on
two cores.
