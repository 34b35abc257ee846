---------------------------- MODULE RecipeStore ----------------------------
(***************************************************************************)
(* The version store as its callers understand it: every operation is one  *)
(* atomic step.  This is the specification RecipeStore (store/base.py)     *)
(* promises and MemoryStore (store/memory.py) implements by construction;  *)
(* FilesystemStore.tla models the backend in which a commit is a series of *)
(* file-system calls.                                                      *)
(*                                                                         *)
(* A version id is the hash of (content, parents, author, created_at,      *)
(* message, origin).  Hashes are taken to be collision-free, so a version  *)
(* here IS the tuple that is hashed and "the same id" is equality.  Content *)
(* stands for everything content_hash covers, a stamp for what the caller  *)
(* adds: author, created_at, message, origin.  Parent pointers are a set   *)
(* of versions: empty for a root, a singleton in milestone 1's linear      *)
(* lineage.  commit also takes an explicit list of parents, for merges that *)
(* are to come; nothing in the repository passes one, and it is left out:  *)
(* the parent is HEAD.                                                     *)
(*                                                                         *)
(* head[r] is the set of versions the branch ref names: empty as long as   *)
(* the recipe is new, a singleton from its first commit on.                *)
(***************************************************************************)
CONSTANTS Recipes,    \* recipe ids
          Contents,   \* canonical recipe contents (content hashes)
          Stamps      \* [author, at] pairs a commit may carry; at is created_at

VARIABLES versions,   \* versions[r]: the version records stored for r
          head        \* head[r]: the version(s) the branch of r points at

storeVars == <<versions, head>>

(* build_version_record *)
Version(c, parents, s) == [content |-> c, parents |-> parents, stamp |-> s]

StoreInit ==
  /\ versions = [r \in Recipes |-> {}]
  /\ head     = [r \in Recipes |-> {}]

(* The content at HEAD is already c: commit has nothing to record.         *)
Unchanged(r, c) == \E v \in head[r] : v.content = c

(* commit, when the no-op rule applies: HEAD is returned, nothing written. *)
CommitNoOp(r, c) ==
  /\ Unchanged(r, c)
  /\ UNCHANGED storeVars

(* Fault: every record is a root.                                          *)
ForgetsItsParent(r, c, s) ==
  LET new == Version(c, {}, s) IN
  /\ ~Unchanged(r, c)
  /\ versions' = [versions EXCEPT ![r] = @ \cup {new}]
  /\ head'     = [head EXCEPT ![r] = {new}]

(* commit, when there is something to record: put the version, move HEAD.  *)
(* created_at is whatever the caller passes, overtaken or not.              *)
CommitVersion(r, c, s) ==
  LET new == Version(c, head[r], s) IN
  /\ ~Unchanged(r, c)
  /\ versions' = [versions EXCEPT ![r] = @ \cup {new}]
  /\ head'     = [head EXCEPT ![r] = {new}]

Commit(r, c, s) == CommitNoOp(r, c) \/ CommitVersion(r, c, s)

StoreNext == \E r \in Recipes, c \in Contents, s \in Stamps : Commit(r, c, s)

StoreSpec == StoreInit /\ [][StoreNext]_storeVars

-----------------------------------------------------------------------------
(* Type invariant: what each variable holds, in the shapes commit gives it. *)
StoreTypeOK ==
  /\ DOMAIN versions = Recipes
  /\ \A r \in Recipes : \A v \in versions[r] :
       /\ v = Version(v.content, v.parents, v.stamp)
       /\ v.content \in Contents /\ v.stamp \in Stamps
  /\ DOMAIN head = Recipes

(* HEAD always names a stored version, and every parent pointer of a stored *)
(* version leads to a stored version, so head() and history() never meet    *)
(* the missing object they guard against (base.py, head and history).       *)
LineageClosed ==
  \A r \in Recipes :
    /\ head[r] \subseteq versions[r]
    /\ \A v \in versions[r] : v.parents \subseteq versions[r]

(* "M1 is linear lineage only": no version is the parent of two others, so  *)
(* nobody's commit is bypassed by a sibling.                                *)
LineageLinear ==
  \A r \in Recipes : \A u, v \in versions[r] : u.parents = v.parents => u = v

(* The no-op rule at the level of the lineage: no stored version repeats    *)
(* the content of its own parent (whitespace churn forks nothing).          *)
NoVersionRepeatsItsParent ==
  \A r \in Recipes : \A v \in versions[r] : \A p \in v.parents : p.content # v.content

(* HEAD is the one leaf: every stored version but HEAD has a child, so all  *)
(* of them are reachable from HEAD and none is orphaned.                    *)
OnlyHeadIsALeaf ==
  \A r \in Recipes : \A v \in versions[r] :
    v \in head[r] \/ \E u \in versions[r] : v \in u.parents

=============================================================================
