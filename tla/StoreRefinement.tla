-------------------------- MODULE StoreRefinement --------------------------
(***************************************************************************)
(* One writer that is not killed: the series of file-system calls in       *)
(* FilesystemStore.tla implements the atomic commit of RecipeStore.tla.    *)
(* The step that counts is WriteRef; until then the new record is on disk  *)
(* but no part of the recipe, and while the ref file is truncated the      *)
(* recipe's HEAD is still the one the writer read.                         *)
(***************************************************************************)
EXTENDS FilesystemStore

OneWriter == Writers # {} /\ \A v, w \in Writers : v = w

(* The record of a commit under way that the ref has not been moved to.    *)
Unpublished ==
  {NewVersion(w) : w \in {x \in Writers : pc[x] \in {"writeVersion", "openRef", "writeRef"}}}

HeadBeforeCommit == UNION {seen[w] : w \in {x \in Writers : pc[x] = "writeRef"}}

Atomic == INSTANCE RecipeStore WITH
            Recipes  <- {"recipe"},
            Stamps   <- 1..MaxCommits,
            versions <- [r \in {"recipe"} |-> objects \ Unpublished],
            head     <- [r \in {"recipe"} |-> ref \cup HeadBeforeCommit]

(* The filesystem store behaves as the atomic store: each commit takes its  *)
(* single parent from the previous HEAD and moves HEAD to the new version,  *)
(* or changes nothing.                                                      *)
ImplementsAtomicStore == Atomic!StoreSpec

=============================================================================
