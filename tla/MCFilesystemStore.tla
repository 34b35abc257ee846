------------------------- MODULE MCFilesystemStore -------------------------
(* Constants that a cfg cannot write down, for the runs of FilesystemStore. *)
EXTENDS StoreRefinement

OneFile  == <<"recipe.json">>
AllFiles == <<"recipe.json", "recipe.cook", "README.md">>

=============================================================================
