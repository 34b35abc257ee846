SPECIFICATION Spec
CONSTANTS
  Recipes   = {"r1", "r2"}
  Contents  = {"A"}
  Stamps    <- FewStamps
  Jobs      = {p1}
  Ids       <- TwoIds
  TitleOf   <- OneTitle
  SuffixOf  <- TwoSuffixes
  Corpus    <- SeedOne
  SeedStamp <- EarlySeed
  Edits     <- AnnsEdits
  Accounts  = {"ann"}
  MaxJobs   = 3
PROPERTIES
  RebuildKeepsSlugs
CHECK_DEADLOCK FALSE
