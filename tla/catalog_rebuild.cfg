SPECIFICATION MCFairSpec
CONSTANTS
  Recipes   = {"r1", "r2"}
  Contents  = {"A", "C"}
  Stamps    <- FewStamps
  Jobs      = {p1, p2}
  Ids       <- TwoIds
  TitleOf   <- TwoTitles
  SuffixOf  <- TwoSuffixes
  Corpus    <- SeedOne
  SeedStamp <- EarlySeed
  Edits     <- OneEdit
  Accounts  = {"ann"}
  MaxJobs   = 2
INVARIANTS
  RowsAreSnapshots
  HistoryIsTheLineage
  LineageLinear
  OnlyHeadIsALeaf
PROPERTIES
  UndisturbedProjectionIsFresh
  UndisturbedRebuildIsExact
  EveryJobEnds
CHECK_DEADLOCK FALSE
