SPECIFICATION RFairSpec
CONSTANTS
  ActionIds = {1, 2, 3}
  States    <- MCStates
  Recipes   <- MCRecipes
  Contents  <- MCContents
  Readers   <- MCReaders
  Registry  <- MCRegistry
  SourceLang = "de"
  BaseOf    <- BaseLanguages
INVARIANTS
  VerdictIsRight
  AcyclicHasATerminal
  SortNeverRaises
  DependenciesFirst
  SortIsLeast
  NoAmountSilentlyUnscaled
  ExactIsTheScaledAmount
  NumbersAreFair
  FlagsMeetWarnings
  EveryReferenceShows
  DrawingIsTheRecipe
PROPERTIES
  EveryRecipeIsDecided
CHECK_DEADLOCK FALSE
