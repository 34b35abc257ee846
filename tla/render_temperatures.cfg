SPECIFICATION RSpec
CONSTANTS
  ActionIds = {1, 2, 3}
  States    <- MCStates
  Recipes   <- OneStepRecipes
  Contents  <- OvenContents
  Readers   <- MCReaders
  Registry  <- MCRegistry
  SourceLang = "de"
  BaseOf    <- BaseLanguages
INVARIANTS
  NoTemperatureSilentlyUnscaled
CHECK_DEADLOCK FALSE
