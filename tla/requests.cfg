SPECIFICATION Spec
CONSTANTS
  Workers    = {w1, w2}
  Surfaces   = {"pages", "product", "ops"}
  Users      = {"ann", "bob"}
  Staff      = {"ann"}
  OwnerOf    <- Owners
  Prefixes   = {"aa"}
  Secrets    = {"s1", "s2", "s_2"}
  Pieces     <- Splits
  Lifetimes  <- Lives
  Strangers  <- Unissued
  PrefsOf    <- Preferences
  Queries    <- Asked
  Settings   <- Environments
  PageSize   = 1
  MaxServed  <- Served
  MaxTime    = 2
  MaxTokens  = 2
  MaxVersion = 2
SYMMETRY Alike
INVARIANTS
  OnlyTheHolderPasses
  RefusalsAreExplained
  PagesFollowHead
  ReaderGetsTheirView
  HealthIsExplained
CHECK_DEADLOCK FALSE
