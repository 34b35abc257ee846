SPECIFICATION FairSpec
CONSTANTS
  Writers     = {w1, w2}
  Readers     = {}
  Contents    = {A, B}
  Files       <- OneFile
  FreshStamps = FALSE
  MaxCommits  = 3
  MaxCrashes  = 1
INVARIANTS
  LineageStored
  NoVersionRepeatsItsParent
PROPERTIES
  EveryCommitEnds
CHECK_DEADLOCK FALSE
