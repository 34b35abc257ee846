SPECIFICATION FairSpec
CONSTANTS
  Writers     = {w1}
  Readers     = {r1}
  Contents    = {A, B}
  Files       <- AllFiles
  FreshStamps = FALSE
  MaxCommits  = 4
  MaxCrashes  = 0
INVARIANTS
  ProjectionsFollowHead
PROPERTIES
  ImplementsAtomicStore
  NoneMeansNew
  RefIsRestored
