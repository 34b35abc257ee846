SPECIFICATION Spec
CONSTANTS
  Writers     = {w1, w2}
  Readers     = {}
  Contents    = {A, B}
  Files       <- OneFile
  FreshStamps = TRUE
  MaxCommits  = 2
  MaxCrashes  = 0
INVARIANTS
  AckedLineageIsLinear
CHECK_DEADLOCK FALSE
