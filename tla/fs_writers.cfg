SPECIFICATION Spec
CONSTANTS
  Writers     = {w1, w2}
  Readers     = {r1}
  Contents    = {A, B}
  Files       <- OneFile
  FreshStamps = TRUE
  MaxCommits  = 3
  MaxCrashes  = 1
INVARIANTS
  TypeOK
  LineageReadable
  ReadersNeverFail
PROPERTIES
  RecordsImmutable
