SPECIFICATION CFairSpec
CONSTANTS
  Documents <- MCDocuments
  Authored  = {}
  StepName  <- MCNames
  Sizes     = {"large"}
  FrontKeys <- MCKeys
INVARIANTS
  ActionsAreSound
  ReadsBack
  PrintReproducesTheText
PROPERTIES
  EveryDocumentEnds
CHECK_DEADLOCK FALSE
