SPECIFICATION CSpec
CONSTANTS
  Documents = {}
  Authored  <- Linear
  StepName  <- MCNames
  Sizes     = {"large"}
  FrontKeys <- MCKeys
INVARIANTS
  PrintReadsBack
CHECK_DEADLOCK FALSE
