SPECIFICATION MSpec
CONSTANTS
  CRef_Undef = CRef_Undef
  CRef_Fake = CRef_Fake
  Vars <- MCVars
  TheoryVars <- MCTheoryVars
  TModels <- MCTModels
  Splits <- MCSplits
  InitialClauses <- MCInitialClauses
  NewClauses <- MCNewClauses
  Assumptions <- MCAssumptions
  restart_first = 100
  restart_inc = 11
  learnts_first = 100
  MayInterrupt = FALSE
  MaxSolves = 9
  Scripts <- Circular
  FrameVars <- MCFrameVars
PROPERTIES
  ImplementsStack
CHECK_DEADLOCK FALSE
