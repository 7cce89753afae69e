SPECIFICATION FairSpec
CONSTANTS
  CRef_Undef = CRef_Undef
  CRef_Fake = CRef_Fake
  Vars <- MCVars
  TheoryVars <- MCTheoryVars
  TModels <- MCTModels
  Splits <- MCSplits
  InitialClauses <- MCInitialClauses
  NewClauses <- MCNewClauses
  Assumptions <- MCAssumptions
  restart_first = 2
  restart_inc = 11
  learnts_first = 2
  MayInterrupt = TRUE
  MaxSolves = 2
INVARIANTS
  SearchInv
  SoundInv
  TrailConsistent
  ReasonsInOrder
  UIPReached
  SeenCleared
  LearntsEntailed
  AnswersCorrect
PROPERTIES
  LearnsNew
  StopReturns
  Level0Kept
  Termination
CHECK_DEADLOCK FALSE
