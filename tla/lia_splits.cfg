SPECIFICATION Spec
CONSTANTS
  Problem = "two"
  NVars = 2
  Atoms <- MCAtoms
  Clauses <- MCClauses
  Grid <- MCGrid
INVARIANTS
  IntConflictSound
  SplitCutsOff
  SplitOpen
  SplitNew
CHECK_DEADLOCK FALSE
