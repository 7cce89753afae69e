SPECIFICATION Spec
CONSTANTS
  Problem = "one"
  NVars = 1
  Atoms <- MCAtoms
  Clauses <- MCClauses
  Grid <- MCGrid
INVARIANTS
  TriedIsBlocked
CHECK_DEADLOCK FALSE
