SPECIFICATION Spec
CONSTANTS
  N = 4
  NumOfCols = 1
  Cols = {1, 2}
  Defs <- MCDefs
  Literals <- MCLiterals
  MaxPoints = 3
INVARIANTS
  RowsEquivalent
  ValuesConsistent
  NonBasicWithinBounds
  FarkasConflict
  ConcreteModel
  TurnsBounded
