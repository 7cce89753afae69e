SPECIFICATION Spec
CONSTANTS
  x1 = x1
  x2 = x2
  x3 = x3
  y1 = y1
  s2 = s2
  p = p
  MaxCalls = 2
  Atoms <- MCAtoms
  TheoryAtoms <- MCTheoryAtoms
  Splits <- MCSplits
  LeqVar <- MCLeqVar
  LeqConst <- MCLeqConst
  SumNegated <- MCSumNegated
  Rows <- MCRows
CONSTRAINT
  Narrowed
INVARIANTS
  PointsAligned
  BoundsExact
  DecisionsExact
  DeductionsComplete
  DeductionsExact
  NoDoubleEnqueue
  ConflictSound
  ReasonSound
CHECK_DEADLOCK FALSE
