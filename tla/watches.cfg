SPECIFICATION Spec
CONSTANTS
  Vars <- MCVars
  Formula <- MCFormula
  Splits <- MCSplits
  Deductions <- MCDeductions
  Decisions <- MCDecisions
  Learnable <- MCLearnable
  MaxRefs = 4
INVARIANTS
  TwoWatches
  FormulaKept
  Settled
CHECK_DEADLOCK FALSE
