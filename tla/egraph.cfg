SPECIFICATION Spec
CONSTANTS
  Instance = "Congruent"
  Declared <- MCDeclared
  UPs <- MCUPs
  Literals <- MCLiterals
INVARIANTS
  ClassesExact
  ImpliedAtomsDeduced
  ExplanationSound
  ForestSpans
