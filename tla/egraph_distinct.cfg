SPECIFICATION Spec
CONSTANTS
  Instance = "Joining"
  Declared <- MCDeclared
  UPs <- MCUPs
  Literals <- MCLiterals
INVARIANT
  ExplanationAsserted
CHECK_DEADLOCK FALSE
