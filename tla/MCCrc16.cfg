SPECIFICATION Spec
CONSTANTS
  Alphabet <- Byte
  MaxLength = 2
INVARIANTS
  MatchesPolynomial
  BurstsDetected
CHECK_DEADLOCK FALSE
