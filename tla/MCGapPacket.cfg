SPECIFICATION Spec
CONSTANTS
  Size = 9
  Types = {1, 2, 3}
  Values <- MCValues
  Received <- MCReceived
  Sizes = {9, 250}
INVARIANTS
  TypeOK
  SentIsReceived
CHECK_DEADLOCK FALSE
