CONSTANTS
  e1 = e1
  e2 = e2
  Objects <- MCObjects
  MaxSubscriptions = 3
  MaxLength = 3
  MaxDepth = 2
SPECIFICATION Spec
INVARIANTS
  CalledInTurn
CHECK_DEADLOCK FALSE
