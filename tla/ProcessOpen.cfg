CONSTANTS
  p1 = p1
  p2 = p2
  Processes <- MCProcesses
  Piped <- MCPiped
  InheritFds = FALSE
  Limit = 12
  FdMax = 12
  Before <- MCBefore
SPECIFICATION OpenFairSpec
INVARIANTS
  EndsAreHeldByTheirOwners
  WriteGoesToStdin
PROPERTIES
  StreamsEnd
CHECK_DEADLOCK FALSE
