CONSTANTS
  p1 = p1
  p2 = p2
  Processes <- MCProcesses
  Piped <- MCPiped
  InheritFds = FALSE
  NoOpener = nobody
SPECIFICATION OpenSpec
INVARIANTS
  NoChildHoldsNearEnds
  NoHandleLeak
CHECK_DEADLOCK FALSE
