CONSTANTS
  waiter = waiter
  killer = killer
  writer = writer
  Waiters <- MCWaiters
  Killers <- MCKillers
  Writers <- MCWriters
  Streams <- MCStdout
  OpenStdin = TRUE
  Descendants = 1
  MaxOut = 1
  MaxWrite = 2
  PipeSize = 1
  Nobody = nobody
SPECIFICATION FairSpec
INVARIANTS
  StatusAfterOutput
  NoUseAfterClose
PROPERTIES
  StatusCallsReturn
CHECK_DEADLOCK FALSE
