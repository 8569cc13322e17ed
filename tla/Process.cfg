CONSTANTS
  waiter = waiter
  waiter2 = waiter2
  client = client
  callback = callback
  Reader = callback
  Callers <- MCCallers
  Waiters <- MCWaiters
  Killers <- MCClients
  Writers <- MCClients
  Streams <- MCStreams
  OpenStdin = TRUE
  Descendants = TRUE
  MaxOut = 1
  MaxWrite = 2
  PipeSize = 1
  Nobody = nobody
SPECIFICATION FairSpec
INVARIANTS
  StatusAfterOutput
  NoUseAfterClose
PROPERTIES
  SignalsReachTheChild
  StatusCallsReturn
CHECK_DEADLOCK FALSE
