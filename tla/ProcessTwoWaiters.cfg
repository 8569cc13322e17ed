CONSTANTS
  waiter = waiter
  waiter2 = waiter2
  client = client
  callback = callback
  Reader = callback
  Callers <- MCTwoWaiters
  Waiters <- MCTwoWaiters
  Killers = {}
  Writers = {}
  Streams <- MCStreams
  OpenStdin = FALSE
  Descendants = FALSE
  MaxOut = 1
  MaxWrite = 2
  PipeSize = 1
  Nobody = nobody
SPECIFICATION Spec
INVARIANTS
  StatusIsTheChilds
CHECK_DEADLOCK FALSE
