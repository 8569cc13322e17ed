CONSTANTS
  Caller = caller
  Reader = reader
  Callers <- MCCallers
  Streams <- MCStreams
  Commands <- MCCommands
  OpenStdin = TRUE
  Descendants = FALSE
  Request = 3
  MaxOut = 2
  MaxWrite = 3
  PipeSize = 1
  Nobody = nobody
SPECIFICATION FairTaskSpec
INVARIANTS
  ResponseIsComplete
PROPERTIES
  ExecuteEnds
CHECK_DEADLOCK FALSE
