CONSTANTS
  Base = 2
  Width = 2
  PathMax = 2
  WordBits = 4
  ByteBits = 2
  Polynomial = {2, 3}
  Texts <- MCTexts
  Templates <- MCTemplates
  Delimiters <- MCDelimiters
  Parameters <- MCParameters
  Arguments <- MCArguments
  Paths <- MCPaths
  SearchPaths <- MCSearchPaths
  Errnos <- MCErrnos
  HeaderLines <- MCHeaderLines
  Streams <- MCStreams
  BlockSizes <- MCBlockSizes
  Dash = "-"
  Quote = "'"
  Space = "_"
  End = "0"
  F = "F"
  P = "P"
  Argvs <- MCArgvs
  Lines <- MCLines
  After <- MCAfter
  Slack <- MCEnd
  Absent = absent
  Inserts <- MCInserts
  AddressBits = 6
  Images <- MCImages
  SectionNames <- MCSectionNames
SPECIFICATION Spec
INVARIANTS
  TextsAreRewritten
  EchoComesBack
  QuotedIsRead
  TheFirstIsRun
  HeadersAreRead
  SumOfBlocks
  LinesAreRead
  RoundTrip
  StatementsSayTheValues
  ImportsAreRead
CHECK_DEADLOCK FALSE
