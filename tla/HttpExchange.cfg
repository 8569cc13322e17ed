CONSTANTS
  Codes <- MCCodes
  Own = 200
  Internal = 500
SPECIFICATION FairSpec
INVARIANTS
  NothingIsDropped
  ErrorsComeLast
  ClientLearnsTheOutcome
PROPERTIES
  RequestEnds
CHECK_DEADLOCK FALSE
