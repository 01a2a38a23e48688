SPECIFICATION SystemSpec
CONSTANTS
  Client = {c1, c2}
  Parts = 2
  MaxRequests = 1
  Buffer = 1
  Asker = c2
CHECK_DEADLOCK FALSE
INVARIANTS
  ClosedWhenSent
  RepliesGoBack
  BuffersOutliveOperations
PROPERTIES
  EveryoneServed
  ServiceUntilError
  AnsweredOrSilence
