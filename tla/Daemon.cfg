SPECIFICATION DaemonSpec
CONSTANTS
  Asker = {c1, c2}
  MaxRequests = 2
  Buffer = 2
CHECK_DEADLOCK FALSE
INVARIANTS
  Detached
PROPERTIES
  EveryoneAnswered
