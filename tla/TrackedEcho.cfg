SPECIFICATION TrackedSpec
CONSTANTS
  MaxChunks = 3
  Parts = 3
CHECK_DEADLOCK FALSE
INVARIANTS
  StorageSuffices
  SessionOutlivesHandlers
  LogIsReadable
PROPERTIES
  SessionEnds
