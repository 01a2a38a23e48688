SPECIFICATION Spec
CONSTANTS
  Client = {c1, c2, c3}
  Parts = 2
CHECK_DEADLOCK FALSE
INVARIANTS
  MemoryForTheWrite
PROPERTIES
  ImplementsDaytimeTcp
