SPECIFICATION MulticastSpec
CONSTANTS
  Receiver = {r1, r2}
  MaxMessages = 3
  Copies = 2
CHECK_DEADLOCK FALSE
INVARIANTS
  NumberedInOrder
PROPERTIES
  SenderEnds
  EverythingIsPrinted
