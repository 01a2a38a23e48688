SPECIFICATION Spec
CONSTANTS
  Conn = {c1, c2}
  Parent = Parent
  MaxChunks = 2
CHECK_DEADLOCK FALSE
INVARIANTS
  ClosedWithTheChild
  EchoInOrder
PROPERTIES
  NoZombies
  ChildrenEnd
  EveryoneAccepted
