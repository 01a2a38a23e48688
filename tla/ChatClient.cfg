SPECIFICATION Spec
CONSTANTS
  Endpoints = 2
  MaxLines = 3
  MaxFrames = 2
CHECK_DEADLOCK FALSE
INVARIANTS
  LinesInOrder
  QuietUserTriesAll
PROPERTIES
  ClientExits
  ConversationEnds
