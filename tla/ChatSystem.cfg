SPECIFICATION SystemSpec
CONSTANTS
  Session = {me, s2}
  Msg = {1, 2, m1}
  BadHeader = BadHeader
  ShortBody = ShortBody
  MaxRecent = 1
  MaxFrames = 2
  Responsive = {me}
  Me = me
  Endpoints = 1
  MaxLines = 2
CHECK_DEADLOCK FALSE
INVARIANTS
  RoomHearsInOrder
PROPERTIES
  EverybodyHears
  EverybodyIsServed
  SessionsAreReleased
  LinesAreSaid
