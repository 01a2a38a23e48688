SPECIFICATION Spec
CONSTANTS
  Session = {s1, s2, s3}
  Msg = {m1, m2}
  BadHeader = BadHeader
  ShortBody = ShortBody
  MaxRecent = 2
  MaxFrames = 3
  Responsive = {}
SYMMETRY Symmetry
CHECK_DEADLOCK FALSE
INVARIANTS
  WriteDiscipline
  HistoryIsTail
  ContiguousView
PROPERTIES
  ImplementsRoom
