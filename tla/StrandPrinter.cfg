SPECIFICATION Spec
CONSTANTS
  Thread = {main, t}
  Timer = {timer1, timer2}
  Limit = 10
CHECK_DEADLOCK FALSE
INVARIANTS
  CountsUp
  FinalCount
PROPERTIES
  ProgramEnds
