SPECIFICATION SpecWithSignals
CONSTANTS
  Asker = {c1}
  MaxRequests = 1
  Buffer = 1
CHECK_DEADLOCK FALSE
PROPERTIES
  SignalStopsDaemon
