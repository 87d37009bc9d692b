SPECIFICATION Spec
CONSTANTS
  Workers = {w1}
  WindowSize = 2
  EventCap = 1
  MaxSilence = 2
  MaxFaults = 1
  NoWorker = NoWorker
  NoEntry = NoEntry
CHECK_DEADLOCK FALSE
INVARIANT
  DeregisterIsFinal
