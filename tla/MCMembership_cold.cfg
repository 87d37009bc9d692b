SPECIFICATION FairSpec
CONSTANTS
  Workers = {w1}
  WindowSize = 2
  EventCap = 1
  MaxSilence = 2
  MaxFaults = 0
  NoWorker = NoWorker
  NoEntry = NoEntry
CHECK_DEADLOCK FALSE
PROPERTY
  EndedIsEvicted
