SPECIFICATION FairSpec
CONSTANTS
  Workers = {w1}
  WindowSize = 2
  EventCap = 1
  MaxSilence = 1
  MaxFaults = 1
  NoWorker = NoWorker
  NoEntry = NoEntry
CHECK_DEADLOCK FALSE
PROPERTY
  StopEnds
