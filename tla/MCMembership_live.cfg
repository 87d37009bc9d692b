SPECIFICATION FairSpec
CONSTANTS
  Workers = {w1}
  WindowSize = 3
  EventCap = 1
  MaxSilence = 2
  MaxFaults = 2
  NoWorker = NoWorker
  NoEntry = NoEntry
CHECK_DEADLOCK FALSE
PROPERTIES
  SelfHealing
  WarmSilenceIsEvicted
  DeathsAreAnnounced
