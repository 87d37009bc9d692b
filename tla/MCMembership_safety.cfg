SPECIFICATION Spec
CONSTANTS
  Workers = {w1, w2}
  WindowSize = 2
  EventCap = 1
  MaxSilence = 2
  MaxFaults = 1
  NoWorker = NoWorker
  NoEntry = NoEntry
SYMMETRY WorkerSymmetry
CHECK_DEADLOCK FALSE
INVARIANTS
  TypeOK
  NoTombstone
  StateFollowsScore
PROPERTIES
  WarmUpIsNeverCondemned
  ImplementsRoster
