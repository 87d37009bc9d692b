SPECIFICATION Spec
CONSTANTS
  Samples = {0, 1, 9}
  capacity = 3
  MaxPushes = 7
  minStdDev = 1
  reach = 561
  scale = 100
  Silences = {0, 1, 2, 5, 6, 7, 9, 10, 14, 15, 25, 29, 30, 40}
CHECK_DEADLOCK FALSE
INVARIANTS
  ValidPrefix
  HoldsTheLatest
  MomentsOfTheLatest
  JitterIsTolerated
  SilenceOnlyRaises
