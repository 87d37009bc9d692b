SPECIFICATION FairProcessSpec
CONSTANTS
  Workers = {w1, w2}
  Calls = {c1, c2}
  ReqIds = {r1}
  RequestId <- OneWithoutId
  MaxAttempts = 2
  NoWorker = NoWorker
  NoCall = NoCall
  NoId = NoId
  c1 = c1
  c2 = c2
  r1 = r1
CHECK_DEADLOCK FALSE
INVARIANT
  NoForwardCut
PROPERTIES
  EveryCallReturns
  AttemptsEnd
  StopCompletes
