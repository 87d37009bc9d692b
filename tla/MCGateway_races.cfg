SPECIFICATION Spec
CONSTANTS
  Workers = {w1, w2, w3}
  Calls = {c1}
  ReqIds = {r1}
  RequestId <- OneRequest
  MaxAttempts = 3
  NoWorker = NoWorker
  NoCall = NoCall
  NoId = NoId
  c1 = c1
  r1 = r1
SYMMETRY WorkerSymmetry
INVARIANTS
  TypeOK
  ExactlyOneWinner
  AnswerIsTheWinners
  GaugeCountsLiveAttempts
  BudgetBoundsLaunches
  WaiterIsServed
PROPERTIES
  ExhaustionNeedsSilence
  OnlyDepartureDuplicates
  ImplementsFirstWins
