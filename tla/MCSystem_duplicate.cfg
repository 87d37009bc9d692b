SPECIFICATION SystemSpec
CONSTANTS
  Workers = {w1, w2}
  Calls = {c1}
  ReqIds = {r1}
  RequestId <- SharedId
  MaxAttempts = 3
  MaxFaults = 1
  NoWorker = NoWorker
  NoCall = NoCall
  NoId = NoId
  NoReply = NoReply
  r1 = r1
SYMMETRY WorkerAndCallSymmetry
INVARIANT
  OnlyFalsePositivesDuplicate
