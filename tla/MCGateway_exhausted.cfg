SPECIFICATION Spec
CONSTANTS
  Workers = {w1, w2}
  Calls = {c1}
  ReqIds = {r1}
  RequestId <- OneRequest
  MaxAttempts = 2
  NoWorker = NoWorker
  NoCall = NoCall
  NoId = NoId
  c1 = c1
  r1 = r1
SYMMETRY WorkerSymmetry
PROPERTY
  ExhaustionAnswersOnlySilence
