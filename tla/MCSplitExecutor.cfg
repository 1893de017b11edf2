SPECIFICATION FairSpec
CONSTANTS
  w1 = w1
  w2 = w2
  w3 = w3
  NoWorker = NoWorker
  Workers <- ThreeWorkers
  Checkpoints = 3
  ChannelCapacity = 1
  MaxRecords = 2
  DeferredProofs = 2
  ExecutionErrors = TRUE
  Panics = TRUE
CHECK_DEADLOCK FALSE
INVARIANTS
  TypeOK
  SegmentsInOrder
  AnswerIsComplete
PROPERTIES
  KeepsContract
  SplitAnswers
