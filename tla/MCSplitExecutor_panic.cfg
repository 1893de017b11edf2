SPECIFICATION FairSpec
CONSTANTS
  w1 = w1
  w2 = w2
  w3 = w3
  NoWorker = NoWorker
  Workers <- TwoWorkers
  Checkpoints = 2
  ChannelCapacity = 1
  MaxRecords = 2
  DeferredProofs = 2
  ExecutionErrors = FALSE
  Panics = TRUE
CHECK_DEADLOCK FALSE
PROPERTIES
  PanicIsAnswered
