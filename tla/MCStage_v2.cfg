SPECIFICATION Spec
CONSTANTS
  Feature = "prover_v2"
  Jobs <- AllJobs
  Segments = 3
  Deferred = 1
  MaxProverNum = 2
  Prealloc = 2
  MaxFailures = 3
  Results = {"Unprocessed", "Processing", "Success", "Failed"}
INVARIANTS
  TypeOK
  AggInputsReady
  WaitsForUnfinished
  OneCallPerTask
  SuccessMeansProof
  PanicHasCause
PROPERTIES
  ErrorHasCause
  FinishedProofsKept
