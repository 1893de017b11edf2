SPECIFICATION FairSpec
CONSTANTS
  Feature = "prover"
  Jobs <- ReportingJobs
  Segments = 3
  Deferred = 0
  MaxProverNum = 2
  Prealloc = 4
  MaxFailures = 1
  Results = {"Unprocessed", "Success", "Failed"}
INVARIANTS
  AggInputsReady
  SuccessMeansProof
  WaitsForACall
PROPERTIES
  EventuallyReported
