SPECIFICATION FairSystemSpec
CONSTANTS
  Feature = "prover_v2"
  Jobs <- FullJob
  Segments = 1
  Deferred = 0
  MaxProverNum = 1
  Prealloc = 1
  MaxFailures = 1
  Results = {"Unprocessed", "Success", "Failed"}
  n1 = n1
  n2 = n2
  NoNode = NoNode
  Nodes <- TwoNodes
  FirstNode = n1
  ProveNodes <- TwoNodes
  ProveFails = TRUE
PROPERTIES
  FailedIsTriedAgain
