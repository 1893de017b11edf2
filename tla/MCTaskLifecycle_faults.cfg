SPECIFICATION Spec
CONSTANTS
  p1 = p1
  p2 = p2
  p3 = p3
  r1 = r1
  retry1 = retry1
  r2 = r2
  r3 = r3
  elf1 = elf1
  Proofs <- TwoProofs
  Requests <- ThreeRequests
  IdOf <- MCIdOf
  Programs <- OneProgram
  ElfOf <- MCElfOf
  SingleNode <- SecondSingle
  Doomed <- NoneDoomed
  QueueCap = 1
  MaxConcurrent = 1
  RestartDelay = 0
  MaxTicks = 2
  MaxCrashes = 2
  ClientsLeave = TRUE
  IoErrors = TRUE
CHECK_DEADLOCK FALSE
INVARIANTS
  TypeOK
  FilesIntact
  RunsAtMostOnce
  ComputingIsProcessed
PROPERTIES
  FinalStatusKept
  ImplementsQueue
