SPECIFICATION FairSpec
CONSTANTS
  p1 = p1
  p2 = p2
  p3 = p3
  r1 = r1
  retry1 = retry1
  r2 = r2
  r3 = r3
  elf1 = elf1
  Proofs <- ThreeProofs
  Requests <- OneEach
  IdOf <- MCIdOf
  Programs <- OneProgram
  ElfOf <- MCElfOf
  SingleNode <- SecondSingle
  Doomed <- ThirdDoomed
  QueueCap = 3
  MaxConcurrent = 2
  RestartDelay = 1
  MaxTicks = 1
  MaxCrashes = 1
  ClientsLeave = FALSE
  IoErrors = FALSE
CHECK_DEADLOCK FALSE
INVARIANTS
  CheckAtKnown
PROPERTIES
  EventuallyFinal
