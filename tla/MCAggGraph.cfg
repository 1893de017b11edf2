SPECIFICATION SpecBoth
CONSTANTS
  Feature = "prover"
  MaxSegments = 130
  MaxDeferred = 0
  SegmentsV2 = 24
  DeferredV2 = 5
INVARIANTS
  FinalCoversExecution
  OneParent
  TaskCountBound
  GraphOfV2
\* the enumeration stops at its bounds
CHECK_DEADLOCK FALSE
