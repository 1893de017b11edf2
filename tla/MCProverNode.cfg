SPECIFICATION FairSpec
CONSTANTS
  n1 = n1
  split1 = split1
  prove1 = prove1
  agg1 = agg1
  single2 = single2
  NoTask = NoTask
  Nodes <- MCNodes
  Tasks <- MCTasks
  KindOf <- MCKindOf
  SizeOf <- MCSizeOf
  Default = 0
  Features <- MCFeatures
  MaxThreads = 2
CHECK_DEADLOCK FALSE
INVARIANTS
  TypeOK
  OneProofPerNode
  OwnShardSize
PROPERTIES
  NodeAnswers
