SPECIFICATION FairSpec
CONSTANTS
  n1 = n1
  n2 = n2
  s1 = s1
  s2 = s2
  prove1 = prove1
  agg1 = agg1
  snark2 = snark2
  single2 = single2
  NoNode = NoNode
  Nodes <- MCNodes
  FirstNode = n1
  ProveNodes <- MCNodes
  Stages <- MCStages
  Calls <- CallsLive
  StageOf <- MCStageOf
  KindOf <- MCKindOf
  MaxProverNum = 1
  DbErrors = TRUE
PROPERTIES
  CallReturns
