SPECIFICATION FairSpec
CONSTANTS
  n1 = n1  n2 = n2  n3 = n3
  Node = {n1, n2}
  QNode = {n1, n2}
  QSet <- TwoNodes
  quorum_nodes <- MCquorum_nodes
  FindQuorum <- findQuorum
  FindBlockingSet <- findBlockingSet
  INFINITY = 5
  Value = {1, 2, 3}
  List = {1, 2, 3, 4, 5, 6, 7}
  values_of <- ThreeValues
  combine_fn <- CombineThree
  ValidValue <- SecondPicky
  neighbors <- EveryoneNeighbor
  priority <- MCpriority
  overflow_checks = FALSE
  Proposable <- SecondMore
  KeepOld = TRUE
  MaxBatch = 1
  MaxCounter <- SecondUpTo2
  MaxRound = 1
  MaxRestarts = 1
INVARIANTS
  TypeOK
  Validity
PROPERTY
  DecidesOnce
  CatchUp
CHECK_DEADLOCK FALSE
