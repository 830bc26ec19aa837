SPECIFICATION Spec
CONSTANTS
  n1 = n1  n2 = n2  n3 = n3
  Node = {n1, n2, n3}
  QNode = {n1, n2, n3}
  QSet <- OneOther
  quorum_nodes <- MCquorum_nodes
  FindQuorum <- findQuorum
  FindBlockingSet <- findBlockingSet
  INFINITY = 5
  Value = {1}
  List = {1}
  values_of <- SingleValue
  combine_fn <- CombineSingle
  ValidValue <- AllValid
  neighbors <- EveryoneNeighbor
  priority <- MCpriority
  overflow_checks = FALSE
  Proposable <- OneProposer
  KeepOld = FALSE
  MaxBatch = 1
  MaxCounter <- UpTo2
  MaxRound = 0
  MaxRestarts = 0
INVARIANT
  PhaseAssertionsHold
CHECK_DEADLOCK FALSE
