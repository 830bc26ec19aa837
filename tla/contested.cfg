SPECIFICATION ContestedFairSpec
CONSTANTS
  n1 = n1  n2 = n2  n3 = n3
  Node = {n1, n2, n3}
  QNode = {n1, n2, n3}
  QSet <- OneOther
  quorum_nodes <- MCquorum_nodes
  FindQuorum <- findQuorum
  FindBlockingSet <- findBlockingSet
  INFINITY = 9
  Value = {1, 2}
  List = {1, 2, 3}
  values_of <- TwoValues
  combine_fn <- CombineTwo
  ValidValue <- AllValid
  neighbors <- SplitNeighbors
  priority <- SplitPriority
  overflow_checks = FALSE
  Proposable <- TwoProposers
  Scripts <- Contested
  KeepOld = FALSE
  MaxBatch = 1
  MaxCounter <- ThirdUpTo3
  MaxRound = 0
  MaxRestarts = 0
INVARIANTS
  Agreement
  AssertionsHold
  MessagesValid
  SearchesAgree
PROPERTIES
  DecisionStable
  PNonDecreasing
  BallotMonotone
  Termination
CHECK_DEADLOCK FALSE
