SPECIFICATION Spec
CONSTANTS
  n1 = n1  n2 = n2  n3 = n3  n4 = n4
INVARIANTS
  QuorumSound
  QuorumComplete
  BlockingSound
  BlockingComplete
CHECK_DEADLOCK FALSE
