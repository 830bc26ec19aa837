SPECIFICATION Spec
CONSTANTS
  p1 = p1  p2 = p2  p3 = p3  t1 = t1  t2 = t2
  Peer = {p1, p2, p3}
  Faulty = {p3}
  Slices <- AnyTwo
  Tx = {t1, t2}
  KeyImage <- OwnImage
  Tombstone <- FirstExpires
  SyncLimit = 2
  MaxNominate = 1
  MaxTxs = 1
  Submitted = {t1}
  MaxBlocks = 3
INVARIANT NominateAssertion
