CONSTANTS
  b1 = b1
  b2 = b2
  w1 = w1
  w2 = w2
  r1 = r1
  Batches = {b1, b2}
  Writers = {w1, w2}
  Readers = {r1}
  Assigned <- MCAssigned
  ActiveLimit = 1
  AbsoluteLimit = 2
  ApprovalLimit = 1
  Nobody = Nobody
SPECIFICATION FairSpec
INVARIANTS TypeOK OneSession DeadlineHolds
PROPERTIES CoordinatorImplemented BatchEnds
