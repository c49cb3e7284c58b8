CONSTANTS
  Users = {u1, u2}
  Rx = rx
  Cons = {c1}
  MaxPackets = 3
  MaxSets = 2
  LateSet = FALSE
SPECIFICATION FairSpec
INVARIANTS
  OneCallbackInOrder
  CancelledEndsBeforeFree
PROPERTIES
  ConEndReturns
  DeadCallbackWoken
CHECK_DEADLOCK FALSE
