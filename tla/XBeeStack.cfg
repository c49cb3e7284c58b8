CONSTANTS
  Users = {u1, u2}
  Cons = {c1, c2}
  AtCons = {c1}
  QuietCons = {c2}
  Nobody = nobody
  NumFrames = 2
  MaxCalls = 3
  Faults = {"build", "write", "timeout"}
  MaxUnknown = 1
SPECIFICATION FairSpec
INVARIANTS
  WaitersOwnTheirFrames
  FirstUseIsAcknowledged
  PacketBeforeStatus
PROPERTIES
  LateStatusFreesTheFrame
  ConnTxReturns
CHECK_DEADLOCK FALSE
