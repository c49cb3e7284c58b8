SPECIFICATION Spec
CONSTANTS
    NoItem = NoItem
    Frames <- MCFrames
    MaxFrames = 3
    Stale = {0, 126}
    MaxFaults = 1
INVARIANTS
    ArriveInOrder
    BackInStep
    SamplesReadBack
    EachPacketOnce
    ListOperations
CHECK_DEADLOCK FALSE
