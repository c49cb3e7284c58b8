SPECIFICATION FairSpec
CONSTANTS
    Instances = {a, b}
    Order <- HandlerThread
    Talkers = {a}
    Null = Null
PROPERTIES
    FreeEnds
INVARIANTS
    NothingLeftBehind
    PortsStayOpen
CHECK_DEADLOCK FALSE
